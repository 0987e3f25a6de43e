--------------------------- MODULE Restart_proofs ---------------------------
(***************************************************************************)
(* What holds of Restart for chains of any length, any number of passes    *)
(* and any inputs: a ready pass is never stranded, no input is shown twice *)
(* and, when the environment takes none of the risks that concern inputs,  *)
(* none is lost; when it takes none of those of the screen, the terminal   *)
(* shows what the process at work, or nobody, needs it to show.            *)
(***************************************************************************)
EXTENDS Restart, TLAPS

Alive == {"boot", "up", "leaving", "disposing", "follows"}

-----------------------------------------------------------------------------
(* One process: its passes. *)

Holders(p) == {k \in Passes : pass[p][k] \in {"stages", "ghost"}}

\* What an unsettled handoff is, and which pass is in which state.
Shaped(p) ==
    /\ waiting[p].from = 0 => waiting[p] = Nothing
    /\ waiting[p].from # 0 => waiting[p].inputs # {}
    /\ st[p] \in {"none", "boot"} => applied[p] = 0 /\ waiting[p] = Nothing /\ ~live[p]
    /\ marker[p] # 0 => st[p] \in {"boot", "gone"}
    /\ live[p] => applied[p] # 0
    /\ \A k \in Passes : pass[p][k] = "none" <=> k > applied[p]
    /\ \A k \in Passes : pass[p][k] \in {"listens", "waits", "stages"} => k = applied[p] /\ live[p]
    /\ \A k \in Passes : pass[p][k] = "listens" => waiting[p].from # 0

\* Exactly the pass that holds the claim stages, and the mounted pass of an
\* unsettled handoff listens, waits or stages.
Claimed(p) ==
    /\ \A j, k \in Holders(p) : j = k
    /\ waiting[p].claimed <=> Holders(p) # {}
    /\ \A k \in Passes : pass[p][k] = "waits" => waiting[p].claimed
    /\ st[p] = "up" /\ live[p] /\ waiting[p].from # 0
       => \/ pass[p][applied[p]] \in {"waits", "stages"}
          \/ pass[p][applied[p]] = "listens" /\ ~ready[p]

Claims == \A p \in Procs : Shaped(p) /\ Claimed(p)

-----------------------------------------------------------------------------
(* The chain. *)

Holds(p, f) == marker[p] = f \/ waiting[p].from = f

\* A process not yet started has left no trace.
Unborn ==
    \A p \in Procs : st[p] = "none" =>
        /\ dad[p] = 0 /\ p \notin printed
        /\ \A q \in Procs : dad[q] # p /\ ~Holds(q, p)

\* How far a process has come.
Fates ==
    \A p \in Procs :
        /\ code[p] # "none" => st[p] = "gone"
        /\ p \in printed => st[p] = "gone"
        /\ st[p] \in {"none", "boot", "up"} => why[p] = "none"
        /\ st[p] = "follows" => why[p] \in {"restart", "switch"}
        /\ code[p] = "ok" => why[p] \in {"none", "quit", "restart", "switch"}
        /\ code[p] = "signal" => why[p] \in {"none", "signal", "restart", "switch"}

\* Only a failure, during the boot or later, leaves an unsettled handoff behind.
Settled ==
    \A p \in Procs :
        why[p] \in {"quit", "signal", "restart", "switch"} \/ code[p] \in {"ok", "signal"}
        => waiting[p].from = 0 /\ marker[p] = 0

\* Who replaces whom, and who has been handed which file.
Family ==
    /\ \A p \in Procs : dad[p] # 0 => st[dad[p]] \in {"follows", "gone"}
    /\ \A p, q \in Procs : dad[p] = dad[q] /\ dad[p] # 0 => p = q
    /\ \A p, q \in Procs : st[p] \in Alive /\ st[q] \in Alive /\ dad[p] = 0 /\ dad[q] = 0 => p = q
    /\ \A p, f \in Procs : dad[p] = f /\ files[f] # {} => Holds(p, f)
    /\ \A p, f \in Procs :
          st[p] \in Alive /\ Holds(p, f) =>
              \/ dad[p] = f
              \/ dad[p] = 0 /\ st[f] = "gone" /\ \A q \in Procs : st[q] \in Alive => dad[q] # f
    /\ \A p \in Procs :
          st[p] \in Alive /\ waiting[p].from # 0 => waiting[p].inputs = files[waiting[p].from]

-----------------------------------------------------------------------------
(* The inputs. *)

\* Where an input can be, and that it is in one place.
Places ==
    /\ \A p \in Procs : rows[p] # {} => st[p] = "up" /\ live[p]
    /\ \A p \in Procs : carry[p] # {} => st[p] = "leaving" /\ why[p] = "restart"
    /\ \A p \in Procs : files[p] # {} => why[p] = "restart" /\ Reachable(p)

Exclusive ==
    /\ \A p, q \in Procs : p # q => /\ rows[p] \cap rows[q] = {}
                                    /\ carry[p] \cap carry[q] = {}
                                    /\ files[p] \cap files[q] = {}
    /\ \A p, q \in Procs : rows[p] \cap (carry[q] \cup files[q]) = {} /\ carry[p] \cap files[q] = {}
    /\ \A p \in Procs : rows[p] \cup carry[p] \cup files[p] \subseteq typed \ sent
    /\ sent \subseteq typed

\* Every input is sent, given up, or in one of these places.
Accounted ==
    \A t \in typed \ (sent \cup forgone) :
        \E p \in Procs : t \in rows[p] \cup carry[p] \cup files[p]

-----------------------------------------------------------------------------
(* Types. *)

PassStates == {"none", "listens", "waits", "stages", "ghost", "rests"}
ControlType ==
    /\ st \in [Procs -> {"none", "boot", "up", "leaving", "disposing", "follows", "gone"}]
    /\ dad \in [Procs -> 0..MaxProcs]
    /\ why \in [Procs -> Reasons \cup {"none"}]
    /\ code \in [Procs -> {"none", "ok", "bad", "signal", "kill"}]
    /\ named \in [Procs -> BOOLEAN]
InputType ==
    /\ carry \in [Procs -> SUBSET Texts] /\ files \in [Procs -> SUBSET Texts]
    /\ rows \in [Procs -> SUBSET Texts]
    /\ printed \subseteq Procs /\ marker \in [Procs -> 0..MaxProcs]
    /\ typed \subseteq Texts /\ sent \subseteq Texts /\ forgone \subseteq Texts
WaitingType == waiting \in [Procs -> Handoffs] /\ applied \in [Procs -> 0..MaxPasses]
PassType ==
    /\ live \in [Procs -> BOOLEAN] /\ ready \in [Procs -> BOOLEAN]
    /\ pass \in [Procs -> [Passes -> PassStates]]
TerminalType ==
    /\ ack \in [Procs -> {"none", "armed", "adopted", "ready", "dead"}]
    /\ drawn \in [Procs -> {"no", "flying", "flushed"}]
    /\ screen \in {"main", "alt"}

LEMMA TypeParts == /\ TypeOK <=> ControlType /\ InputType /\ WaitingType /\ PassType /\ TerminalType
                   /\ TypeOK' <=> ControlType' /\ InputType' /\ WaitingType' /\ PassType' /\ TerminalType'
BY DEF TypeOK, ControlType, InputType, WaitingType, PassType, TerminalType, PassStates

LEMMA Numbers == /\ Procs \subseteq 0..MaxProcs /\ 0 \in 0..MaxProcs
                 /\ \A k \in Nat : k + 1 \in Passes => k + 1 \in 0..MaxPasses
BY RestartAssumption DEF Procs, Passes

LEMMA Replaced ==
    /\ \A S, K, V, i, k : \A f \in [S -> [K -> V]], v \in V : [f EXCEPT ![i][k] = v] \in [S -> [K -> V]]
    /\ \A S, V, i : \A f \in [S -> V], v \in V : [f EXCEPT ![i] = v] \in [S -> V]
OBVIOUS

LEMMA Handled == \A h \in Handoffs : Claim(h) \in Handoffs /\ Taken(h) \in PassStates
BY DEF Handoffs, Claim, Taken, PassStates

LEMMA TypeStep == ASSUME TypeOK, [Next]_vars PROVE TypeOK'
<1> USE TypeParts, Numbers DEF Reasons
<1>1. ASSUME NEW p \in Procs, Ready(p) PROVE TypeOK'
  <2>1. ControlType'
    BY <1>1 DEF Ready, Claim, Taken, control, handed, adoption, terminal, history, ControlType
  <2>2. InputType'
    BY <1>1 DEF Ready, Claim, Taken, control, handed, adoption, terminal, history, ControlType, InputType, WaitingType
  <2>3. WaitingType'
    <3>1. waiting' \in {waiting, [waiting EXCEPT ![p] = Claim(waiting[p])]} /\ applied' = applied
      BY <1>1 DEF Ready, control, handed, adoption, terminal, history, WaitingType
    <3> QED BY <3>1, Replaced, Handled DEF WaitingType
  <2>4. PassType'
    <3>1. pass' \in [Procs -> [Passes -> PassStates]]
      <4>1. CASE pass' = pass
        BY <4>1 DEF PassType
      <4>2. CASE pass' = [pass EXCEPT ![p][applied[p]] = Taken(waiting[p])]
        <5>1. Taken(waiting[p]) \in PassStates
          BY Handled DEF WaitingType
        <5> QED BY <4>2, <5>1, Replaced DEF PassType
      <4> QED BY <1>1, <4>1, <4>2 DEF Ready, adoption
    <3> QED BY <1>1, <3>1 DEF Ready, control, handed, adoption, terminal, history, PassType
  <2>5. TerminalType'
    BY <1>1 DEF Ready, Claim, Taken, control, handed, adoption, terminal, history, TerminalType
  <2> QED BY <2>1, <2>2, <2>3, <2>4, <2>5
<1>2. ASSUME NEW p \in Procs, Stops(p) PROVE TypeOK'
  BY <1>2 DEF Stops, Stopped, control, handed, adoption, terminal, history, TypeOK
<1>3. ASSUME NEW p \in Procs, FirstWrite(p) PROVE TypeOK'
  BY <1>3 DEF FirstWrite, control, handed, adoption, terminal, history, TypeOK
<1>4. ASSUME NEW p \in Procs, Flushed(p) PROVE TypeOK'
  BY <1>4 DEF Flushed, Follows, control, handed, adoption, terminal, history, TypeOK
<1>5. ASSUME NEW p \in Procs, Exits(p) PROVE TypeOK'
  BY <1>5 DEF Exits, Ends, control, handed, adoption, terminal, history, TypeOK
<1>6. ASSUME NEW p \in Procs, SpawnFails(p) PROVE TypeOK'
  <2>1. ControlType'
    BY <1>6 DEF SpawnFails, Printed, Ends, control, handed, adoption, terminal, history, ControlType
  <2>2. InputType'
    BY <1>6 DEF SpawnFails, Printed, Ends, control, handed, adoption, terminal, history, ControlType, InputType, WaitingType
  <2>3. WaitingType'
    BY <1>6 DEF SpawnFails, Printed, Ends, control, handed, adoption, terminal, history, WaitingType, InputType, Handoffs
  <2>4. PassType'
    BY <1>6 DEF SpawnFails, Printed, Ends, control, handed, adoption, terminal, history, PassType, WaitingType, PassStates, Handoffs
  <2>5. TerminalType'
    BY <1>6 DEF SpawnFails, Printed, Ends, control, handed, adoption, terminal, history, TerminalType
  <2> QED BY <2>1, <2>2, <2>3, <2>4, <2>5
<1>7. ASSUME NEW p \in Procs, Stalls(p) PROVE TypeOK'
  <2>1. ControlType'
    BY <1>7 DEF Stalls, Printed, Ends, control, handed, adoption, terminal, history, ControlType
  <2>2. InputType'
    BY <1>7 DEF Stalls, Printed, Ends, control, handed, adoption, terminal, history, ControlType, InputType, WaitingType
  <2>3. WaitingType'
    BY <1>7 DEF Stalls, Printed, Ends, control, handed, adoption, terminal, history, WaitingType, InputType, Handoffs
  <2>4. PassType'
    BY <1>7 DEF Stalls, Printed, Ends, control, handed, adoption, terminal, history, PassType, WaitingType, PassStates, Handoffs
  <2>5. TerminalType'
    BY <1>7 DEF Stalls, Printed, Ends, control, handed, adoption, terminal, history, TerminalType
  <2> QED BY <2>1, <2>2, <2>3, <2>4, <2>5
<1>8. ASSUME NEW p \in Procs, NEW how \in {"ok", "bad", "signal"}, BootFails(p, how) PROVE TypeOK'
  BY <1>8 DEF BootFails, Ends, control, handed, adoption, terminal, history, TypeOK
<1>9. ASSUME NEW p \in Procs, Killed(p) PROVE TypeOK'
  BY <1>9 DEF Killed, Ends, control, handed, adoption, terminal, history, TypeOK
<1>10. ASSUME NEW p \in Procs, NEW b \in BOOLEAN, Apply(p, b) PROVE TypeOK'
  <2>1. ControlType'
    BY <1>10 DEF Apply, Claim, Taken, Follows, Nothing, control, handed, adoption, terminal, history, ControlType
  <2>2. InputType'
    BY <1>10 DEF Apply, Claim, Taken, Follows, Nothing, control, handed, adoption, terminal, history, ControlType, InputType, WaitingType
  <2>3. WaitingType'
    <3> DEFINE h == IF marker[p] = 0 THEN waiting[p]
                    ELSE [from |-> marker[p], inputs |-> files[marker[p]], claimed |-> FALSE]
    <3>1. h \in Handoffs /\ Nothing \in Handoffs
      BY DEF InputType, WaitingType, Handoffs, Nothing, Procs
    <3>2. \E x \in {Nothing, h, Claim(h)} : waiting' = [waiting EXCEPT ![p] = x]
      BY <1>10 DEF Apply
    <3>3. applied' = [applied EXCEPT ![p] = applied[p] + 1] /\ applied[p] + 1 \in 0..MaxPasses
      BY <1>10, RestartAssumption DEF Apply, WaitingType, Passes
    <3>4. waiting' \in [Procs -> Handoffs]
      <4>1. PICK x \in {Nothing, h, Claim(h)} : waiting' = [waiting EXCEPT ![p] = x]
        BY <3>2
      <4>2. x \in Handoffs
        BY <3>1, Handled
      <4> QED BY <4>1, <4>2, Replaced DEF WaitingType
    <3>5. applied' \in [Procs -> 0..MaxPasses]
      BY <3>3, Replaced DEF WaitingType
    <3> QED BY <3>4, <3>5 DEF WaitingType
  <2>4. PassType'
    <3>1. \E x \in PassStates, k \in Passes : pass' = [pass EXCEPT ![p][k] = x]
      BY <1>10 DEF Apply, Taken, PassStates
    <3>2. pass' \in [Procs -> [Passes -> PassStates]]
      BY <3>1, Replaced DEF PassType
    <3> QED BY <1>10, <3>2 DEF Apply, PassType
  <2>5. TerminalType'
    BY <1>10 DEF Apply, Claim, Taken, Follows, Nothing, control, handed, adoption, terminal, history, TerminalType
  <2> QED BY <2>1, <2>2, <2>3, <2>4, <2>5
<1>11. ASSUME NEW p \in Procs, NEW b \in BOOLEAN, CleansUp(p, b) PROVE TypeOK'
  BY <1>11 DEF CleansUp, Stopped, control, handed, adoption, terminal, history, TypeOK
<1>12. ASSUME NEW p \in Procs, NEW k \in Passes, Parks(p, k) PROVE TypeOK'
  <2>1. ControlType'
    BY <1>12 DEF Parks, Nothing, control, handed, adoption, terminal, history, ControlType
  <2>2. InputType'
    <3>1. waiting[p].inputs \in SUBSET Texts
      BY DEF WaitingType, Handoffs
    <3>2. files' \in [Procs -> SUBSET Texts] /\ rows' \in [Procs -> SUBSET Texts]
      BY <1>12, <3>1, Replaced DEF Parks, InputType
    <3> QED BY <1>12, <3>2 DEF Parks, control, handed, adoption, terminal, history, InputType
  <2>3. WaitingType'
    BY <1>12 DEF Parks, Nothing, control, handed, adoption, terminal, history, WaitingType, InputType, Handoffs
  <2>4. PassType'
    BY <1>12 DEF Parks, Nothing, control, handed, adoption, terminal, history, PassType, WaitingType, PassStates, Handoffs
  <2>5. TerminalType'
    BY <1>12 DEF Parks, Nothing, control, handed, adoption, terminal, history, TerminalType
  <2> QED BY <2>1, <2>2, <2>3, <2>4, <2>5
<1>13. ASSUME NEW p \in Procs, NEW k \in Passes, GivesBack(p, k) PROVE TypeOK'
  <2>1. ControlType'
    BY <1>13 DEF GivesBack, Released, control, handed, adoption, terminal, history, ControlType
  <2>2. InputType'
    BY <1>13 DEF GivesBack, Released, control, handed, adoption, terminal, history, ControlType, InputType, WaitingType
  <2>3. WaitingType'
    BY <1>13 DEF GivesBack, Released, control, handed, adoption, terminal, history, WaitingType, InputType, Handoffs
  <2>4. PassType'
    BY <1>13 DEF GivesBack, Released, control, handed, adoption, terminal, history, PassType, WaitingType, PassStates, Handoffs
  <2>5. TerminalType'
    BY <1>13 DEF GivesBack, Released, control, handed, adoption, terminal, history, TerminalType
  <2> QED BY <2>1, <2>2, <2>3, <2>4, <2>5
<1>14. ASSUME NEW p \in Procs, NEW t \in Texts, Types(p, t) PROVE TypeOK'
  BY <1>14 DEF Types, control, handed, adoption, terminal, history, TypeOK
<1>15. ASSUME NEW p \in Procs, NEW t \in Texts, Sends(p, t) PROVE TypeOK'
  BY <1>15 DEF Sends, control, handed, adoption, terminal, history, TypeOK
<1>16. ASSUME NEW p \in Procs, NEW r \in Reasons, NEW b \in BOOLEAN, Leave(p, r, b) PROVE TypeOK'
  BY <1>16 DEF Leave, OwnsExit, control, handed, adoption, terminal, history, TypeOK
<1>17. ASSUME NEW p \in Procs, NEW c \in Procs, Spawns(p, c) PROVE TypeOK'
  <2>1. ControlType'
    BY <1>17 DEF Spawns, Newest, Fresh, control, handed, adoption, terminal, history, ControlType
  <2>2. InputType'
    BY <1>17 DEF Spawns, Newest, Fresh, control, handed, adoption, terminal, history, ControlType, InputType, WaitingType
  <2>3. WaitingType'
    BY <1>17 DEF Spawns, Newest, Fresh, control, handed, adoption, terminal, history, WaitingType, InputType, Handoffs
  <2>4. PassType'
    BY <1>17 DEF Spawns, Newest, Fresh, control, handed, adoption, terminal, history, PassType, WaitingType, PassStates, Handoffs
  <2>5. TerminalType'
    BY <1>17 DEF Spawns, Newest, Fresh, control, handed, adoption, terminal, history, TerminalType
  <2> QED BY <2>1, <2>2, <2>3, <2>4, <2>5
<1>18. ASSUME NEW p \in Procs, NEW c \in Procs, ReplacementEnds(p, c) PROVE TypeOK'
  <2>1. ControlType'
    BY <1>18 DEF ReplacementEnds, Printed, Ends, control, handed, adoption, terminal, history, ControlType
  <2>2. InputType'
    BY <1>18 DEF ReplacementEnds, Printed, Ends, control, handed, adoption, terminal, history, ControlType, InputType, WaitingType
  <2>3. WaitingType'
    BY <1>18 DEF ReplacementEnds, Printed, Ends, control, handed, adoption, terminal, history, WaitingType, InputType, Handoffs
  <2>4. PassType'
    BY <1>18 DEF ReplacementEnds, Printed, Ends, control, handed, adoption, terminal, history, PassType, WaitingType, PassStates, Handoffs
  <2>5. TerminalType'
    BY <1>18 DEF ReplacementEnds, Printed, Ends, control, handed, adoption, terminal, history, TerminalType
  <2> QED BY <2>1, <2>2, <2>3, <2>4, <2>5
<1>19. ASSUME NEW p \in Procs, NEW c \in Procs, Resume(p, c) PROVE TypeOK'
  <2>1. ControlType'
    BY <1>19 DEF Resume, Newest, Fresh, control, handed, adoption, terminal, history, ControlType
  <2>2. InputType'
    BY <1>19 DEF Resume, Newest, Fresh, control, handed, adoption, terminal, history, ControlType, InputType, WaitingType
  <2>3. WaitingType'
    BY <1>19 DEF Resume, Newest, Fresh, control, handed, adoption, terminal, history, WaitingType, InputType, Handoffs
  <2>4. PassType'
    BY <1>19 DEF Resume, Newest, Fresh, control, handed, adoption, terminal, history, PassType, WaitingType, PassStates, Handoffs
  <2>5. TerminalType'
    BY <1>19 DEF Resume, Newest, Fresh, control, handed, adoption, terminal, history, TerminalType
  <2> QED BY <2>1, <2>2, <2>3, <2>4, <2>5
<1>20. CASE UNCHANGED vars
  BY <1>20 DEF vars, control, handed, adoption, terminal, history, ControlType, InputType, WaitingType, PassType, TerminalType
<1> QED BY <1>1, <1>2, <1>3, <1>4, <1>5, <1>6, <1>7, <1>8, <1>9, <1>10, <1>11, <1>12, <1>13, <1>14, <1>15, <1>16, <1>17, <1>18, <1>19, <1>20 DEF Next

-----------------------------------------------------------------------------
(* Claims. *)

Untouched(q) == UNCHANGED <<waiting[q], applied[q], live[q], ready[q], pass[q]>>

\* A process whose passes a step leaves alone.
LEMMA ClaimsKept ==
    ASSUME NEW q \in Procs, Shaped(q), Claimed(q), Untouched(q),
           \/ st'[q] = st[q] /\ marker'[q] = marker[q]
           \/ st'[q] \in {"leaving", "disposing", "follows"} /\ st[q] \notin {"boot", "gone"} /\ marker'[q] = marker[q]
           \/ st'[q] = "gone" /\ marker'[q] = marker[q]
           \/ st[q] = "none" /\ st'[q] = "boot"
    PROVE  Shaped(q)' /\ Claimed(q)'
<1>1. Holders(q)' = Holders(q)
  BY DEF Holders, Untouched
<1>2. Shaped(q)'
  BY DEF Shaped, Untouched
<1>3. Claimed(q)'
  BY <1>1 DEF Shaped, Claimed, Untouched
<1> QED BY <1>2, <1>3

LEMMA ClaimsStep == ASSUME TypeOK, TypeOK', Claims, [Next]_vars PROVE Claims'
<1> USE DEF Claims
<1>1. ASSUME NEW p \in Procs, Ready(p) PROVE Claims'
  <2>1. Shaped(p)' /\ Claimed(p)'
    <3> USE DEF TypeOK, Handoffs
    <3> DEFINE k == applied[p]
    <3>1. /\ st'[p] = "up" /\ st[p] = "up" /\ live'[p] /\ live[p] /\ ready'[p] /\ ~ready[p]
          /\ applied'[p] = k /\ k \in Passes /\ marker'[p] = marker[p]
      BY <1>1 DEF Ready, control, handed, adoption, terminal, history, Shaped, Passes
    <3>2. CASE pass[p][k] = "listens"
      <4>1. waiting'[p] = [waiting[p] EXCEPT !.claimed = TRUE]
        BY <1>1, <3>2 DEF Ready, Claim
      <4>2. pass'[p] = [pass[p] EXCEPT ![k] = IF waiting[p].claimed THEN "waits" ELSE "stages"]
        BY <1>1, <3>2 DEF Ready, Taken
      <4>3. Holders(p)' = IF waiting[p].claimed THEN Holders(p) ELSE {k}
        BY <3>1, <3>2, <4>2 DEF Holders, Claimed
      <4>4. Shaped(p)'
        BY <3>1, <3>2, <4>1, <4>2 DEF Shaped, Nothing
      <4>5. Claimed(p)'
        <5>1. waiting'[p].claimed = TRUE /\ waiting'[p].from = waiting[p].from
          BY <4>1
        <5>2. Holders(p)' # {} /\ \A i, j \in Holders(p)' : i = j
          <6>1. CASE waiting[p].claimed
            <7>1. Holders(p) # {} /\ \A i, j \in Holders(p) : i = j
              BY <6>1, Zenon DEF Claimed
            <7> QED BY ONLY <6>1, <7>1, <4>3, Zenon
          <6>2. CASE ~waiting[p].claimed
            BY ONLY <6>2, <4>3, Zenon
          <6> QED BY <6>1, <6>2
        <5>3. pass'[p][applied'[p]] \in {"waits", "stages"}
          BY <3>1, <4>2
        <5> QED BY <5>1, <5>2, <5>3 DEF Claimed
      <4> QED BY <4>4, <4>5
    <3>3. CASE pass[p][k] # "listens"
      <4>1. waiting'[p] = waiting[p] /\ pass'[p] = pass[p] /\ Holders(p)' = Holders(p)
        BY <1>1, <3>3 DEF Ready, Holders
      <4> QED BY <3>1, <3>3, <4>1 DEF Shaped, Claimed
    <3> QED BY <3>2, <3>3
  <2>2. ASSUME NEW q \in Procs, q # p PROVE Shaped(q)' /\ Claimed(q)'
    <3>1. Untouched(q) /\ st'[q] = st[q] /\ marker'[q] = marker[q]
      BY <1>1, <2>2 DEF Ready, control, handed, adoption, terminal, history, Untouched, TypeOK
    <3> QED BY <3>1, ClaimsKept
  <2> QED BY <2>1, <2>2
<1>2. ASSUME NEW p \in Procs, Stops(p) PROVE Claims'
  <2>1. Shaped(p)' /\ Claimed(p)'
    <3> USE DEF TypeOK, Handoffs
    <3>1. /\ st'[p] = "up" /\ st[p] = "up" /\ ~live'[p] /\ applied'[p] = applied[p] /\ waiting'[p] = waiting[p]
          /\ marker'[p] = marker[p] /\ pass'[p] = Stopped(pass[p])
      BY <1>2 DEF Stops, control, handed, adoption, terminal, history
    <3>2. Holders(p)' = Holders(p)
      BY <1>2, <3>1 DEF Stops, Holders, Shaped, Claimed, Stopped
    <3>3. Shaped(p)'
      BY <1>2, <3>1 DEF Stops, Shaped, Stopped
    <3>4. Claimed(p)'
      BY <1>2, <3>1, <3>2 DEF Stops, Shaped, Claimed, Stopped
    <3> QED BY <3>3, <3>4
  <2>2. ASSUME NEW q \in Procs, q # p PROVE Shaped(q)' /\ Claimed(q)'
    <3>1. Untouched(q) /\ st'[q] = st[q] /\ marker'[q] = marker[q]
      BY <1>2, <2>2 DEF Stops, control, handed, adoption, terminal, history, Untouched, TypeOK
    <3> QED BY <3>1, ClaimsKept
  <2> QED BY <2>1, <2>2
<1>3. ASSUME NEW p \in Procs, FirstWrite(p) PROVE Claims'
  BY <1>3, ClaimsKept DEF FirstWrite, control, handed, adoption, terminal, history, Untouched, TypeOK
<1>4. ASSUME NEW p \in Procs, Flushed(p) PROVE Claims'
  BY <1>4, ClaimsKept DEF Flushed, Follows, control, handed, adoption, terminal, history, Untouched, TypeOK
<1>5. ASSUME NEW p \in Procs, Exits(p) PROVE Claims'
  BY <1>5, ClaimsKept DEF Exits, Ends, control, handed, adoption, terminal, history, Untouched, TypeOK
<1>6. ASSUME NEW p \in Procs, SpawnFails(p) PROVE Claims'
  BY <1>6, ClaimsKept DEF SpawnFails, Printed, Ends, control, handed, adoption, terminal, history, Untouched, TypeOK
<1>7. ASSUME NEW p \in Procs, Stalls(p) PROVE Claims'
  BY <1>7, ClaimsKept DEF Stalls, Printed, Ends, control, handed, adoption, terminal, history, Untouched, TypeOK
<1>8. ASSUME NEW p \in Procs, NEW how \in {"ok", "bad", "signal"}, BootFails(p, how) PROVE Claims'
  BY <1>8, ClaimsKept DEF BootFails, Ends, control, handed, adoption, terminal, history, Untouched, TypeOK
<1>9. ASSUME NEW p \in Procs, Killed(p) PROVE Claims'
  BY <1>9, ClaimsKept DEF Killed, Ends, control, handed, adoption, terminal, history, Untouched, TypeOK
<1>10. ASSUME NEW p \in Procs, NEW b \in BOOLEAN, Apply(p, b) PROVE Claims'
  <2>1. Shaped(p)' /\ Claimed(p)'
    <3> DEFINE k == applied[p] + 1
               h == IF marker[p] = 0 THEN waiting[p]
                    ELSE [from |-> marker[p], inputs |-> files[marker[p]], claimed |-> FALSE]
    <3>1. /\ st'[p] = "up" /\ live'[p] /\ applied'[p] = k /\ k \in Passes /\ applied[p] \in Nat
          /\ ready'[p] = b /\ ~live[p] /\ marker'[p] = 0
      BY <1>10 DEF Apply, TypeOK
    <3>2. marker[p] # 0 => waiting[p] = Nothing /\ marker[p] \in Procs
      BY <1>10 DEF Apply, Shaped, Procs, TypeOK
    <3>3. /\ h \in Handoffs /\ (h.inputs # {} => h.from # 0)
          /\ (h.claimed <=> Holders(p) # {}) /\ (h.inputs = {} => Holders(p) = {})
      BY <3>2 DEF Shaped, Claimed, Nothing, TypeOK, Handoffs
    <3>4. \A j \in Passes : pass[p][j] # "none" => j # k /\ j <= applied[p]
      BY <3>1 DEF Shaped, Passes
    <3> pass[p] \in [Passes -> PassStates] /\ k \in Nat /\ Passes \subseteq Nat
      BY <3>1 DEF TypeOK, PassStates, Passes
    <3>7. /\ \A j \in Passes : pass[p][j] \notin {"listens", "waits", "stages"}
          /\ \A j \in Passes : j > k <=> pass[p][j] = "none" /\ j # k
      BY <3>1 DEF Shaped, Passes
    <3>5. CASE h.inputs = {}
      <4>1. waiting'[p] = Nothing /\ pass'[p] = [pass[p] EXCEPT ![k] = "rests"]
        BY <1>10, <3>5 DEF Apply, TypeOK
      <4>2. Holders(p)' = {}
        BY <3>1, <3>3, <3>5, <4>1 DEF Holders
      <4> HIDE DEF k, h
      <4>3. Shaped(p)'
        BY <3>1, <3>4, <3>7, <4>1 DEF Shaped, Nothing
      <4>4. Claimed(p)'
        <5>1. waiting'[p].from = 0 /\ waiting'[p].claimed = FALSE
          BY <4>1 DEF Nothing
        <5>2. \A j \in Passes : pass'[p][j] # "waits"
          BY <3>1, <3>7, <4>1
        <5> QED BY <4>2, <5>1, <5>2, Zenon DEF Claimed
      <4> QED BY <4>3, <4>4
    <3>6. CASE h.inputs # {}
      <4> DEFINE x == IF ~b THEN "listens" ELSE IF h.claimed THEN "waits" ELSE "stages"
      <4>1. waiting'[p] = IF b THEN Claim(h) ELSE h
        BY <1>10, <3>6 DEF Apply, TypeOK
      <4>2. pass'[p] = [pass[p] EXCEPT ![k] = x]
        BY <1>10, <3>6 DEF Apply, Taken, TypeOK
      <4>3. Holders(p)' = IF x = "stages" THEN {k} ELSE Holders(p)
        BY <3>1, <3>3, <3>4, <4>2 DEF Holders
      <4>4. Shaped(p)'
        <5>1. waiting'[p].from = h.from /\ waiting'[p].inputs = h.inputs
          BY <4>1, <3>3 DEF Claim, Handoffs
        <5> HIDE DEF h, k, x
        <5>2. x \in {"listens", "waits", "stages"} /\ (\A j \in Passes : j # k => pass'[p][j] = pass[p][j])
              /\ pass'[p][k] = x
          BY <3>1, <4>2 DEF x
        <5>3. waiting'[p].from # 0 /\ waiting'[p].inputs # {}
          BY <3>3, <3>6, <5>1
        <5>4. \A j \in Passes : pass'[p][j] = "none" <=> j > k
          BY <3>1, <3>7, <5>2
        <5>5. \A j \in Passes : pass'[p][j] \in {"listens", "waits", "stages"} => j = k
          BY <3>7, <5>2
        <5>6. applied'[p] = k /\ live'[p] /\ marker'[p] = 0 /\ k # 0 /\ st'[p] = "up"
          BY ONLY <3>1, k \in Passes DEF Passes
        <5> QED BY <5>3, <5>4, <5>5, <5>6, Zenon DEF Shaped
      <4>5. Claimed(p)'
        <5>1. waiting'[p].claimed = (IF b THEN TRUE ELSE h.claimed)
          BY <4>1, <3>3 DEF Claim, Handoffs
        <5>2. \A i, j \in Holders(p)' : i = j
          <6>1. \A i, j \in Holders(p) : i = j
            BY Zenon DEF Claimed
          <6> QED BY <4>3, <6>1
        <5>3. waiting'[p].claimed <=> Holders(p)' # {}
          <6>1. CASE x = "stages"
            BY <6>1, <5>1, <4>3
          <6>2. CASE x = "waits"
            BY <6>2, <5>1, <4>3, <3>3
          <6>3. CASE x = "listens"
            BY <6>3, <5>1, <4>3, <3>3
          <6> QED BY <6>1, <6>2, <6>3
        <5>4. \A j \in Passes : pass'[p][j] = "waits" => waiting'[p].claimed
          <6>1. SUFFICES ASSUME NEW j \in Passes, pass'[p][j] = "waits" PROVE waiting'[p].claimed
            OBVIOUS
          <6>2. CASE j = k
            BY <6>1, <6>2, <5>1, <4>2
          <6>3. CASE j # k
            BY <6>1, <6>3, <3>7, <4>2
          <6> QED BY <6>2, <6>3
        <5>5. pass'[p][applied'[p]] = x /\ (x = "listens" => ~ready'[p])
          BY <3>1, <4>2
        <5> HIDE DEF h, k
        <5>6. \/ pass'[p][applied'[p]] \in {"waits", "stages"}
              \/ pass'[p][applied'[p]] = "listens" /\ ~ready'[p]
          BY <5>5
        <5> QED BY <5>2, <5>3, <5>4, <5>6, Zenon DEF Claimed
      <4> QED BY <4>4, <4>5
    <3> QED BY <3>5, <3>6
  <2>2. ASSUME NEW q \in Procs, q # p PROVE Shaped(q)' /\ Claimed(q)'
    <3>1. Untouched(q) /\ st'[q] = st[q] /\ marker'[q] = marker[q]
      BY <1>10, <2>2 DEF Apply, control, handed, adoption, terminal, history, Untouched, TypeOK
    <3> QED BY <3>1, ClaimsKept
  <2> QED BY <2>1, <2>2
<1>11. ASSUME NEW p \in Procs, NEW b \in BOOLEAN, CleansUp(p, b) PROVE Claims'
  <2>1. Shaped(p)' /\ Claimed(p)'
    <3> USE DEF TypeOK, Handoffs
    <3>1. /\ st'[p] = "disposing" /\ st[p] = "leaving" /\ ~live'[p] /\ applied'[p] = applied[p]
          /\ waiting'[p] = waiting[p] /\ marker'[p] = marker[p] /\ pass'[p] = Stopped(pass[p])
      BY <1>11 DEF CleansUp, control, handed, adoption, terminal, history
    <3>2. Holders(p)' = Holders(p)
      BY <1>11, <3>1 DEF CleansUp, Holders, Shaped, Claimed, Stopped
    <3>3. Shaped(p)'
      BY <1>11, <3>1 DEF CleansUp, Shaped, Stopped
    <3>4. Claimed(p)'
      BY <1>11, <3>1, <3>2 DEF CleansUp, Shaped, Claimed, Stopped
    <3> QED BY <3>3, <3>4
  <2>2. ASSUME NEW q \in Procs, q # p PROVE Shaped(q)' /\ Claimed(q)'
    <3>1. Untouched(q) /\ st'[q] = st[q] /\ marker'[q] = marker[q]
      BY <1>11, <2>2 DEF CleansUp, control, handed, adoption, terminal, history, Untouched, TypeOK
    <3> QED BY <3>1, ClaimsKept
  <2> QED BY <2>1, <2>2
<1>12. ASSUME NEW p \in Procs, NEW k \in Passes, Parks(p, k) PROVE Claims'
  <2>1. Shaped(p)' /\ Claimed(p)'
    <3> USE DEF TypeOK, Handoffs
    <3>1. /\ st'[p] = st[p] /\ live'[p] = live[p] /\ applied'[p] = applied[p] /\ waiting'[p] = Nothing
          /\ marker'[p] = marker[p]
          /\ pass'[p] = [j \in Passes |-> IF pass[p][j] = "none" THEN "none" ELSE "rests"]
      BY <1>12 DEF Parks, control, handed, adoption, terminal, history
    <3>2. Holders(p)' = {}
      BY <1>12, <3>1 DEF Parks, Holders, Shaped, Claimed, Nothing
    <3>3. Shaped(p)'
      BY <1>12, <3>1 DEF Parks, Shaped, Nothing
    <3>4. Claimed(p)'
      BY <1>12, <3>1, <3>2 DEF Parks, Shaped, Claimed, Nothing
    <3> QED BY <3>3, <3>4
  <2>2. ASSUME NEW q \in Procs, q # p PROVE Shaped(q)' /\ Claimed(q)'
    <3>1. Untouched(q) /\ st'[q] = st[q] /\ marker'[q] = marker[q]
      BY <1>12, <2>2 DEF Parks, control, handed, adoption, terminal, history, Untouched, TypeOK
    <3> QED BY <3>1, ClaimsKept
  <2> QED BY <2>1, <2>2
<1>13. ASSUME NEW p \in Procs, NEW k \in Passes, GivesBack(p, k) PROVE Claims'
  <2>1. Shaped(p)' /\ Claimed(p)'
    <3> USE DEF TypeOK, Handoffs
    <3> DEFINE woken == {j \in Passes : pass[p][j] = "waits"}
    <3>1. /\ st'[p] = st[p] /\ live'[p] = live[p] /\ applied'[p] = applied[p] /\ ready'[p] = ready[p]
          /\ marker'[p] = marker[p] /\ waiting'[p] = [waiting[p] EXCEPT !.claimed = (woken # {})]
          /\ pass'[p] = [j \in Passes |-> IF j = k THEN "rests"
                                         ELSE IF j \in woken THEN "stages" ELSE pass[p][j]]
      BY <1>13 DEF GivesBack, Released, control, handed, adoption, terminal, history
    <3>2. Holders(p) = {k}
      BY <1>13 DEF GivesBack, Claimed, Holders
    <3>3. Holders(p)' = woken
      <4>1. \A j \in Passes : pass[p][j] \in {"stages", "ghost"} <=> j = k
        BY <3>2 DEF Holders
      <4> QED BY <3>1, <4>1 DEF Holders
    <3>4. waiting[p].from # 0
      <4>1. waiting[p].claimed
        BY <3>2, Zenon DEF Claimed
      <4>2. Nothing.claimed = FALSE
        BY DEF Nothing
      <4>3. waiting[p] # Nothing
        BY ONLY <4>1, <4>2, Zenon
      <4> QED BY <4>3, Zenon DEF Shaped
    <3>5. Shaped(p)'
      BY <1>13, <3>1, <3>4 DEF GivesBack, Shaped
    <3>6. Claimed(p)'
      <4>1. \A i, j \in woken : i = j
        BY DEF Shaped
      <4>2. st[p] = "up" => pass[p][k] = "ghost"
        BY <1>13 DEF GivesBack
      <4>3. waiting'[p].claimed = (woken # {})
        BY <3>1
      <4>4. \A j \in Passes : pass'[p][j] # "waits"
        BY <3>1
      <4>5. ASSUME st[p] = "up", live[p]
            PROVE  \/ pass'[p][applied[p]] = "stages"
                   \/ pass'[p][applied[p]] = "listens" /\ ~ready[p]
        <5>1. applied[p] # k
          BY <3>4, <4>2, <4>5 DEF Claimed
        <5>2. applied[p] \in Passes
          BY <4>5 DEF Shaped, Passes
        <5> QED BY <3>1, <3>4, <4>5, <5>1, <5>2 DEF Claimed
      <4> HIDE DEF woken
      <4>6. /\ \A i, j \in Holders(p)' : i = j
            /\ waiting'[p].claimed <=> Holders(p)' # {}
        BY ONLY <3>3, <4>1, <4>3, Zenon
      <4>7. st'[p] = "up" /\ live'[p] =>
              \/ pass'[p][applied'[p]] \in {"waits", "stages"}
              \/ pass'[p][applied'[p]] = "listens" /\ ~ready'[p]
        BY ONLY <3>1, <4>5, Zenon
      <4> QED BY ONLY <4>4, <4>6, <4>7, Zenon DEF Claimed
    <3> QED BY <3>5, <3>6
  <2>2. ASSUME NEW q \in Procs, q # p PROVE Shaped(q)' /\ Claimed(q)'
    <3>1. Untouched(q) /\ st'[q] = st[q] /\ marker'[q] = marker[q]
      BY <1>13, <2>2 DEF GivesBack, Released, control, handed, adoption, terminal, history, Untouched, TypeOK
    <3> QED BY <3>1, ClaimsKept
  <2> QED BY <2>1, <2>2
<1>14. ASSUME NEW p \in Procs, NEW t \in Texts, Types(p, t) PROVE Claims'
  BY <1>14, ClaimsKept DEF Types, control, handed, adoption, terminal, history, Untouched, TypeOK
<1>15. ASSUME NEW p \in Procs, NEW t \in Texts, Sends(p, t) PROVE Claims'
  BY <1>15, ClaimsKept DEF Sends, control, handed, adoption, terminal, history, Untouched, TypeOK
<1>16. ASSUME NEW p \in Procs, NEW r \in Reasons, NEW b \in BOOLEAN, Leave(p, r, b) PROVE Claims'
  BY <1>16, ClaimsKept DEF Leave, OwnsExit, control, handed, adoption, terminal, history, Untouched, TypeOK
<1>17. ASSUME NEW p \in Procs, NEW c \in Procs, Spawns(p, c) PROVE Claims'
  <2>1. p # c /\ st[c] = "none" /\ st[p] = "disposing" /\ st' = [st EXCEPT ![p] = "follows", ![c] = "boot"]
        /\ \A q \in Procs : Untouched(q) /\ (q # c => marker'[q] = marker[q])
    BY <1>17 DEF Spawns, Newest, Fresh, control, handed, adoption, terminal, history, Untouched, TypeOK
  <2>2. ASSUME NEW q \in Procs PROVE Shaped(q)' /\ Claimed(q)'
    <3>1. \/ st'[q] = st[q] /\ marker'[q] = marker[q]
          \/ st'[q] \in {"leaving", "disposing", "follows"} /\ st[q] \notin {"boot", "gone"} /\ marker'[q] = marker[q]
          \/ st[q] = "none" /\ st'[q] = "boot"
      BY <2>1 DEF TypeOK
    <3> QED BY <2>1, <3>1, ClaimsKept
  <2> QED BY <2>2
<1>18. ASSUME NEW p \in Procs, NEW c \in Procs, ReplacementEnds(p, c) PROVE Claims'
  BY <1>18, ClaimsKept DEF ReplacementEnds, Printed, Ends, control, handed, adoption, terminal, history, Untouched, TypeOK
<1>19. ASSUME NEW p \in Procs, NEW c \in Procs, Resume(p, c) PROVE Claims'
  BY <1>19, ClaimsKept DEF Resume, Newest, Fresh, control, handed, adoption, terminal, history, Untouched, TypeOK
<1>20. CASE UNCHANGED vars
  BY <1>20, ClaimsKept DEF vars, control, handed, adoption, terminal, history, Untouched
<1> QED BY <1>1, <1>2, <1>3, <1>4, <1>5, <1>6, <1>7, <1>8, <1>9, <1>10, <1>11, <1>12, <1>13, <1>14, <1>15, <1>16, <1>17, <1>18, <1>19, <1>20 DEF Next

LEMMA TypeInit == Init => TypeOK
BY RestartAssumption DEF Init, TypeOK, Handoffs, Nothing, Procs, Reasons

LEMMA ClaimsInit == Init => Claims
<1> SUFFICES ASSUME Init, NEW p \in Procs PROVE Shaped(p) /\ Claimed(p)
  BY DEF Claims
<1>1. /\ waiting[p] = Nothing /\ marker[p] = 0 /\ applied[p] = 0 /\ ~live[p]
      /\ st[p] \in {"none", "boot"} /\ \A k \in Passes : pass[p][k] = "none" /\ k > 0
  BY DEF Init, Passes
<1>2. Holders(p) = {}
  BY <1>1 DEF Holders
<1>3. Shaped(p)
  BY <1>1 DEF Shaped, Nothing
<1>4. ~waiting[p].claimed
  BY <1>1 DEF Nothing
<1>5. Claimed(p)
  BY ONLY <1>1, <1>2, <1>4, Zenon DEF Claimed
<1> QED BY <1>3, <1>5

LEMMA ClaimsStrand == TypeOK /\ Claims => NoneStranded
<1> SUFFICES ASSUME TypeOK, Claims, NEW p \in Procs,
                    st[p] = "up", live[p], ready[p], waiting[p].from # 0
             PROVE  Holders(p) # {}
  BY DEF NoneStranded, Holders
<1>1. applied[p] \in Passes
  BY RestartAssumption DEF TypeOK, Claims, Shaped, Passes
<1>2. CASE pass[p][applied[p]] = "stages"
  BY <1>1, <1>2 DEF Holders
<1>3. CASE pass[p][applied[p]] = "waits"
  BY <1>1, <1>3, Zenon DEF Claims, Claimed
<1> QED BY <1>2, <1>3 DEF Claims, Claimed

-----------------------------------------------------------------------------
(* The chain. *)

LEMMA ReadyKeeps ==
    ASSUME TypeOK, NEW p \in Procs, Ready(p)
    PROVE  \A q \in Procs : /\ waiting'[q].from = waiting[q].from
                            /\ waiting'[q].inputs = waiting[q].inputs
<1>1. CASE waiting' = waiting
  BY <1>1
<1>2. CASE waiting' = [waiting EXCEPT ![p] = Claim(waiting[p])]
  <2>1. waiting \in [Procs -> Handoffs]
    BY DEF TypeOK
  <2>2. Claim(waiting[p]).from = waiting[p].from /\ Claim(waiting[p]).inputs = waiting[p].inputs
    BY <2>1 DEF Claim, Handoffs
  <2> QED BY <1>2, <2>1, <2>2
<1> QED BY <1>1, <1>2 DEF Ready, adoption

LEMMA UnbornStep == ASSUME TypeOK, TypeOK', Claims, Unborn, [Next]_vars PROVE Unborn'
<1> USE DEF Unborn, Holds
<1>1. ASSUME NEW p \in Procs, Ready(p) PROVE Unborn'
  <2>1. \A q \in Procs : waiting'[q].from = waiting[q].from
    BY <1>1, ReadyKeeps
  <2>2. st' = st /\ dad' = dad /\ printed' = printed /\ marker' = marker
    BY <1>1 DEF Ready, control, handed
  <2> QED BY <2>1, <2>2
<1>2. ASSUME NEW p \in Procs, Stops(p) PROVE Unborn'
  BY <1>2 DEF Stops, control, handed, adoption, TypeOK, Handoffs
<1>3. ASSUME NEW p \in Procs, FirstWrite(p) PROVE Unborn'
  BY <1>3 DEF FirstWrite, control, handed, adoption, TypeOK, Handoffs
<1>4. ASSUME NEW p \in Procs, Flushed(p) PROVE Unborn'
  BY <1>4 DEF Flushed, control, handed, adoption, TypeOK, Handoffs
<1>5. ASSUME NEW p \in Procs, Exits(p) PROVE Unborn'
  BY <1>5 DEF Exits, Ends, control, handed, adoption, TypeOK, Handoffs
<1>6. ASSUME NEW p \in Procs, SpawnFails(p) PROVE Unborn'
  BY <1>6 DEF SpawnFails, Printed, Ends, control, handed, adoption, TypeOK, Handoffs
<1>7. ASSUME NEW p \in Procs, Stalls(p) PROVE Unborn'
  BY <1>7 DEF Stalls, Printed, Ends, control, handed, adoption, TypeOK, Handoffs
<1>8. ASSUME NEW p \in Procs, NEW how \in {"ok", "bad", "signal"}, BootFails(p, how) PROVE Unborn'
  BY <1>8 DEF BootFails, Ends, control, handed, adoption, TypeOK, Handoffs
<1>9. ASSUME NEW p \in Procs, Killed(p) PROVE Unborn'
  BY <1>9 DEF Killed, Ends, control, handed, adoption, TypeOK, Handoffs
<1>10. ASSUME NEW p \in Procs, NEW b \in BOOLEAN, Apply(p, b) PROVE Unborn'
  BY <1>10 DEF Apply, Claim, Nothing, control, handed, adoption, TypeOK, Handoffs
<1>11. ASSUME NEW p \in Procs, NEW b \in BOOLEAN, CleansUp(p, b) PROVE Unborn'
  BY <1>11 DEF CleansUp, control, handed, adoption, TypeOK, Handoffs
<1>12. ASSUME NEW p \in Procs, NEW k \in Passes, Parks(p, k) PROVE Unborn'
  BY <1>12 DEF Parks, Nothing, control, handed, adoption, TypeOK, Handoffs
<1>13. ASSUME NEW p \in Procs, NEW k \in Passes, GivesBack(p, k) PROVE Unborn'
  BY <1>13 DEF GivesBack, Released, control, handed, adoption, TypeOK, Handoffs
<1>14. ASSUME NEW p \in Procs, NEW t \in Texts, Types(p, t) PROVE Unborn'
  BY <1>14 DEF Types, control, handed, adoption, TypeOK, Handoffs
<1>15. ASSUME NEW p \in Procs, NEW t \in Texts, Sends(p, t) PROVE Unborn'
  BY <1>15 DEF Sends, control, handed, adoption, TypeOK, Handoffs
<1>16. ASSUME NEW p \in Procs, NEW r \in Reasons, NEW b \in BOOLEAN, Leave(p, r, b) PROVE Unborn'
  BY <1>16 DEF Leave, control, handed, adoption, TypeOK, Handoffs
<1>17. ASSUME NEW p \in Procs, NEW c \in Procs, Spawns(p, c) PROVE Unborn'
  BY <1>17 DEF Spawns, Newest, Fresh, control, handed, adoption, TypeOK, Handoffs
<1>18. ASSUME NEW p \in Procs, NEW c \in Procs, ReplacementEnds(p, c) PROVE Unborn'
  BY <1>18 DEF ReplacementEnds, Printed, Ends, control, handed, adoption, TypeOK, Handoffs
<1>19. ASSUME NEW p \in Procs, NEW c \in Procs, Resume(p, c) PROVE Unborn'
  BY <1>19 DEF Resume, Newest, Fresh, control, handed, adoption, TypeOK, Handoffs
<1>20. CASE UNCHANGED vars
  BY <1>20 DEF vars, control, handed, adoption, TypeOK, Handoffs
<1> QED BY <1>1, <1>2, <1>3, <1>4, <1>5, <1>6, <1>7, <1>8, <1>9, <1>10, <1>11, <1>12, <1>13, <1>14, <1>15, <1>16, <1>17, <1>18, <1>19, <1>20 DEF Next

LEMMA FatesStep == ASSUME TypeOK, TypeOK', Fates, [Next]_vars PROVE Fates'
<1> USE DEF Fates
<1>1. ASSUME NEW p \in Procs, Ready(p) PROVE Fates'
  BY <1>1 DEF Ready, Claim, control, handed, adoption, TypeOK, Handoffs
<1>2. ASSUME NEW p \in Procs, Stops(p) PROVE Fates'
  BY <1>2 DEF Stops, control, handed, adoption, TypeOK, Handoffs
<1>3. ASSUME NEW p \in Procs, FirstWrite(p) PROVE Fates'
  BY <1>3 DEF FirstWrite, control, handed, adoption, TypeOK, Handoffs
<1>4. ASSUME NEW p \in Procs, Flushed(p) PROVE Fates'
  BY <1>4 DEF Flushed, control, handed, adoption, TypeOK, Handoffs
<1>5. ASSUME NEW p \in Procs, Exits(p) PROVE Fates'
  BY <1>5 DEF Exits, Ends, control, handed, adoption, TypeOK, Handoffs
<1>6. ASSUME NEW p \in Procs, SpawnFails(p) PROVE Fates'
  BY <1>6 DEF SpawnFails, Printed, Ends, control, handed, adoption, TypeOK, Handoffs
<1>7. ASSUME NEW p \in Procs, Stalls(p) PROVE Fates'
  BY <1>7 DEF Stalls, Printed, Ends, control, handed, adoption, TypeOK, Handoffs
<1>8. ASSUME NEW p \in Procs, NEW how \in {"ok", "bad", "signal"}, BootFails(p, how) PROVE Fates'
  BY <1>8 DEF BootFails, Ends, control, handed, adoption, TypeOK, Handoffs
<1>9. ASSUME NEW p \in Procs, Killed(p) PROVE Fates'
  BY <1>9 DEF Killed, Ends, control, handed, adoption, TypeOK, Handoffs
<1>10. ASSUME NEW p \in Procs, NEW b \in BOOLEAN, Apply(p, b) PROVE Fates'
  BY <1>10 DEF Apply, Claim, Nothing, control, handed, adoption, TypeOK, Handoffs
<1>11. ASSUME NEW p \in Procs, NEW b \in BOOLEAN, CleansUp(p, b) PROVE Fates'
  BY <1>11 DEF CleansUp, control, handed, adoption, TypeOK, Handoffs
<1>12. ASSUME NEW p \in Procs, NEW k \in Passes, Parks(p, k) PROVE Fates'
  BY <1>12 DEF Parks, Nothing, control, handed, adoption, TypeOK, Handoffs
<1>13. ASSUME NEW p \in Procs, NEW k \in Passes, GivesBack(p, k) PROVE Fates'
  BY <1>13 DEF GivesBack, Released, control, handed, adoption, TypeOK, Handoffs
<1>14. ASSUME NEW p \in Procs, NEW t \in Texts, Types(p, t) PROVE Fates'
  BY <1>14 DEF Types, control, handed, adoption, TypeOK, Handoffs
<1>15. ASSUME NEW p \in Procs, NEW t \in Texts, Sends(p, t) PROVE Fates'
  BY <1>15 DEF Sends, control, handed, adoption, TypeOK, Handoffs
<1>16. ASSUME NEW p \in Procs, NEW r \in Reasons, NEW b \in BOOLEAN, Leave(p, r, b) PROVE Fates'
  BY <1>16 DEF Leave, control, handed, adoption, TypeOK, Handoffs
<1>17. ASSUME NEW p \in Procs, NEW c \in Procs, Spawns(p, c) PROVE Fates'
  BY <1>17 DEF Spawns, Newest, Fresh, control, handed, adoption, TypeOK, Handoffs
<1>18. ASSUME NEW p \in Procs, NEW c \in Procs, ReplacementEnds(p, c) PROVE Fates'
  BY <1>18 DEF ReplacementEnds, Printed, Ends, control, handed, adoption, TypeOK, Handoffs
<1>19. ASSUME NEW p \in Procs, NEW c \in Procs, Resume(p, c) PROVE Fates'
  BY <1>19 DEF Resume, Newest, Fresh, control, handed, adoption, TypeOK, Handoffs
<1>20. CASE UNCHANGED vars
  BY <1>20 DEF vars, control, handed, adoption, TypeOK, Handoffs
<1> QED BY <1>1, <1>2, <1>3, <1>4, <1>5, <1>6, <1>7, <1>8, <1>9, <1>10, <1>11, <1>12, <1>13, <1>14, <1>15, <1>16, <1>17, <1>18, <1>19, <1>20 DEF Next

\* A step that starts no process, moves no handoff and changes the file only of
\* a process nobody alive was handed it by.
LEMMA FamilyKept ==
    ASSUME Family, TypeOK, TypeOK', dad' = dad, marker' = marker,
           \A q \in Procs : /\ st'[q] \in Alive => st[q] \in Alive
                            /\ st[q] = "follows" => st'[q] \in {"follows", "gone"}
                            /\ st[q] = "gone" => st'[q] = "gone",
           \A q \in Procs : /\ waiting'[q].from = waiting[q].from
                            /\ waiting'[q].inputs = waiting[q].inputs,
           \A f \in Procs : files'[f] # files[f] =>
                /\ \A q \in Procs : st[q] \in Alive => ~Holds(q, f)
                /\ files'[f] = {} \/ \A q \in Procs : dad[q] # f
    PROVE  Family'
<1> USE DEF Holds, Family
<1>1. \A q, f \in Procs : Holds(q, f)' <=> Holds(q, f)
  OBVIOUS
<1>2. \A p \in Procs : dad'[p] # 0 => st'[dad'[p]] \in {"follows", "gone"}
  BY DEF TypeOK, Procs
<1>3. \A p, q \in Procs : dad'[p] = dad'[q] /\ dad'[p] # 0 => p = q
  OBVIOUS
<1>4. \A p, q \in Procs : st'[p] \in Alive /\ st'[q] \in Alive /\ dad'[p] = 0 /\ dad'[q] = 0 => p = q
  OBVIOUS
<1>5. \A p, f \in Procs : dad'[p] = f /\ files'[f] # {} => Holds(p, f)'
  BY <1>1
<1>6. \A p, f \in Procs :
          st'[p] \in Alive /\ Holds(p, f)' =>
              \/ dad'[p] = f
              \/ dad'[p] = 0 /\ st'[f] = "gone" /\ \A q \in Procs : st'[q] \in Alive => dad'[q] # f
  BY <1>1
<1>7. \A p \in Procs :
          st'[p] \in Alive /\ waiting'[p].from # 0 => waiting'[p].inputs = files'[waiting'[p].from]
  <2>1. SUFFICES ASSUME NEW p \in Procs, st'[p] \in Alive, waiting'[p].from # 0
                 PROVE  waiting'[p].inputs = files'[waiting'[p].from]
    OBVIOUS
  <2>2. waiting[p].from \in Procs
    BY <2>1 DEF TypeOK, Handoffs, Procs
  <2> QED BY <2>1, <2>2
<1> QED BY <1>2, <1>3, <1>4, <1>5, <1>6, <1>7

LEMMA Childless ==
    ASSUME TypeOK, Family, NEW p \in Procs, st[p] \in {"leaving", "disposing"}
    PROVE  \A q \in Procs : dad[q] # p /\ (st[q] \in Alive => ~Holds(q, p))
<1>1. ASSUME NEW q \in Procs, dad[q] = p PROVE FALSE
  BY <1>1 DEF Family, Procs
<1>2. ASSUME NEW q \in Procs, st[q] \in Alive, Holds(q, p) PROVE FALSE
  BY <1>1, <1>2 DEF Family
<1> QED BY <1>1, <1>2

LEMMA FamilyStep == ASSUME TypeOK, TypeOK', Claims, Unborn, Family, [Next]_vars PROVE Family'
<1>1. ASSUME NEW p \in Procs, Ready(p) PROVE Family'
  <2>1. dad' = dad /\ marker' = marker /\ st' = st /\ files' = files
    BY <1>1 DEF Ready, control, handed
  <2> QED BY <1>1, <2>1, ReadyKeeps, FamilyKept
<1>2. ASSUME NEW p \in Procs, Stops(p) PROVE Family'
  BY <1>2, FamilyKept DEF Stops, control, handed, adoption, TypeOK, Alive
<1>3. ASSUME NEW p \in Procs, FirstWrite(p) PROVE Family'
  BY <1>3, FamilyKept DEF FirstWrite, control, handed, adoption, TypeOK, Alive
<1>4. ASSUME NEW p \in Procs, Flushed(p) PROVE Family'
  BY <1>4, FamilyKept DEF Flushed, control, handed, adoption, TypeOK, Alive
<1>5. ASSUME NEW p \in Procs, Exits(p) PROVE Family'
  BY <1>5, FamilyKept DEF Exits, Ends, control, handed, adoption, TypeOK, Alive
<1>6. ASSUME NEW p \in Procs, SpawnFails(p) PROVE Family'
  <2>1. \A q \in Procs : dad[q] # p /\ (st[q] \in Alive => ~Holds(q, p))
    BY <1>6, Childless DEF SpawnFails
  <2>2. \A f \in Procs : files'[f] # files[f] => f = p
    BY <1>6 DEF SpawnFails, Printed, Ends, TypeOK
  <2> QED BY <1>6, <2>1, <2>2, FamilyKept DEF SpawnFails, Printed, Ends, adoption, TypeOK, Alive
<1>7. ASSUME NEW p \in Procs, Stalls(p) PROVE Family'
  <2>1. \A q \in Procs : dad[q] # p /\ (st[q] \in Alive => ~Holds(q, p))
    BY <1>7, Childless DEF Stalls
  <2>2. \A f \in Procs : files'[f] # files[f] => f = p
    BY <1>7 DEF Stalls, Printed, Ends, TypeOK
  <2> QED BY <1>7, <2>1, <2>2, FamilyKept DEF Stalls, Printed, Ends, adoption, TypeOK, Alive
<1>8. ASSUME NEW p \in Procs, NEW how \in {"ok", "bad", "signal"}, BootFails(p, how) PROVE Family'
  BY <1>8, FamilyKept DEF BootFails, Ends, control, handed, adoption, TypeOK, Alive
<1>9. ASSUME NEW p \in Procs, Killed(p) PROVE Family'
  BY <1>9, FamilyKept DEF Killed, Ends, control, handed, adoption, TypeOK, Alive
<1>10. ASSUME NEW p \in Procs, NEW b \in BOOLEAN, Apply(p, b) PROVE Family'
  <2> DEFINE h == IF marker[p] = 0 THEN waiting[p]
                  ELSE [from |-> marker[p], inputs |-> files[marker[p]], claimed |-> FALSE]
  <2>1. /\ dad' = dad /\ files' = files /\ marker' = [marker EXCEPT ![p] = 0]
        /\ st' = [st EXCEPT ![p] = "up"] /\ st[p] \in {"boot", "up"}
    BY <1>10 DEF Apply
  <2>2. /\ h \in Handoffs
        /\ h.inputs # {} => h.from # 0 /\ h.inputs = files[h.from] /\ Holds(p, h.from)
        /\ \A f \in Procs : Holds(p, f) /\ files[f] # {} => h.from = f /\ h.inputs # {}
    <3>1. CASE marker[p] = 0
      BY <2>1, <3>1 DEF Claims, Shaped, Family, Holds, Alive, TypeOK, Handoffs, Procs, Nothing
    <3>2. CASE marker[p] # 0
      <4>1. waiting[p] = Nothing
        BY <2>1, <3>2 DEF Claims, Shaped
      <4>2. marker[p] \in Procs
        BY <3>2 DEF TypeOK, Procs
      <4> QED BY <3>2, <4>1, <4>2 DEF Holds, TypeOK, Handoffs, Nothing, Procs
    <3> QED BY <3>1, <3>2
  <2>3. /\ \A q \in Procs : q # p => waiting'[q] = waiting[q]
        /\ h.inputs = {} => waiting'[p] = Nothing
        /\ h.inputs # {} => waiting'[p].from = h.from /\ waiting'[p].inputs = h.inputs
    <3>1. h.inputs = {} => waiting' = [waiting EXCEPT ![p] = Nothing]
      BY <1>10 DEF Apply
    <3>2. h.inputs # {} => waiting' = [waiting EXCEPT ![p] = IF b THEN Claim(h) ELSE h]
      BY <1>10 DEF Apply
    <3>3. Claim(h).from = h.from /\ Claim(h).inputs = h.inputs
      BY <2>2 DEF Claim, Handoffs
    <3> HIDE DEF h
    <3> QED BY <3>1, <3>2, <3>3 DEF TypeOK
  <2> HIDE DEF h
  <2>4. \A q, f \in Procs : Holds(q, f)' => Holds(q, f)
    BY <2>1, <2>2, <2>3 DEF Holds, Nothing, TypeOK, Procs
  <2>5. \A q, f \in Procs : Holds(q, f) /\ files[f] # {} => Holds(q, f)'
    <3>1. ASSUME NEW q \in Procs, q # p, NEW f \in Procs, Holds(q, f) PROVE Holds(q, f)'
      BY <2>1, <2>3, <3>1 DEF Holds, TypeOK
    <3>2. ASSUME NEW f \in Procs, Holds(p, f), files[f] # {} PROVE Holds(p, f)'
      BY <2>2, <2>3, <3>2 DEF Holds
    <3> QED BY <3>1, <3>2
  <2>6. \A q \in Procs : /\ st'[q] \in Alive <=> st[q] \in Alive
                         /\ st'[q] \in {"follows", "gone"} <=> st[q] \in {"follows", "gone"}
                         /\ st'[q] = "gone" <=> st[q] = "gone"
    BY <2>1 DEF TypeOK, Alive
  <2>7. \A q \in Procs : st'[q] \in Alive /\ waiting'[q].from # 0 => waiting'[q].inputs = files[waiting'[q].from]
    <3>1. CASE h.inputs = {}
      BY <2>3, <2>6, <3>1 DEF Family, Nothing
    <3>2. CASE h.inputs # {}
      BY <2>2, <2>3, <2>6, <3>2 DEF Family
    <3> QED BY <3>1, <3>2
  <2>8. \A q \in Procs : dad[q] # 0 => dad[q] \in Procs
    BY DEF TypeOK, Procs
  <2> QED BY <2>1, <2>4, <2>5, <2>6, <2>7, <2>8 DEF Family
<1>11. ASSUME NEW p \in Procs, NEW b \in BOOLEAN, CleansUp(p, b) PROVE Family'
  <2>1. \A q \in Procs : dad[q] # p /\ (st[q] \in Alive => ~Holds(q, p))
    BY <1>11, Childless DEF CleansUp
  <2>2. \A f \in Procs : files'[f] # files[f] => f = p
    BY <1>11 DEF CleansUp, TypeOK
  <2> QED BY <1>11, <2>1, <2>2, FamilyKept DEF CleansUp, TypeOK, Alive
<1>12. ASSUME NEW p \in Procs, NEW k \in Passes, Parks(p, k) PROVE Family'
  <2> DEFINE g == waiting[p].from
  <2>1. /\ dad' = dad /\ marker' = marker /\ st' = st /\ st[p] \in {"up", "leaving"}
        /\ files' = [files EXCEPT ![g] = {}] /\ waiting' = [waiting EXCEPT ![p] = Nothing]
    BY <1>12 DEF Parks, control
  <2>2. \A q, f \in Procs : Holds(q, f)' => Holds(q, f)
    BY <2>1 DEF Holds, Nothing, TypeOK, Procs
  <2>3. \A q, f \in Procs : Holds(q, f) /\ files'[f] # {} => Holds(q, f)'
    BY <2>1 DEF Holds, TypeOK
  <2>4. \A q \in Procs : q # p /\ st[q] \in Alive /\ g # 0 => waiting[q].from # g
    <3>1. SUFFICES ASSUME NEW q \in Procs, q # p, st[q] \in Alive, g # 0, waiting[q].from = g PROVE FALSE
      OBVIOUS
    <3>2. g \in Procs /\ Holds(p, g) /\ Holds(q, g) /\ st[p] \in Alive
      BY <2>1, <3>1 DEF TypeOK, Handoffs, Procs, Holds, Alive
    <3>3. dad[p] = dad[q] /\ (dad[p] = g \/ dad[p] = 0)
      BY <3>1, <3>2 DEF Family
    <3> QED BY <3>1, <3>2, <3>3 DEF Family
  <2>5. \A q \in Procs : st[q] \in Alive /\ waiting'[q].from # 0 => waiting'[q].inputs = files'[waiting'[q].from]
    BY <2>1, <2>4 DEF Family, TypeOK, Nothing
  <2>6. \A q, f \in Procs : dad[q] = f /\ files'[f] # {} => files[f] # {}
    BY <2>1 DEF TypeOK
  <2> QED BY <2>1, <2>2, <2>3, <2>5, <2>6 DEF Family
<1>13. ASSUME NEW p \in Procs, NEW k \in Passes, GivesBack(p, k) PROVE Family'
  <2>1. dad' = dad /\ marker' = marker /\ st' = st /\ files' = files
    BY <1>13 DEF GivesBack, control, handed
  <2>2. \A q \in Procs : waiting'[q].from = waiting[q].from /\ waiting'[q].inputs = waiting[q].inputs
    BY <1>13 DEF GivesBack, Released, TypeOK, Handoffs
  <2> QED BY <2>1, <2>2, FamilyKept
<1>14. ASSUME NEW p \in Procs, NEW t \in Texts, Types(p, t) PROVE Family'
  BY <1>14, FamilyKept DEF Types, control, handed, adoption, TypeOK, Alive
<1>15. ASSUME NEW p \in Procs, NEW t \in Texts, Sends(p, t) PROVE Family'
  BY <1>15, FamilyKept DEF Sends, control, handed, adoption, TypeOK, Alive
<1>16. ASSUME NEW p \in Procs, NEW r \in Reasons, NEW b \in BOOLEAN, Leave(p, r, b) PROVE Family'
  BY <1>16, FamilyKept DEF Leave, control, handed, adoption, TypeOK, Alive
<1>17. ASSUME NEW p \in Procs, NEW c \in Procs, Spawns(p, c) PROVE Family'
  <2>1. /\ p # c /\ st[c] = "none" /\ st[p] = "disposing"
        /\ st' = [st EXCEPT ![p] = "follows", ![c] = "boot"] /\ dad' = [dad EXCEPT ![c] = p]
        /\ marker' = [marker EXCEPT ![c] = IF files[p] = {} THEN 0 ELSE p]
        /\ waiting' = waiting /\ files' = files
    BY <1>17 DEF Spawns, Newest, Fresh, control, adoption, TypeOK
  <2>2. \A q \in Procs : dad[q] # p /\ (st[q] \in Alive => ~Holds(q, p))
    BY <2>1, Childless
  <2>3. /\ dad[c] = 0 /\ waiting[c].from = 0 /\ (files[p] # {} => Holds(c, p)')
        /\ \A f \in Procs : Holds(c, f)' => f = p
        /\ \A q \in Procs : dad[q] # c /\ ~Holds(q, c)
    BY <2>1 DEF Unborn, Claims, Shaped, Nothing, Holds, TypeOK, Procs
  <2>4. \A q, f \in Procs : q # c => (Holds(q, f)' <=> Holds(q, f))
    BY <2>1 DEF Holds, TypeOK
  <2>5. \A q \in Procs : q # c => (st'[q] \in Alive <=> st[q] \in Alive) /\ dad'[q] = dad[q]
    BY <2>1 DEF Alive, TypeOK
  <2>6. \A q \in Procs : dad'[q] # 0 => st'[dad'[q]] \in {"follows", "gone"}
    BY <2>1, <2>3 DEF Family, TypeOK, Procs
  <2>7. dad'[c] = p /\ p # 0 /\ st'[p] = "follows"
    BY <2>1 DEF TypeOK, Procs
  <2>8. \A q, f \in Procs :
          st'[q] \in Alive /\ Holds(q, f)' =>
              \/ dad'[q] = f
              \/ dad'[q] = 0 /\ st'[f] = "gone" /\ \A s \in Procs : st'[s] \in Alive => dad'[s] # f
    <3>1. SUFFICES ASSUME NEW q \in Procs, NEW f \in Procs, st'[q] \in Alive, Holds(q, f)', q # c, dad[q] # f
                   PROVE  dad'[q] = 0 /\ st'[f] = "gone" /\ \A s \in Procs : st'[s] \in Alive => dad'[s] # f
      BY <2>3, <2>5, <2>7
    <3>2. dad[q] = 0 /\ st[f] = "gone" /\ \A s \in Procs : st[s] \in Alive => dad[s] # f
      BY <2>4, <2>5, <3>1 DEF Family
    <3>3. f # p /\ f # c
      BY <2>1, <3>2
    <3>4. st'[f] = "gone"
      BY <2>1, <3>2, <3>3 DEF TypeOK
    <3>5. dad'[q] = 0
      BY <2>5, <3>1, <3>2
    <3>6. ASSUME NEW s \in Procs, st'[s] \in Alive PROVE dad'[s] # f
      BY <2>5, <2>7, <3>2, <3>3, <3>6
    <3> QED BY <3>4, <3>5, <3>6
  <2>9. \A q \in Procs : st'[q] \in Alive /\ waiting'[q].from # 0 => waiting'[q].inputs = files'[waiting'[q].from]
    BY <2>1, <2>3, <2>5 DEF Family
  <2>10. \A q, s \in Procs : st'[q] \in Alive /\ st'[s] \in Alive /\ dad'[q] = 0 /\ dad'[s] = 0 => q = s
    BY <2>5, <2>7 DEF Family
  <2>11. \A q, s \in Procs : dad'[q] = dad'[s] /\ dad'[q] # 0 => q = s
    BY <2>2, <2>5, <2>7 DEF Family
  <2>12. \A q, f \in Procs : dad'[q] = f /\ files'[f] # {} => Holds(q, f)'
    BY <2>1, <2>3, <2>4, <2>5, <2>7 DEF Family
  <2> QED BY <2>6, <2>8, <2>9, <2>10, <2>11, <2>12 DEF Family
<1>18. ASSUME NEW p \in Procs, NEW c \in Procs, ReplacementEnds(p, c) PROVE Family'
  <2>1. \A q \in Procs : st[q] \in Alive => ~Holds(q, p)
    BY <1>18 DEF ReplacementEnds, Family, Alive, TypeOK, Procs
  <2>2. \A f \in Procs : files'[f] # files[f] => f = p /\ files'[f] = {}
    BY <1>18 DEF ReplacementEnds, Printed, Ends, TypeOK
  <2> QED BY <1>18, <2>1, <2>2, FamilyKept DEF ReplacementEnds, Printed, Ends, adoption, TypeOK, Alive
<1>19. ASSUME NEW p \in Procs, NEW c \in Procs, Resume(p, c) PROVE Family'
  <2>1. /\ st[c] = "none" /\ st' = [st EXCEPT ![c] = "boot"] /\ dad' = dad
        /\ marker' = [marker EXCEPT ![c] = p] /\ waiting' = waiting /\ files' = files
        /\ \A q \in Procs : st[q] \in {"none", "gone"} /\ p \in printed
    BY <1>19 DEF Resume, Newest, Fresh, adoption
  <2>2. /\ dad[c] = 0 /\ waiting[c].from = 0 /\ st[p] = "gone"
        /\ \A f \in Procs : Holds(c, f)' => f = p
        /\ \A q \in Procs : dad[q] # c
    BY <2>1 DEF Unborn, Claims, Shaped, Nothing, Holds, TypeOK, Procs
  <2>3. \A q \in Procs : st'[q] \in Alive => q = c
    <3>1. ASSUME NEW q \in Procs, q # c PROVE st'[q] \notin Alive
      <4>1. st'[q] = st[q]
        BY <2>1, <3>1 DEF TypeOK
      <4>2. st[q] \in {"none", "gone"}
        BY <2>1
      <4> QED BY <4>1, <4>2 DEF Alive
    <3> QED BY <3>1
  <2>4. \A q \in Procs : dad'[q] # 0 => st'[dad'[q]] \in {"follows", "gone"}
    BY <2>1, <2>2 DEF Family, TypeOK, Procs
  <2>5. \A q, f \in Procs : dad'[q] = f /\ files'[f] # {} => Holds(q, f)'
    BY <2>1, <2>2 DEF Family, Holds, TypeOK, Procs
  <2>6. st'[p] = "gone" /\ dad'[c] # p
    BY <2>1, <2>2 DEF TypeOK, Procs
  <2> QED BY <2>1, <2>2, <2>3, <2>4, <2>5, <2>6 DEF Family
<1>20. CASE UNCHANGED vars
  BY <1>20, FamilyKept DEF vars, control, handed, adoption
<1> QED BY <1>1, <1>2, <1>3, <1>4, <1>5, <1>6, <1>7, <1>8, <1>9, <1>10, <1>11, <1>12, <1>13, <1>14, <1>15, <1>16, <1>17, <1>18, <1>19, <1>20 DEF Next

-----------------------------------------------------------------------------
(* The inputs. *)

\* A pass that stages has an unsettled handoff.
LEMMA StagesUnsettled ==
    ASSUME TypeOK, Claims, NEW p \in Procs, NEW k \in Passes, pass[p][k] \in {"stages", "ghost"}
    PROVE  waiting[p].from \in Procs /\ waiting[p].from # 0
<1>1. Holders(p) # {}
  BY DEF Holders
<1>2. waiting[p].claimed
  BY <1>1, Zenon DEF Claims, Claimed
<1>3. Nothing.claimed = FALSE
  BY DEF Nothing
<1>4. waiting[p] # Nothing
  BY ONLY <1>2, <1>3, Zenon
<1>5. waiting[p].from # 0
  BY <1>4, Zenon DEF Claims, Shaped
<1> QED BY <1>5 DEF TypeOK, Handoffs, Procs

LEMMA ExclusiveStep ==
    ASSUME TypeOK, TypeOK', Claims, Family, Exclusive, [Next]_vars PROVE Exclusive'
<1>1. ASSUME NEW p \in Procs, Ready(p) PROVE Exclusive'
  BY <1>1 DEF Ready, Claim, control, handed, adoption, history, TypeOK, Exclusive
<1>2. ASSUME NEW p \in Procs, Stops(p) PROVE Exclusive'
  BY <1>2 DEF Stops, control, handed, adoption, history, TypeOK, Exclusive
<1>3. ASSUME NEW p \in Procs, FirstWrite(p) PROVE Exclusive'
  BY <1>3 DEF FirstWrite, control, handed, adoption, history, TypeOK, Exclusive
<1>4. ASSUME NEW p \in Procs, Flushed(p) PROVE Exclusive'
  BY <1>4 DEF Flushed, control, handed, adoption, history, TypeOK, Exclusive
<1>5. ASSUME NEW p \in Procs, Exits(p) PROVE Exclusive'
  BY <1>5 DEF Exits, Ends, control, handed, adoption, history, TypeOK, Exclusive
<1>6. ASSUME NEW p \in Procs, SpawnFails(p) PROVE Exclusive'
  <2>1. rows' = rows /\ carry' = carry /\ typed' = typed /\ sent' = sent
    BY <1>6 DEF SpawnFails
  <2>2. \A f \in Procs : files'[f] = files[f] \/ files'[f] = {}
    BY <1>6 DEF SpawnFails, Printed, TypeOK
  <2> QED BY <2>1, <2>2 DEF Exclusive
<1>7. ASSUME NEW p \in Procs, Stalls(p) PROVE Exclusive'
  <2>1. rows' = rows /\ carry' = carry /\ typed' = typed /\ sent' = sent
    BY <1>7 DEF Stalls
  <2>2. \A f \in Procs : files'[f] = files[f] \/ files'[f] = {}
    BY <1>7 DEF Stalls, Printed, TypeOK
  <2> QED BY <2>1, <2>2 DEF Exclusive
<1>8. ASSUME NEW p \in Procs, NEW how \in {"ok", "bad", "signal"}, BootFails(p, how) PROVE Exclusive'
  BY <1>8 DEF BootFails, Ends, control, handed, adoption, history, TypeOK, Exclusive
<1>9. ASSUME NEW p \in Procs, Killed(p) PROVE Exclusive'
  BY <1>9 DEF Killed, Ends, control, handed, adoption, history, TypeOK, Exclusive
<1>10. ASSUME NEW p \in Procs, NEW b \in BOOLEAN, Apply(p, b) PROVE Exclusive'
  BY <1>10 DEF Apply, Claim, Nothing, control, handed, adoption, history, TypeOK, Exclusive
<1>11. ASSUME NEW p \in Procs, NEW b \in BOOLEAN, CleansUp(p, b) PROVE Exclusive'
  BY <1>11 DEF CleansUp, control, handed, adoption, history, TypeOK, Exclusive
<1>12. ASSUME NEW p \in Procs, NEW k \in Passes, Parks(p, k) PROVE Exclusive'
  <2>1. waiting[p].from \in Procs /\ waiting[p].inputs = files[waiting[p].from]
    BY <1>12, StagesUnsettled DEF Parks, Family, Alive
  <2> QED BY <1>12, <2>1 DEF Parks, handed, history, TypeOK, Exclusive
<1>13. ASSUME NEW p \in Procs, NEW k \in Passes, GivesBack(p, k) PROVE Exclusive'
  BY <1>13 DEF GivesBack, Released, control, handed, adoption, history, TypeOK, Exclusive
<1>14. ASSUME NEW p \in Procs, NEW t \in Texts, Types(p, t) PROVE Exclusive'
  <2>1. carry' = carry /\ files' = files /\ typed' = typed \cup {t} /\ sent' = sent /\ t \notin typed
    BY <1>14 DEF Types, handed
  <2>2. rows'[p] = rows[p] \cup {t} /\ \A q \in Procs : q # p => rows'[q] = rows[q]
    BY <1>14 DEF Types, TypeOK
  <2>3. \A q \in Procs : t \notin rows[q] \cup carry[q] \cup files[q]
    BY <2>1 DEF Exclusive
  <2>4. t \notin sent
    BY <2>1 DEF Exclusive
  <2> QED BY <2>1, <2>2, <2>3, <2>4 DEF Exclusive
<1>15. ASSUME NEW p \in Procs, NEW t \in Texts, Sends(p, t) PROVE Exclusive'
  BY <1>15 DEF Sends, control, handed, adoption, history, TypeOK, Exclusive
<1>16. ASSUME NEW p \in Procs, NEW r \in Reasons, NEW b \in BOOLEAN, Leave(p, r, b) PROVE Exclusive'
  BY <1>16 DEF Leave, control, handed, adoption, history, TypeOK, Exclusive
<1>17. ASSUME NEW p \in Procs, NEW c \in Procs, Spawns(p, c) PROVE Exclusive'
  BY <1>17 DEF Spawns, Newest, Fresh, control, handed, adoption, history, TypeOK, Exclusive
<1>18. ASSUME NEW p \in Procs, NEW c \in Procs, ReplacementEnds(p, c) PROVE Exclusive'
  <2>1. rows' = rows /\ carry' = carry /\ typed' = typed /\ sent' = sent
    BY <1>18 DEF ReplacementEnds
  <2>2. \A f \in Procs : files'[f] = files[f] \/ files'[f] = {}
    BY <1>18 DEF ReplacementEnds, Printed, TypeOK
  <2> QED BY <2>1, <2>2 DEF Exclusive
<1>19. ASSUME NEW p \in Procs, NEW c \in Procs, Resume(p, c) PROVE Exclusive'
  BY <1>19 DEF Resume, Newest, Fresh, control, handed, adoption, history, TypeOK, Exclusive
<1>20. CASE UNCHANGED vars
  BY <1>20 DEF vars, control, handed, adoption, history, TypeOK, Exclusive
<1> QED BY <1>1, <1>2, <1>3, <1>4, <1>5, <1>6, <1>7, <1>8, <1>9, <1>10, <1>11, <1>12, <1>13, <1>14, <1>15, <1>16, <1>17, <1>18, <1>19, <1>20 DEF Next

\* None of the risks that concern the inputs is taken.
Calm == Risks \cap {"unsettled", "late", "parked", "signalled"} = {}

LEMMA SettledStep ==
    ASSUME TypeOK, TypeOK', Claims, Fates, Calm, Settled, [Next]_vars PROVE Settled'
<1> USE DEF Settled, Calm, Fates, Claims, Shaped
<1>1. ASSUME NEW p \in Procs, Ready(p) PROVE Settled'
  <2>1. why' = why /\ code' = code /\ marker' = marker
    BY <1>1 DEF Ready, control, handed
  <2> QED BY <1>1, <2>1, ReadyKeeps
<1>2. ASSUME NEW p \in Procs, Stops(p) PROVE Settled'
  BY <1>2 DEF Stops, control, handed, adoption, TypeOK, Handoffs
<1>3. ASSUME NEW p \in Procs, FirstWrite(p) PROVE Settled'
  BY <1>3 DEF FirstWrite, control, handed, adoption, TypeOK, Handoffs
<1>4. ASSUME NEW p \in Procs, Flushed(p) PROVE Settled'
  BY <1>4 DEF Flushed, control, handed, adoption, TypeOK, Handoffs
<1>5. ASSUME NEW p \in Procs, Exits(p) PROVE Settled'
  BY <1>5 DEF Exits, Ends, control, handed, adoption, TypeOK, Handoffs
<1>6. ASSUME NEW p \in Procs, SpawnFails(p) PROVE Settled'
  BY <1>6 DEF SpawnFails, Printed, Ends, control, handed, adoption, TypeOK, Handoffs
<1>7. ASSUME NEW p \in Procs, Stalls(p) PROVE Settled'
  BY <1>7 DEF Stalls, Printed, Ends, control, handed, adoption, TypeOK, Handoffs
<1>8. ASSUME NEW p \in Procs, NEW how \in {"ok", "bad", "signal"}, BootFails(p, how) PROVE Settled'
  <2>1. waiting[p].from = 0 /\ (how \in {"ok", "signal"} => marker[p] = 0)
    BY <1>8 DEF BootFails, Nothing
  <2>2. /\ why[p] = "none" /\ why' = why /\ waiting' = waiting /\ marker' = marker
        /\ code' = [code EXCEPT ![p] = how]
    BY <1>8 DEF BootFails, Ends, handed, adoption
  <2> QED BY <2>1, <2>2 DEF TypeOK
<1>9. ASSUME NEW p \in Procs, Killed(p) PROVE Settled'
  BY <1>9 DEF Killed, Ends, control, handed, adoption, TypeOK, Handoffs
<1>10. ASSUME NEW p \in Procs, NEW b \in BOOLEAN, Apply(p, b) PROVE Settled'
  <2>1. why' = why /\ code' = code /\ why[p] = "none" /\ code[p] = "none" /\ \A q \in Procs : q # p => waiting'[q] = waiting[q] /\ marker'[q] = marker[q]
    BY <1>10 DEF Apply, Fates, TypeOK
  <2> QED BY <2>1
<1>11. ASSUME NEW p \in Procs, NEW b \in BOOLEAN, CleansUp(p, b) PROVE Settled'
  BY <1>11 DEF CleansUp, control, handed, adoption, TypeOK, Handoffs
<1>12. ASSUME NEW p \in Procs, NEW k \in Passes, Parks(p, k) PROVE Settled'
  BY <1>12 DEF Parks, Nothing, control, handed, adoption, TypeOK, Handoffs
<1>13. ASSUME NEW p \in Procs, NEW k \in Passes, GivesBack(p, k) PROVE Settled'
  BY <1>13 DEF GivesBack, Released, control, handed, adoption, TypeOK, Handoffs
<1>14. ASSUME NEW p \in Procs, NEW t \in Texts, Types(p, t) PROVE Settled'
  BY <1>14 DEF Types, control, handed, adoption, TypeOK, Handoffs
<1>15. ASSUME NEW p \in Procs, NEW t \in Texts, Sends(p, t) PROVE Settled'
  BY <1>15 DEF Sends, control, handed, adoption, TypeOK, Handoffs
<1>16. ASSUME NEW p \in Procs, NEW r \in Reasons, NEW b \in BOOLEAN, Leave(p, r, b) PROVE Settled'
  BY <1>16 DEF Leave, control, handed, adoption, TypeOK, Handoffs
<1>17. ASSUME NEW p \in Procs, NEW c \in Procs, Spawns(p, c) PROVE Settled'
  BY <1>17 DEF Spawns, Newest, Fresh, control, handed, adoption, TypeOK, Handoffs
<1>18. ASSUME NEW p \in Procs, NEW c \in Procs, ReplacementEnds(p, c) PROVE Settled'
  BY <1>18 DEF ReplacementEnds, Printed, Ends, control, handed, adoption, TypeOK, Handoffs
<1>19. ASSUME NEW p \in Procs, NEW c \in Procs, Resume(p, c) PROVE Settled'
  <2>1. /\ why' = why /\ code' = code /\ waiting' = waiting /\ why[c] = "none" /\ code[c] = "none"
        /\ \A q \in Procs : q # c => marker'[q] = marker[q]
    BY <1>19 DEF Resume, Newest, Fresh, adoption, TypeOK
  <2> QED BY <2>1
<1>20. CASE UNCHANGED vars
  BY <1>20 DEF vars, control, handed, adoption, TypeOK, Handoffs
<1> QED BY <1>1, <1>2, <1>3, <1>4, <1>5, <1>6, <1>7, <1>8, <1>9, <1>10, <1>11, <1>12, <1>13, <1>14, <1>15, <1>16, <1>17, <1>18, <1>19, <1>20 DEF Next

\* A replacement that ended cleanly, or by a signal, had taken the inputs.
LEMMA Unread ==
    ASSUME TypeOK, Settled, Family, NEW p \in Procs, NEW c \in Procs,
           dad[c] = p, code[c] \in {"ok", "signal"}
    PROVE  files[p] = {}
<1>1. waiting[c].from = 0 /\ marker[c] = 0
  BY DEF Settled
<1> QED BY <1>1 DEF Family, Holds, Procs

LEMMA PlacesStep ==
    ASSUME TypeOK, TypeOK', Claims, Fates, Settled, Family, Calm, Places, [Next]_vars PROVE Places'
<1> USE DEF Calm, Fates
<1>1. ASSUME NEW p \in Procs, Ready(p) PROVE Places'
  BY <1>1 DEF Ready, Claim, control, handed, adoption, history, TypeOK, Places, Reachable
<1>2. ASSUME NEW p \in Procs, Stops(p) PROVE Places'
  BY <1>2 DEF Stops, control, handed, adoption, history, TypeOK, Places, Reachable
<1>3. ASSUME NEW p \in Procs, FirstWrite(p) PROVE Places'
  BY <1>3 DEF FirstWrite, control, handed, adoption, history, TypeOK, Places, Reachable
<1>4. ASSUME NEW p \in Procs, Flushed(p) PROVE Places'
  BY <1>4 DEF Flushed, control, handed, adoption, history, TypeOK, Places, Reachable
<1>5. ASSUME NEW p \in Procs, Exits(p) PROVE Places'
  BY <1>5 DEF Exits, Ends, control, handed, adoption, history, TypeOK, Places, Reachable
<1>6. ASSUME NEW p \in Procs, SpawnFails(p) PROVE Places'
  BY <1>6 DEF SpawnFails, Printed, Ends, control, handed, adoption, history, TypeOK, Places, Reachable
<1>7. ASSUME NEW p \in Procs, Stalls(p) PROVE Places'
  BY <1>7 DEF Stalls, Printed, Ends, control, handed, adoption, history, TypeOK, Places, Reachable
<1>8. ASSUME NEW p \in Procs, NEW how \in {"ok", "bad", "signal"}, BootFails(p, how) PROVE Places'
  BY <1>8 DEF BootFails, Ends, control, handed, adoption, history, TypeOK, Places, Reachable
<1>9. ASSUME NEW p \in Procs, Killed(p) PROVE Places'
  BY <1>9 DEF Killed, Ends, control, handed, adoption, history, TypeOK, Places, Reachable
<1>10. ASSUME NEW p \in Procs, NEW b \in BOOLEAN, Apply(p, b) PROVE Places'
  BY <1>10 DEF Apply, Claim, Nothing, control, handed, adoption, history, TypeOK, Places, Reachable
<1>11. ASSUME NEW p \in Procs, NEW b \in BOOLEAN, CleansUp(p, b) PROVE Places'
  BY <1>11 DEF CleansUp, control, handed, adoption, history, TypeOK, Places, Reachable
<1>12. ASSUME NEW p \in Procs, NEW k \in Passes, Parks(p, k) PROVE Places'
  <2>1. st[p] = "up" /\ live[p]
    BY <1>12 DEF Parks, Claims, Shaped
  <2>2. /\ st' = st /\ live' = live /\ why' = why /\ code' = code /\ printed' = printed /\ carry' = carry
        /\ \A q \in Procs : q # p => rows'[q] = rows[q]
        /\ \A q \in Procs : files'[q] = {} \/ files'[q] = files[q]
    BY <1>12 DEF Parks, control, TypeOK
  <2> QED BY <2>1, <2>2 DEF Places, Reachable
<1>13. ASSUME NEW p \in Procs, NEW k \in Passes, GivesBack(p, k) PROVE Places'
  BY <1>13 DEF GivesBack, Released, control, handed, adoption, history, TypeOK, Places, Reachable
<1>14. ASSUME NEW p \in Procs, NEW t \in Texts, Types(p, t) PROVE Places'
  BY <1>14 DEF Types, control, handed, adoption, history, TypeOK, Places, Reachable
<1>15. ASSUME NEW p \in Procs, NEW t \in Texts, Sends(p, t) PROVE Places'
  BY <1>15 DEF Sends, control, handed, adoption, history, TypeOK, Places, Reachable
<1>16. ASSUME NEW p \in Procs, NEW r \in Reasons, NEW b \in BOOLEAN, Leave(p, r, b) PROVE Places'
  BY <1>16 DEF Leave, control, handed, adoption, history, TypeOK, Places, Reachable
<1>17. ASSUME NEW p \in Procs, NEW c \in Procs, Spawns(p, c) PROVE Places'
  <2>1. /\ st' = [st EXCEPT ![p] = "follows", ![c] = "boot"] /\ st[p] = "disposing" /\ st[c] = "none" /\ why[c] = "none"
        /\ UNCHANGED <<live, why, code, printed, carry, rows, files>>
    BY <1>17 DEF Spawns, Newest, Fresh, adoption
  <2>2. rows[c] = {} /\ carry[c] = {} /\ files[c] = {} /\ rows[p] = {} /\ carry[p] = {} /\ p # c
    BY <2>1 DEF Places
  <2>3. st'[p] = "follows" /\ \A q \in Procs : q # p /\ q # c => st'[q] = st[q]
    BY <2>1, <2>2 DEF TypeOK
  <2>4. ASSUME NEW q \in Procs
        PROVE  /\ rows[q] # {} => st'[q] = "up" /\ live[q]
               /\ carry[q] # {} => st'[q] = "leaving" /\ why[q] = "restart"
               /\ files[q] # {} => why[q] = "restart" /\ Reachable(q)'
    <3>1. CASE q \in {p, c}
      BY <2>1, <2>2, <2>3, <3>1 DEF Places, Reachable
    <3>2. CASE q \notin {p, c}
      BY <2>1, <2>3, <3>2 DEF Places, Reachable
    <3> QED BY <3>1, <3>2
  <2>5. rows' = rows /\ live' = live /\ carry' = carry /\ why' = why /\ files' = files
    BY <2>1
  <2> QED BY <2>4, <2>5 DEF Places
<1>18. ASSUME NEW p \in Procs, NEW c \in Procs, ReplacementEnds(p, c) PROVE Places'
  <2>1. /\ rows' = rows /\ carry' = carry /\ why' = why /\ live' = live /\ st' = [st EXCEPT ![p] = "gone"] /\ st[p] = "follows"
        /\ \A q \in Procs : q # p => code'[q] = code[q] /\ files'[q] = files[q] /\ st'[q] = st[q]
        /\ \A q \in Procs : q \in printed => q \in printed'
    BY <1>18 DEF ReplacementEnds, Printed, Ends, adoption, TypeOK
  <2>2. rows[p] = {} /\ carry[p] = {}
    BY <2>1 DEF Places
  <2>3. files'[p] # {} => p \in printed' /\ files[p] # {}
    BY <1>18, Unread DEF ReplacementEnds, Printed, Ends, TypeOK
  <2>4. \A q \in Procs : q # p => (Reachable(q) => Reachable(q)')
    BY <2>1 DEF Reachable
  <2> QED BY <2>1, <2>2, <2>3, <2>4 DEF Places, Reachable
<1>19. ASSUME NEW p \in Procs, NEW c \in Procs, Resume(p, c) PROVE Places'
  BY <1>19 DEF Resume, Newest, Fresh, control, handed, adoption, history, TypeOK, Places, Reachable
<1>20. CASE UNCHANGED vars
  BY <1>20 DEF vars, control, handed, adoption, history, TypeOK, Places, Reachable
<1> QED BY <1>1, <1>2, <1>3, <1>4, <1>5, <1>6, <1>7, <1>8, <1>9, <1>10, <1>11, <1>12, <1>13, <1>14, <1>15, <1>16, <1>17, <1>18, <1>19, <1>20 DEF Next

\* What the printed command does not name is given up.
LEMMA PrintedKeeps ==
    ASSUME TypeOK, NEW p \in Procs, Printed(p)
    PROVE  \A q \in Procs : files[q] \subseteq files'[q] \cup forgone'
<1>1. CASE named[p]
  BY <1>1 DEF Printed
<1>2. CASE ~named[p]
  <2>1. files' = [files EXCEPT ![p] = {}] /\ forgone' = forgone \cup files[p]
    BY <1>2 DEF Printed
  <2>2. \A q \in Procs : q # p => files'[q] = files[q]
    BY <2>1 DEF TypeOK
  <2> QED BY <2>1, <2>2
<1> QED BY <1>1, <1>2

LEMMA AccountedStep ==
    ASSUME TypeOK, TypeOK', Claims, Fates, Settled, Family, Calm, Places, Accounted, [Next]_vars
    PROVE  Accounted'
<1> USE DEF Calm, Fates
<1>1. ASSUME NEW p \in Procs, Ready(p) PROVE Accounted'
  BY <1>1 DEF Ready, Claim, control, handed, adoption, history, TypeOK, Accounted
<1>2. ASSUME NEW p \in Procs, Stops(p) PROVE Accounted'
  BY <1>2 DEF Stops, control, handed, adoption, history, TypeOK, Accounted
<1>3. ASSUME NEW p \in Procs, FirstWrite(p) PROVE Accounted'
  BY <1>3 DEF FirstWrite, control, handed, adoption, history, TypeOK, Accounted
<1>4. ASSUME NEW p \in Procs, Flushed(p) PROVE Accounted'
  BY <1>4 DEF Flushed, control, handed, adoption, history, TypeOK, Accounted
<1>5. ASSUME NEW p \in Procs, Exits(p) PROVE Accounted'
  BY <1>5 DEF Exits, Ends, control, handed, adoption, history, TypeOK, Accounted
<1>6. ASSUME NEW p \in Procs, SpawnFails(p) PROVE Accounted'
  <2>1. /\ rows' = rows /\ carry' = carry /\ typed' = typed /\ sent' = sent /\ forgone \subseteq forgone'
    BY <1>6 DEF SpawnFails, Printed
  <2>2. \A q \in Procs : files[q] \subseteq files'[q] \cup forgone'
    BY <1>6, PrintedKeeps DEF SpawnFails
  <2> QED BY <2>1, <2>2 DEF Accounted
<1>7. ASSUME NEW p \in Procs, Stalls(p) PROVE Accounted'
  <2>1. /\ rows' = rows /\ carry' = carry /\ typed' = typed /\ sent' = sent /\ forgone \subseteq forgone'
    BY <1>7 DEF Stalls, Printed
  <2>2. \A q \in Procs : files[q] \subseteq files'[q] \cup forgone'
    BY <1>7, PrintedKeeps DEF Stalls
  <2> QED BY <2>1, <2>2 DEF Accounted
<1>8. ASSUME NEW p \in Procs, NEW how \in {"ok", "bad", "signal"}, BootFails(p, how) PROVE Accounted'
  BY <1>8 DEF BootFails, Ends, control, handed, adoption, history, TypeOK, Accounted
<1>9. ASSUME NEW p \in Procs, Killed(p) PROVE Accounted'
  BY <1>9 DEF Killed, Ends, control, handed, adoption, history, TypeOK, Accounted
<1>10. ASSUME NEW p \in Procs, NEW b \in BOOLEAN, Apply(p, b) PROVE Accounted'
  BY <1>10 DEF Apply, Claim, Nothing, control, handed, adoption, history, TypeOK, Accounted
<1>11. ASSUME NEW p \in Procs, NEW b \in BOOLEAN, CleansUp(p, b) PROVE Accounted'
  <2>1. files[p] = {}
    BY <1>11 DEF CleansUp, Places, Reachable
  <2>2. /\ rows' = rows /\ typed' = typed /\ sent' = sent /\ forgone \subseteq forgone'
        /\ carry[p] \subseteq files'[p] \cup forgone'
        /\ \A q \in Procs : q # p => carry'[q] = carry[q] /\ files'[q] = files[q]
    BY <1>11 DEF CleansUp, TypeOK
  <2> QED BY <2>1, <2>2 DEF Accounted
<1>12. ASSUME NEW p \in Procs, NEW k \in Passes, Parks(p, k) PROVE Accounted'
  <2>1. waiting[p].from \in Procs /\ waiting[p].inputs = files[waiting[p].from]
    BY <1>12, StagesUnsettled DEF Parks, Family, Alive
  <2>2. /\ carry' = carry /\ typed' = typed /\ sent' = sent /\ forgone' = forgone
        /\ \A q \in Procs : rows[q] \subseteq rows'[q]
        /\ \A q \in Procs : files[q] \subseteq files'[q] \cup rows'[p]
    BY <1>12, <2>1 DEF Parks, history, TypeOK
  <2> QED BY <2>2 DEF Accounted
<1>13. ASSUME NEW p \in Procs, NEW k \in Passes, GivesBack(p, k) PROVE Accounted'
  BY <1>13 DEF GivesBack, Released, control, handed, adoption, history, TypeOK, Accounted
<1>14. ASSUME NEW p \in Procs, NEW t \in Texts, Types(p, t) PROVE Accounted'
  BY <1>14 DEF Types, control, handed, adoption, history, TypeOK, Accounted
<1>15. ASSUME NEW p \in Procs, NEW t \in Texts, Sends(p, t) PROVE Accounted'
  BY <1>15 DEF Sends, control, handed, adoption, history, TypeOK, Accounted
<1>16. ASSUME NEW p \in Procs, NEW r \in Reasons, NEW b \in BOOLEAN, Leave(p, r, b) PROVE Accounted'
  <2>1. carry[p] = {}
    BY <1>16 DEF Leave, Places
  <2>2. /\ files' = files /\ typed' = typed /\ sent' = sent /\ forgone \subseteq forgone'
        /\ rows[p] \subseteq carry'[p] \cup forgone'
        /\ \A q \in Procs : q # p => carry'[q] = carry[q] /\ rows'[q] = rows[q]
    BY <1>16 DEF Leave, TypeOK
  <2> QED BY <2>1, <2>2 DEF Accounted
<1>17. ASSUME NEW p \in Procs, NEW c \in Procs, Spawns(p, c) PROVE Accounted'
  BY <1>17 DEF Spawns, Newest, Fresh, control, handed, adoption, history, TypeOK, Accounted
<1>18. ASSUME NEW p \in Procs, NEW c \in Procs, ReplacementEnds(p, c) PROVE Accounted'
  <2>1. /\ rows' = rows /\ carry' = carry /\ typed' = typed /\ sent' = sent /\ forgone \subseteq forgone'
    BY <1>18 DEF ReplacementEnds, Printed
  <2>2. \A q \in Procs : files[q] \subseteq files'[q] \cup forgone'
    <3>1. CASE Printed(p)
      BY <3>1, PrintedKeeps
    <3>2. CASE ~Printed(p)
      <4>1. code[c] \in {"ok", "signal"} /\ (files' = files \/ files' = [files EXCEPT ![p] = {}])
        BY <1>18, <3>2 DEF ReplacementEnds
      <4>2. files[p] = {}
        BY <1>18, <4>1, Unread DEF ReplacementEnds
      <4>3. \A q \in Procs : files'[q] = files[q]
        <5>1. CASE files' = files
          BY <5>1
        <5>2. CASE files' = [files EXCEPT ![p] = {}]
          BY <4>2, <5>2 DEF TypeOK
        <5> QED BY <4>1, <5>1, <5>2
      <4> QED BY <4>3
    <3> QED BY <3>1, <3>2
  <2> QED BY <2>1, <2>2 DEF Accounted
<1>19. ASSUME NEW p \in Procs, NEW c \in Procs, Resume(p, c) PROVE Accounted'
  BY <1>19 DEF Resume, Newest, Fresh, control, handed, adoption, history, TypeOK, Accounted
<1>20. CASE UNCHANGED vars
  BY <1>20 DEF vars, control, handed, adoption, history, TypeOK, Accounted
<1> QED BY <1>1, <1>2, <1>3, <1>4, <1>5, <1>6, <1>7, <1>8, <1>9, <1>10, <1>11, <1>12, <1>13, <1>14, <1>15, <1>16, <1>17, <1>18, <1>19, <1>20 DEF Next

-----------------------------------------------------------------------------
(* The screen. *)

\* The environment takes none of the risks of the screen.
Tidy == Risks \cap {"switched", "undrawn", "stalled"} = {}

Leaf(p) == st[p] \in {"boot", "up", "leaving", "disposing"}
Dies(p) == st[p] \in {"leaving", "disposing"}

\* At most one process is at work; one that follows has a replacement, and one
\* whose parent ended before it was orphaned by a kill.
Line ==
    /\ \A p, q \in Procs : Leaf(p) /\ Leaf(q) => p = q
    /\ \A p \in Procs : st[p] = "follows" => \E c \in Procs : dad[c] = p
    /\ \A p \in Procs : st[p] \in Alive /\ dad[p] # 0 /\ st[dad[p]] = "gone" => code[dad[p]] = "kill"
    /\ \A p \in Procs : code[p] # "none" => st[p] = "gone"

\* How far the adoption of the screen has come.
Adoption ==
    /\ \A p \in Procs : ack[p] # "none" => dad[p] # 0 /\ why[dad[p]] = "switch"
    /\ \A p \in Procs : st[p] = "none" => ack[p] = "none"
    /\ \A p \in Procs : st[p] = "boot" => ack[p] \in {"none", "armed"}
    /\ \A p \in Procs : st[p] = "up" \/ Dies(p) => ack[p] # "armed"
    /\ \A p \in Procs : st[p] = "up" /\ ~live[p] => ack[p] = "none"
    /\ \A p \in Procs : drawn[p] # "no" => ack[p] \notin {"none", "armed"}

NoOrphan == \A p \in Procs : ~Orphan(p)
AllAttended == \A p \in Procs : ~Unattended(p)

\* While nobody was orphaned, whoever is at work ends before its ancestors do.
Ended ==
    NoOrphan => \A p, c, q \in Procs :
        st[p] = "follows" /\ dad[c] = p /\ st[c] = "gone" => ~Leaf(q)

\* Who needs the alternate screen, and who still closes it.
Draws(p) ==
    \/ st[p] = "up" /\ live[p]
    \/ st[p] = "boot" /\ ack[p] = "armed"
    \/ Dies(p) /\ why[p] = "switch"
Closes(p) ==
    \/ st[p] = "up" /\ live[p]
    \/ st[p] = "boot" /\ ack[p] = "armed" /\ st[dad[p]] = "follows"
    \/ Dies(p) /\ why[p] = "switch"
    \/ /\ st[p] = "follows" /\ why[p] = "switch"
       /\ \E c \in Procs : dad[c] = p /\ st[c] = "gone" /\ (ack[c] # "ready" \/ code[c] = "kill")

Drawn == NoOrphan => \A p \in Procs : Draws(p) => screen = "alt"
Closed == AllAttended /\ screen = "alt" => \E p \in Procs : Closes(p)

\* What a step can do to the screen and to the processes around it.
Unseen == UNCHANGED <<control, live, ack, drawn, screen>>

LEMMA UnseenSteps ==
    ASSUME [Next]_vars,
           ~\E p \in Procs : \/ Stops(p) \/ FirstWrite(p) \/ Flushed(p) \/ Exits(p) \/ SpawnFails(p)
                             \/ Stalls(p) \/ Killed(p),
           ~\E p \in Procs, how \in {"ok", "bad", "signal"} : BootFails(p, how),
           ~\E p \in Procs, b \in BOOLEAN : Apply(p, b) \/ CleansUp(p, b),
           ~\E p \in Procs, r \in Reasons, b \in BOOLEAN : Leave(p, r, b),
           ~\E p, c \in Procs : Spawns(p, c) \/ ReplacementEnds(p, c) \/ Resume(p, c)
    PROVE  Unseen
<1>1. ASSUME NEW p \in Procs, Ready(p) PROVE Unseen
  BY <1>1 DEF Ready, Unseen, control, terminal
<1>2. ASSUME NEW p \in Procs, NEW k \in Passes, Parks(p, k) \/ GivesBack(p, k) PROVE Unseen
  BY <1>2 DEF Parks, GivesBack, Unseen, control, terminal
<1>3. ASSUME NEW p \in Procs, NEW t \in Texts, Types(p, t) \/ Sends(p, t) PROVE Unseen
  BY <1>3 DEF Types, Sends, Unseen, control, terminal, adoption
<1>4. CASE UNCHANGED vars
  BY <1>4 DEF vars, Unseen, adoption, terminal
<1> QED BY <1>1, <1>2, <1>3, <1>4 DEF Next

LEMMA LineStep == ASSUME TypeOK, TypeOK', Unborn, Family, Line, [Next]_vars PROVE Line'
<1> USE TypeParts DEF Line, Leaf
<1>1. ASSUME NEW p \in Procs, Stops(p) PROVE Line'
  BY <1>1 DEF Stops, control, handed, adoption, terminal, ControlType, Family, Unborn, Alive
<1>2. ASSUME NEW p \in Procs, FirstWrite(p) PROVE Line'
  BY <1>2 DEF FirstWrite, control, handed, adoption, terminal, ControlType, Family, Unborn, Alive
<1>3. ASSUME NEW p \in Procs, Flushed(p) PROVE Line'
  BY <1>3 DEF Flushed, control, handed, adoption, terminal, ControlType, Family, Unborn, Alive
<1>4. ASSUME NEW p \in Procs, Exits(p) PROVE Line'
  BY <1>4 DEF Exits, Ends, control, handed, adoption, terminal, ControlType, Family, Unborn, Alive
<1>5. ASSUME NEW p \in Procs, SpawnFails(p) PROVE Line'
  BY <1>5 DEF SpawnFails, Ends, control, handed, adoption, terminal, ControlType, Family, Unborn, Alive
<1>6. ASSUME NEW p \in Procs, Stalls(p) PROVE Line'
  BY <1>6 DEF Stalls, Ends, control, handed, adoption, terminal, ControlType, Family, Unborn, Alive
<1>7. ASSUME NEW p \in Procs, NEW how \in {"ok", "bad", "signal"}, BootFails(p, how) PROVE Line'
  BY <1>7 DEF BootFails, Ends, control, handed, adoption, terminal, ControlType, Family, Unborn, Alive
<1>8. ASSUME NEW p \in Procs, Killed(p) PROVE Line'
  BY <1>8 DEF Killed, Ends, control, handed, adoption, terminal, ControlType, Family, Unborn, Alive
<1>9. ASSUME NEW p \in Procs, NEW b \in BOOLEAN, Apply(p, b) PROVE Line'
  BY <1>9 DEF Apply, control, handed, adoption, terminal, ControlType, Family, Unborn, Alive
<1>10. ASSUME NEW p \in Procs, NEW b \in BOOLEAN, CleansUp(p, b) PROVE Line'
  BY <1>10 DEF CleansUp, control, handed, adoption, terminal, ControlType, Family, Unborn, Alive
<1>11. ASSUME NEW p \in Procs, NEW r \in Reasons, NEW b \in BOOLEAN, Leave(p, r, b) PROVE Line'
  BY <1>11 DEF Leave, OwnsExit, control, handed, adoption, terminal, ControlType, Family, Unborn, Alive
<1>12. ASSUME NEW p \in Procs, NEW c \in Procs, Spawns(p, c) PROVE Line'
  <2>1. /\ st[p] = "disposing" /\ st[c] = "none" /\ c # p /\ code' = code
        /\ st' = [st EXCEPT ![p] = "follows", ![c] = "boot"] /\ dad' = [dad EXCEPT ![c] = p]
    BY <1>12 DEF Spawns, Newest, Fresh
  <2>2. \A q \in Procs : Leaf(q)' => q = c
    BY <2>1 DEF ControlType
  <2>3. \A q \in Procs : dad[q] # c /\ (q # c => dad'[q] = dad[q]) /\ dad'[c] = p /\ dad[c] = 0
    BY <2>1 DEF Unborn, ControlType
  <2>4. \A q \in Procs : st'[q] = "follows" => \E d \in Procs : dad'[d] = q
    <3> SUFFICES ASSUME NEW q \in Procs, st'[q] = "follows" PROVE \E d \in Procs : dad'[d] = q
      OBVIOUS
    <3>1. CASE q = p
      BY <2>3, <3>1
    <3>2. CASE q # p
      <4>1. st[q] = "follows"
        BY <2>1, <3>2 DEF ControlType
      <4>2. PICK d \in Procs : dad[d] = q
        BY <4>1
      <4> QED BY <2>3, <4>2, 0 \notin Procs DEF Procs
    <3> QED BY <3>1, <3>2
  <2>5. \A q \in Procs : st'[q] \in Alive /\ dad'[q] # 0 /\ st'[dad'[q]] = "gone" => code'[dad'[q]] = "kill"
    <3> SUFFICES ASSUME NEW q \in Procs, st'[q] \in Alive, dad'[q] # 0, st'[dad'[q]] = "gone"
                 PROVE  code[dad'[q]] = "kill"
      BY <2>1
    <3>1. q # c
      BY <2>1, <2>3 DEF ControlType
    <3>2. dad'[q] = dad[q] /\ dad[q] \in Procs /\ dad[q] # c /\ dad[q] # p
      BY <2>1, <2>3, <3>1 DEF ControlType, Procs
    <3>3. st[dad[q]] = "gone" /\ st[q] \in Alive
      BY <2>1, <3>1, <3>2 DEF ControlType, Alive
    <3> QED BY <3>2, <3>3
  <2>6. \A q \in Procs : code'[q] # "none" => st'[q] = "gone"
    BY <2>1 DEF ControlType
  <2> QED BY <2>2, <2>4, <2>5, <2>6
<1>13. ASSUME NEW p \in Procs, NEW c \in Procs, ReplacementEnds(p, c) PROVE Line'
  <2>1. /\ st[p] = "follows" /\ dad[c] = p /\ st[c] = "gone" /\ dad' = dad
        /\ st' = [st EXCEPT ![p] = "gone"] /\ \E how \in {"signal", "ok", "bad"} : code' = [code EXCEPT ![p] = how]
    BY <1>13 DEF ReplacementEnds, Ends
  <2>2. \A q \in Procs : Leaf(q)' => Leaf(q)
    BY <2>1 DEF ControlType
  <2>3. \A q \in Procs : st'[q] \in Alive => dad[q] # p
    BY <2>1 DEF ControlType, Alive, Family, Procs
  <2>4. \A q \in Procs : st'[q] \in Alive /\ dad[q] # 0 /\ st'[dad[q]] = "gone" => code'[dad[q]] = "kill"
    BY <2>1, <2>3 DEF ControlType, Alive, Procs
  <2>5. \A q \in Procs : code'[q] # "none" => st'[q] = "gone"
    BY <2>1 DEF ControlType
  <2>6. \A q \in Procs : st'[q] = "follows" => \E d \in Procs : dad'[d] = q
    BY <2>1 DEF ControlType
  <2> QED BY <2>1, <2>2, <2>4, <2>5, <2>6
<1>14. ASSUME NEW p \in Procs, NEW c \in Procs, Resume(p, c) PROVE Line'
  BY <1>14 DEF Resume, Newest, Fresh, control, handed, adoption, terminal, ControlType, Family, Unborn, Alive
<1>15. CASE Unseen
  BY <1>15 DEF Unseen, control, handed, adoption, terminal, ControlType, Family, Unborn, Alive
<1> QED BY UnseenSteps, <1>1, <1>2, <1>3, <1>4, <1>5, <1>6, <1>7, <1>8, <1>9, <1>10, <1>11, <1>12, <1>13, <1>14, <1>15 DEF Next

LEMMA AdoptionStep ==
    ASSUME Tidy, TypeOK, TypeOK', Unborn, Fates, Family, Adoption, [Next]_vars
    PROVE  Adoption'
<1> USE TypeParts DEF Adoption, Dies
<1>1. ASSUME NEW p \in Procs, Stops(p) PROVE Adoption'
  BY <1>1 DEF Stops, control, handed, adoption, terminal, ControlType, PassType, TerminalType, Family, Unborn, Fates, Follows, Tidy
<1>2. ASSUME NEW p \in Procs, FirstWrite(p) PROVE Adoption'
  BY <1>2 DEF FirstWrite, control, handed, adoption, terminal, ControlType, PassType, TerminalType, Family, Unborn, Fates, Follows, Tidy
<1>3. ASSUME NEW p \in Procs, Flushed(p) PROVE Adoption'
  BY <1>3 DEF Flushed, control, handed, adoption, terminal, ControlType, PassType, TerminalType, Family, Unborn, Fates, Follows, Tidy
<1>4. ASSUME NEW p \in Procs, Exits(p) PROVE Adoption'
  BY <1>4 DEF Exits, Ends, control, handed, adoption, terminal, ControlType, PassType, TerminalType, Family, Unborn, Fates, Follows, Tidy
<1>5. ASSUME NEW p \in Procs, SpawnFails(p) PROVE Adoption'
  BY <1>5 DEF SpawnFails, Ends, control, handed, adoption, terminal, ControlType, PassType, TerminalType, Family, Unborn, Fates, Follows, Tidy
<1>6. ASSUME NEW p \in Procs, Stalls(p) PROVE Adoption'
  BY <1>6 DEF Stalls, Ends, control, handed, adoption, terminal, ControlType, PassType, TerminalType, Family, Unborn, Fates, Follows, Tidy
<1>7. ASSUME NEW p \in Procs, NEW how \in {"ok", "bad", "signal"}, BootFails(p, how) PROVE Adoption'
  BY <1>7 DEF BootFails, Ends, control, handed, adoption, terminal, ControlType, PassType, TerminalType, Family, Unborn, Fates, Follows, Tidy
<1>8. ASSUME NEW p \in Procs, Killed(p) PROVE Adoption'
  BY <1>8 DEF Killed, Ends, control, handed, adoption, terminal, ControlType, PassType, TerminalType, Family, Unborn, Fates, Follows, Tidy
<1>9. ASSUME NEW p \in Procs, NEW b \in BOOLEAN, Apply(p, b) PROVE Adoption'
  BY <1>9 DEF Apply, control, handed, adoption, terminal, ControlType, PassType, TerminalType, Family, Unborn, Fates, Follows, Tidy
<1>10. ASSUME NEW p \in Procs, NEW b \in BOOLEAN, CleansUp(p, b) PROVE Adoption'
  BY <1>10 DEF CleansUp, control, handed, adoption, terminal, ControlType, PassType, TerminalType, Family, Unborn, Fates, Follows, Tidy
<1>11. ASSUME NEW p \in Procs, NEW r \in Reasons, NEW b \in BOOLEAN, Leave(p, r, b) PROVE Adoption'
  BY <1>11 DEF Leave, OwnsExit, control, handed, adoption, terminal, ControlType, PassType, TerminalType, Family, Unborn, Fates, Follows, Tidy
<1>12. ASSUME NEW p \in Procs, NEW c \in Procs, Spawns(p, c) PROVE Adoption'
  <2>1. /\ st[p] = "disposing" /\ st[c] = "none" /\ c # p /\ why' = why /\ live' = live /\ drawn' = drawn
        /\ st' = [st EXCEPT ![p] = "follows", ![c] = "boot"] /\ dad' = [dad EXCEPT ![c] = p]
        /\ ack' = [ack EXCEPT ![c] = IF why[p] = "switch" THEN "armed" ELSE "none"]
    BY <1>12 DEF Spawns, Newest, Fresh, control, adoption
  <2>2. \A q \in Procs : q # c => /\ ack'[q] = ack[q] /\ dad'[q] = dad[q]
                                  /\ q # p => st'[q] = st[q]
    BY <2>1 DEF ControlType, TerminalType
  <2>3. /\ st'[c] = "boot" /\ dad'[c] = p /\ ack[c] = "none" /\ drawn[c] = "no" /\ st'[p] = "follows"
        /\ ack'[c] \in {"none", "armed"} /\ (ack'[c] = "armed" => why[p] = "switch") /\ p # 0
    BY <2>1 DEF ControlType, TerminalType, Procs
  <2>4. \A q \in Procs : ack'[q] # "none" => dad'[q] # 0 /\ why'[dad'[q]] = "switch"
    BY <2>1, <2>2, <2>3
  <2>5. \A q \in Procs : drawn'[q] # "no" => ack'[q] \notin {"none", "armed"}
    BY <2>1, <2>2, <2>3
  <2>6. \A q \in Procs : st'[q] = "none" => ack'[q] = "none"
    BY <2>1, <2>2, <2>3
  <2>7. \A q \in Procs : st'[q] = "boot" => ack'[q] \in {"none", "armed"}
    BY <2>1, <2>2, <2>3
  <2>8. \A q \in Procs : st'[q] = "up" \/ Dies(q)' => ack'[q] # "armed"
    BY <2>1, <2>2, <2>3
  <2>9. \A q \in Procs : st'[q] = "up" /\ ~live'[q] => ack'[q] = "none"
    BY <2>1, <2>2, <2>3
  <2> HIDE DEF Dies
  <2> QED BY ONLY <2>4, <2>5, <2>6, <2>7, <2>8, <2>9 DEF Adoption
<1>13. ASSUME NEW p \in Procs, NEW c \in Procs, ReplacementEnds(p, c) PROVE Adoption'
  BY <1>13 DEF ReplacementEnds, Ends, Printed, control, handed, adoption, terminal, ControlType, PassType, TerminalType, Family, Unborn, Fates, Follows, Tidy
<1>14. ASSUME NEW p \in Procs, NEW c \in Procs, Resume(p, c) PROVE Adoption'
  BY <1>14 DEF Resume, Newest, Fresh, control, handed, adoption, terminal, ControlType, PassType, TerminalType, Family, Unborn, Fates, Follows, Tidy
<1>15. CASE Unseen
  BY <1>15 DEF Unseen, control, handed, adoption, terminal, ControlType, PassType, TerminalType, Family, Unborn, Fates, Follows, Tidy
<1> QED BY UnseenSteps, <1>1, <1>2, <1>3, <1>4, <1>5, <1>6, <1>7, <1>8, <1>9, <1>10, <1>11, <1>12, <1>13, <1>14, <1>15 DEF Next

\* What becomes of a process is settled once.
Settles(q) ==
    /\ code[q] # "none" => code'[q] = code[q]
    /\ st[q] # "none" => dad'[q] = dad[q] /\ st'[q] # "none"
    /\ st[q] # "up" => why'[q] = why[q]
    /\ st[q] = "gone" => st'[q] = "gone" /\ ack'[q] = ack[q]

LEMMA FateKept ==
    ASSUME TypeOK, TypeOK', Line, [Next]_vars PROVE \A q \in Procs : Settles(q)
<1> USE TypeParts DEF Settles, Line
<1>1. ASSUME NEW p \in Procs, Stops(p) PROVE \A q \in Procs : Settles(q)
  BY <1>1 DEF Stops, control, handed, adoption, terminal, ControlType, TerminalType
<1>2. ASSUME NEW p \in Procs, FirstWrite(p) PROVE \A q \in Procs : Settles(q)
  BY <1>2 DEF FirstWrite, control, handed, adoption, terminal, ControlType, TerminalType
<1>3. ASSUME NEW p \in Procs, Flushed(p) PROVE \A q \in Procs : Settles(q)
  BY <1>3 DEF Flushed, control, handed, adoption, terminal, ControlType, TerminalType
<1>4. ASSUME NEW p \in Procs, Exits(p) PROVE \A q \in Procs : Settles(q)
  BY <1>4 DEF Exits, Ends, control, handed, adoption, terminal, ControlType, TerminalType
<1>5. ASSUME NEW p \in Procs, SpawnFails(p) PROVE \A q \in Procs : Settles(q)
  BY <1>5 DEF SpawnFails, Ends, control, handed, adoption, terminal, ControlType, TerminalType
<1>6. ASSUME NEW p \in Procs, Stalls(p) PROVE \A q \in Procs : Settles(q)
  BY <1>6 DEF Stalls, Ends, control, handed, adoption, terminal, ControlType, TerminalType
<1>7. ASSUME NEW p \in Procs, NEW how \in {"ok", "bad", "signal"}, BootFails(p, how) PROVE \A q \in Procs : Settles(q)
  BY <1>7 DEF BootFails, Ends, control, handed, adoption, terminal, ControlType, TerminalType
<1>8. ASSUME NEW p \in Procs, Killed(p) PROVE \A q \in Procs : Settles(q)
  BY <1>8 DEF Killed, Ends, control, handed, adoption, terminal, ControlType, TerminalType
<1>9. ASSUME NEW p \in Procs, NEW b \in BOOLEAN, Apply(p, b) PROVE \A q \in Procs : Settles(q)
  BY <1>9 DEF Apply, control, handed, adoption, terminal, ControlType, TerminalType
<1>10. ASSUME NEW p \in Procs, NEW b \in BOOLEAN, CleansUp(p, b) PROVE \A q \in Procs : Settles(q)
  BY <1>10 DEF CleansUp, control, handed, adoption, terminal, ControlType, TerminalType
<1>11. ASSUME NEW p \in Procs, NEW r \in Reasons, NEW b \in BOOLEAN, Leave(p, r, b) PROVE \A q \in Procs : Settles(q)
  BY <1>11 DEF Leave, OwnsExit, control, handed, adoption, terminal, ControlType, TerminalType
<1>12. ASSUME NEW p \in Procs, NEW c \in Procs, Spawns(p, c) PROVE \A q \in Procs : Settles(q)
  BY <1>12 DEF Spawns, Newest, Fresh, control, handed, adoption, terminal, ControlType, TerminalType
<1>13. ASSUME NEW p \in Procs, NEW c \in Procs, ReplacementEnds(p, c) PROVE \A q \in Procs : Settles(q)
  BY <1>13 DEF ReplacementEnds, Ends, Printed, control, handed, adoption, terminal, ControlType, TerminalType
<1>14. ASSUME NEW p \in Procs, NEW c \in Procs, Resume(p, c) PROVE \A q \in Procs : Settles(q)
  BY <1>14 DEF Resume, Newest, Fresh, control, handed, adoption, terminal, ControlType, TerminalType
<1>15. CASE Unseen
  BY <1>15 DEF Unseen, control, handed, adoption, terminal, ControlType, TerminalType
<1> QED BY UnseenSteps, <1>1, <1>2, <1>3, <1>4, <1>5, <1>6, <1>7, <1>8, <1>9, <1>10, <1>11, <1>12, <1>13, <1>14, <1>15 DEF Next

\* Who was orphaned, or was killed with nobody to clean up, stays so.
LEMMA LonelyStay ==
    ASSUME TypeOK, TypeOK', Unborn, Line, Family, [Next]_vars
    PROVE  (NoOrphan' => NoOrphan) /\ (AllAttended' => AllAttended)
<1>1. \A q \in Procs : Settles(q)
  BY FateKept
<1>2. \A q \in Procs : dad[q] # 0 => dad[q] \in Procs /\ st[dad[q]] \in {"follows", "gone"}
  BY TypeParts DEF ControlType, Procs, Family
<1>3. \A q \in Procs : Orphan(q) => st[q] # "none" /\ Orphan(q)'
  BY <1>1, <1>2 DEF Settles, Orphan, Unborn
<1>4. \A q \in Procs : Unattended(q) => Unattended(q)'
  BY <1>1, <1>2, <1>3 DEF Settles, Unattended, Line
<1> QED BY <1>3, <1>4 DEF NoOrphan, AllAttended

LEMMA EndedStep ==
    ASSUME TypeOK, TypeOK', Unborn, Family, Line, Line', Ended, [Next]_vars
    PROVE  Ended'
<1> SUFFICES ASSUME NoOrphan', NEW a \in Procs, NEW d \in Procs, NEW q \in Procs,
                    st'[a] = "follows", dad'[d] = a, st'[d] = "gone", Leaf(q)'
             PROVE  FALSE
  BY DEF Ended
<1> NoOrphan
  BY LonelyStay
<1>a. \A x, y, z \in Procs : st[x] = "follows" /\ dad[y] = x /\ st[y] = "gone" => ~Leaf(z)
  BY DEF Ended
<1> USE TypeParts DEF Leaf
<1>1. ASSUME NEW p \in Procs, Stops(p) PROVE FALSE
  BY <1>1, <1>a DEF Stops, control, handed, adoption, terminal, ControlType, Unborn, Line, Family, NoOrphan, Orphan
<1>2. ASSUME NEW p \in Procs, FirstWrite(p) PROVE FALSE
  BY <1>2, <1>a DEF FirstWrite, control, handed, adoption, terminal, ControlType, Unborn, Line, Family, NoOrphan, Orphan
<1>3. ASSUME NEW p \in Procs, Flushed(p) PROVE FALSE
  BY <1>3, <1>a DEF Flushed, control, handed, adoption, terminal, ControlType, Unborn, Line, Family, NoOrphan, Orphan
<1>4. ASSUME NEW p \in Procs, Exits(p) PROVE FALSE
  BY <1>4, <1>a DEF Exits, Ends, control, handed, adoption, terminal, ControlType, Unborn, Line, Family, NoOrphan, Orphan
<1>5. ASSUME NEW p \in Procs, SpawnFails(p) PROVE FALSE
  BY <1>5, <1>a DEF SpawnFails, Ends, control, handed, adoption, terminal, ControlType, Unborn, Line, Family, NoOrphan, Orphan
<1>6. ASSUME NEW p \in Procs, Stalls(p) PROVE FALSE
  BY <1>6, <1>a DEF Stalls, Ends, control, handed, adoption, terminal, ControlType, Unborn, Line, Family, NoOrphan, Orphan
<1>7. ASSUME NEW p \in Procs, NEW how \in {"ok", "bad", "signal"}, BootFails(p, how) PROVE FALSE
  BY <1>7, <1>a DEF BootFails, Ends, control, handed, adoption, terminal, ControlType, Unborn, Line, Family, NoOrphan, Orphan
<1>8. ASSUME NEW p \in Procs, Killed(p) PROVE FALSE
  <2>1. CASE st[p] = "follows"
    <3>1. PICK e \in Procs : dad[e] = p
      BY <2>1 DEF Line
    <3>2. Orphan(e)'
      BY <1>8, <2>1, <3>1 DEF Killed, Ends, Orphan, ControlType, Procs
    <3> QED BY <3>2 DEF NoOrphan
  <2>2. CASE st[p] # "follows"
    <3>1. Leaf(p)
      BY <1>8, <2>2 DEF Killed
    <3>2. q # p /\ Leaf(q)
      BY <1>8 DEF Killed, Ends, ControlType
    <3> QED BY <3>1, <3>2 DEF Line
  <2> QED BY <2>1, <2>2
<1>9. ASSUME NEW p \in Procs, NEW b \in BOOLEAN, Apply(p, b) PROVE FALSE
  BY <1>9, <1>a DEF Apply, control, handed, adoption, terminal, ControlType, Unborn, Line, Family, NoOrphan, Orphan
<1>10. ASSUME NEW p \in Procs, NEW b \in BOOLEAN, CleansUp(p, b) PROVE FALSE
  BY <1>10, <1>a DEF CleansUp, control, handed, adoption, terminal, ControlType, Unborn, Line, Family, NoOrphan, Orphan
<1>11. ASSUME NEW p \in Procs, NEW r \in Reasons, NEW b \in BOOLEAN, Leave(p, r, b) PROVE FALSE
  BY <1>11, <1>a DEF Leave, OwnsExit, control, handed, adoption, terminal, ControlType, Unborn, Line, Family, NoOrphan, Orphan
<1>12. ASSUME NEW p \in Procs, NEW c \in Procs, Spawns(p, c) PROVE FALSE
  <2>1. /\ st[p] = "disposing" /\ st[c] = "none" /\ c # p
        /\ st' = [st EXCEPT ![p] = "follows", ![c] = "boot"] /\ dad' = [dad EXCEPT ![c] = p]
    BY <1>12 DEF Spawns, Newest, Fresh
  <2>2. d # c /\ d # p /\ dad[d] = a /\ st[d] = "gone"
    BY <2>1 DEF ControlType
  <2>3. a # p
    BY <2>1, <2>2 DEF Family, Procs
  <2>4. st[a] = "follows"
    BY <2>1, <2>3 DEF ControlType
  <2> QED BY <1>a, <2>1, <2>2, <2>4
<1>13. ASSUME NEW p \in Procs, NEW c \in Procs, ReplacementEnds(p, c) PROVE FALSE
  <2>1. /\ st[p] = "follows" /\ dad[c] = p /\ st[c] = "gone" /\ st' = [st EXCEPT ![p] = "gone"]
    BY <1>13 DEF ReplacementEnds, Ends
  <2>2. Leaf(q)
    BY <2>1 DEF ControlType
  <2> QED BY <1>a, <2>1, <2>2
<1>14. ASSUME NEW p \in Procs, NEW c \in Procs, Resume(p, c) PROVE FALSE
  BY <1>14, <1>a DEF Resume, Newest, Fresh, control, handed, adoption, terminal, ControlType, Unborn, Line, Family, NoOrphan, Orphan
<1>15. CASE Unseen
  BY <1>15, <1>a DEF Unseen, control, handed, adoption, terminal, ControlType, Unborn, Line, Family, NoOrphan, Orphan
<1> QED BY UnseenSteps, <1>1, <1>2, <1>3, <1>4, <1>5, <1>6, <1>7, <1>8, <1>9, <1>10, <1>11, <1>12, <1>13, <1>14, <1>15 DEF Next

LEMMA DrawnStep ==
    ASSUME Tidy, TypeOK, TypeOK', Unborn, Fates, Family, Line, Line', Adoption, Adoption', Ended, Drawn,
           [Next]_vars
    PROVE  Drawn'
<1> SUFFICES ASSUME NoOrphan', NEW q \in Procs, Draws(q)' PROVE screen' = "alt"
  BY DEF Drawn
<1> NoOrphan
  BY LonelyStay
<1>a. /\ \A x, y, z \in Procs : st[x] = "follows" /\ dad[y] = x /\ st[y] = "gone" => ~Leaf(z)
      /\ \A x \in Procs : Draws(x) => screen = "alt"
      /\ Leaf(q)'
  BY DEF Ended, Drawn, Draws, Leaf, Dies
<1> USE TypeParts DEF Leaf, Draws, Dies
<1>1. ASSUME NEW p \in Procs, Stops(p) PROVE screen' = "alt"
  BY <1>1, <1>a DEF Stops, control, handed, adoption, terminal, ControlType, PassType, TerminalType, Unborn, Line, Adoption, Fates, Tidy
<1>2. ASSUME NEW p \in Procs, FirstWrite(p) PROVE screen' = "alt"
  BY <1>2, <1>a DEF FirstWrite, control, handed, adoption, terminal, ControlType, PassType, TerminalType, Unborn, Line, Adoption, Fates, Tidy
<1>3. ASSUME NEW p \in Procs, Flushed(p) PROVE screen' = "alt"
  BY <1>3, <1>a DEF Flushed, control, handed, adoption, terminal, ControlType, PassType, TerminalType, Unborn, Line, Adoption, Fates, Tidy
<1>4. ASSUME NEW p \in Procs, Exits(p) PROVE screen' = "alt"
  BY <1>4, <1>a DEF Exits, Ends, control, handed, adoption, terminal, ControlType, PassType, TerminalType, Unborn, Line, Adoption, Fates, Tidy
<1>5. ASSUME NEW p \in Procs, SpawnFails(p) PROVE screen' = "alt"
  BY <1>5, <1>a DEF SpawnFails, Ends, control, handed, adoption, terminal, ControlType, PassType, TerminalType, Unborn, Line, Adoption, Fates, Tidy
<1>6. ASSUME NEW p \in Procs, Stalls(p) PROVE screen' = "alt"
  BY <1>6, <1>a DEF Stalls, Ends, control, handed, adoption, terminal, ControlType, PassType, TerminalType, Unborn, Line, Adoption, Fates, Tidy
<1>7. ASSUME NEW p \in Procs, NEW how \in {"ok", "bad", "signal"}, BootFails(p, how) PROVE screen' = "alt"
  BY <1>7, <1>a DEF BootFails, Ends, control, handed, adoption, terminal, ControlType, PassType, TerminalType, Unborn, Line, Adoption, Fates, Tidy
<1>8. ASSUME NEW p \in Procs, Killed(p) PROVE screen' = "alt"
  BY <1>8, <1>a DEF Killed, Ends, control, handed, adoption, terminal, ControlType, PassType, TerminalType, Unborn, Line, Adoption, Fates, Tidy
<1>9. ASSUME NEW p \in Procs, NEW b \in BOOLEAN, Apply(p, b) PROVE screen' = "alt"
  BY <1>9, <1>a DEF Apply, control, handed, adoption, terminal, ControlType, PassType, TerminalType, Unborn, Line, Adoption, Fates, Tidy
<1>10. ASSUME NEW p \in Procs, NEW b \in BOOLEAN, CleansUp(p, b) PROVE screen' = "alt"
  BY <1>10, <1>a DEF CleansUp, control, handed, adoption, terminal, ControlType, PassType, TerminalType, Unborn, Line, Adoption, Fates, Tidy
<1>11. ASSUME NEW p \in Procs, NEW r \in Reasons, NEW b \in BOOLEAN, Leave(p, r, b) PROVE screen' = "alt"
  BY <1>11, <1>a DEF Leave, OwnsExit, control, handed, adoption, terminal, ControlType, PassType, TerminalType, Unborn, Line, Adoption, Fates, Tidy
<1>12. ASSUME NEW p \in Procs, NEW c \in Procs, Spawns(p, c) PROVE screen' = "alt"
  BY <1>12, <1>a DEF Spawns, Newest, Fresh, control, handed, adoption, terminal, ControlType, PassType, TerminalType, Unborn, Line, Adoption, Fates, Tidy
<1>13. ASSUME NEW p \in Procs, NEW c \in Procs, ReplacementEnds(p, c) PROVE screen' = "alt"
  BY <1>13, <1>a DEF ReplacementEnds, Ends, Printed, control, handed, adoption, terminal, ControlType, PassType, TerminalType, Unborn, Line, Adoption, Fates, Tidy
<1>14. ASSUME NEW p \in Procs, NEW c \in Procs, Resume(p, c) PROVE screen' = "alt"
  BY <1>14, <1>a DEF Resume, Newest, Fresh, control, handed, adoption, terminal, ControlType, PassType, TerminalType, Unborn, Line, Adoption, Fates, Tidy
<1>15. CASE Unseen
  BY <1>15, <1>a DEF Unseen, control, handed, adoption, terminal, ControlType, PassType, TerminalType, Unborn, Line, Adoption, Fates, Tidy
<1> QED BY UnseenSteps, <1>1, <1>2, <1>3, <1>4, <1>5, <1>6, <1>7, <1>8, <1>9, <1>10, <1>11, <1>12, <1>13, <1>14, <1>15 DEF Next

LEMMA ClosedStep ==
    ASSUME Tidy, TypeOK, TypeOK', Unborn, Fates, Family, Line, Line', Adoption, Adoption', Closed,
           [Next]_vars
    PROVE  Closed'
<1> SUFFICES ASSUME AllAttended', screen' = "alt" PROVE \E x \in Procs : Closes(x)'
  BY DEF Closed
<1> AllAttended
  BY LonelyStay
<1>a. screen = "alt" => \E x \in Procs : Closes(x)
  BY DEF Closed
<1> USE TypeParts DEF Closes, Dies
<1>1. ASSUME NEW p \in Procs, Stops(p) PROVE \E x \in Procs : Closes(x)'
  BY <1>1, <1>a DEF Stops, control, handed, adoption, terminal, ControlType, PassType, TerminalType, Unborn, Line, Adoption, Fates, Tidy, Leaf
<1>2. ASSUME NEW p \in Procs, FirstWrite(p) PROVE \E x \in Procs : Closes(x)'
  BY <1>2, <1>a DEF FirstWrite, control, handed, adoption, terminal, ControlType, PassType, TerminalType, Unborn, Line, Adoption, Fates, Tidy, Leaf
<1>3. ASSUME NEW p \in Procs, Flushed(p) PROVE \E x \in Procs : Closes(x)'
  BY <1>3, <1>a DEF Flushed, control, handed, adoption, terminal, ControlType, PassType, TerminalType, Unborn, Line, Adoption, Fates, Tidy, Leaf
<1>4. ASSUME NEW p \in Procs, Exits(p) PROVE \E x \in Procs : Closes(x)'
  BY <1>4, <1>a DEF Exits, Ends, control, handed, adoption, terminal, ControlType, PassType, TerminalType, Unborn, Line, Adoption, Fates, Tidy, Leaf
<1>5. ASSUME NEW p \in Procs, SpawnFails(p) PROVE \E x \in Procs : Closes(x)'
  BY <1>5, <1>a DEF SpawnFails, Ends, control, handed, adoption, terminal, ControlType, PassType, TerminalType, Unborn, Line, Adoption, Fates, Tidy, Leaf
<1>6. ASSUME NEW p \in Procs, Stalls(p) PROVE \E x \in Procs : Closes(x)'
  BY <1>6, <1>a DEF Stalls, Ends, control, handed, adoption, terminal, ControlType, PassType, TerminalType, Unborn, Line, Adoption, Fates, Tidy, Leaf
<1>7. ASSUME NEW p \in Procs, NEW how \in {"ok", "bad", "signal"}, BootFails(p, how) PROVE \E x \in Procs : Closes(x)'
  <2>1. /\ st[p] = "boot" /\ st' = [st EXCEPT ![p] = "gone"] /\ code' = [code EXCEPT ![p] = how]
        /\ UNCHANGED <<dad, why, live, ack, screen>>
    BY <1>7 DEF BootFails, Ends, adoption, terminal
  <2>2. PICK h \in Procs : Closes(h)
    BY <1>a, <2>1
  <2>3. CASE h = p
    <3>1. /\ dad[p] \in Procs /\ st[dad[p]] = "follows" /\ why[dad[p]] = "switch" /\ ack[p] = "armed"
      BY <2>1, <2>2, <2>3 DEF Adoption, ControlType, Procs
    <3>2. PICK g \in Procs : g = dad[p]
      BY <3>1
    <3>3. Closes(g)'
      BY <2>1, <3>1, <3>2 DEF ControlType
    <3> QED BY <3>3
  <2>4. CASE h # p
    <3>1. Closes(h)'
      BY <2>1, <2>2, <2>4, 0 \notin Procs DEF ControlType, Procs
    <3> QED BY <3>1
  <2> QED BY <2>3, <2>4
<1>8. ASSUME NEW p \in Procs, Killed(p) PROVE \E x \in Procs : Closes(x)'
  <2>1. /\ st[p] \in Alive /\ st' = [st EXCEPT ![p] = "gone"] /\ code' = [code EXCEPT ![p] = "kill"]
        /\ UNCHANGED <<dad, why, live, ack, screen>>
    BY <1>8 DEF Killed, Ends, Alive, adoption, terminal
  <2>2. PICK g \in Procs : g = dad[p] /\ why[g] = "switch" /\ code'[g] # "kill"
    BY <2>1 DEF AllAttended, Unattended, Orphan, ControlType, Procs
  <2>3. g # p /\ code[g] # "kill"
    BY <2>1, <2>2 DEF ControlType
  <2>4. st[g] = "follows"
    BY <2>1, <2>2, <2>3 DEF Family, Line, Procs
  <2>5. Closes(g)'
    BY <2>1, <2>2, <2>3, <2>4 DEF ControlType
  <2> QED BY <2>5
<1>9. ASSUME NEW p \in Procs, NEW b \in BOOLEAN, Apply(p, b) PROVE \E x \in Procs : Closes(x)'
  BY <1>9, <1>a DEF Apply, control, handed, adoption, terminal, ControlType, PassType, TerminalType, Unborn, Line, Adoption, Fates, Tidy, Leaf
<1>10. ASSUME NEW p \in Procs, NEW b \in BOOLEAN, CleansUp(p, b) PROVE \E x \in Procs : Closes(x)'
  BY <1>10, <1>a DEF CleansUp, control, handed, adoption, terminal, ControlType, PassType, TerminalType, Unborn, Line, Adoption, Fates, Tidy, Leaf
<1>11. ASSUME NEW p \in Procs, NEW r \in Reasons, NEW b \in BOOLEAN, Leave(p, r, b) PROVE \E x \in Procs : Closes(x)'
  BY <1>11, <1>a DEF Leave, OwnsExit, control, handed, adoption, terminal, ControlType, PassType, TerminalType, Unborn, Line, Adoption, Fates, Tidy, Leaf
<1>12. ASSUME NEW p \in Procs, NEW c \in Procs, Spawns(p, c) PROVE \E x \in Procs : Closes(x)'
  <2>1. /\ st[p] = "disposing" /\ st[c] = "none" /\ c # p /\ why' = why /\ live' = live /\ code' = code
        /\ st' = [st EXCEPT ![p] = "follows", ![c] = "boot"] /\ dad' = [dad EXCEPT ![c] = p]
        /\ ack' = [ack EXCEPT ![c] = IF why[p] = "switch" THEN "armed" ELSE "none"] /\ screen' = screen
    BY <1>12 DEF Spawns, Newest, Fresh, adoption
  <2>2. PICK h \in Procs : Closes(h)
    BY <1>a, <2>1
  <2>3. CASE h = p
    <3>1. why[p] = "switch"
      BY <2>1, <2>2, <2>3
    <3>2. st'[c] = "boot" /\ ack'[c] = "armed" /\ st'[dad'[c]] = "follows"
      BY <2>1, <3>1 DEF ControlType, TerminalType
    <3> QED BY <3>2
  <2>4. CASE h # p
    <3>1. ~Leaf(h)
      BY <2>1, <2>4 DEF Line, Leaf
    <3>2. /\ st[h] = "follows" /\ why[h] = "switch"
          /\ \E d \in Procs : dad[d] = h /\ st[d] = "gone" /\ (ack[d] # "ready" \/ code[d] = "kill")
      BY <2>2, <3>1 DEF Leaf
    <3>3. PICK d \in Procs : dad[d] = h /\ st[d] = "gone" /\ (ack[d] # "ready" \/ code[d] = "kill")
      BY <3>2
    <3>4. d # c /\ d # p /\ h # c
      BY <2>1, <3>2, <3>3
    <3>5. dad'[d] = h /\ st'[d] = "gone" /\ ack'[d] = ack[d] /\ st'[h] = "follows"
      BY <2>1, <3>2, <3>3, <3>4, <2>4 DEF ControlType, TerminalType
    <3> QED BY <2>1, <3>2, <3>3, <3>5
  <2> QED BY <2>3, <2>4
<1>13. ASSUME NEW p \in Procs, NEW c \in Procs, ReplacementEnds(p, c) PROVE \E x \in Procs : Closes(x)'
  <2>1. /\ st[p] = "follows" /\ dad[c] = p /\ st[c] = "gone" /\ st' = [st EXCEPT ![p] = "gone"]
        /\ UNCHANGED <<dad, why, live, ack>> /\ screen' \in {screen, "main"}
        /\ \E how \in {"signal", "ok", "bad"} : code' = [code EXCEPT ![p] = how]
        /\ ~(why[p] = "switch" /\ (ack[c] # "ready" \/ code[c] = "kill"))
    BY <1>13 DEF ReplacementEnds, Ends, adoption
  <2>2. PICK h \in Procs : Closes(h)
    BY <1>a, <2>1
  <2>3. h # p
    BY <2>1, <2>2 DEF Family, Procs
  <2>4. st[h] = "boot" => dad[h] # p
    BY <2>1 DEF Family, Procs
  <2>5. Closes(h)'
    BY <2>1, <2>2, <2>3, <2>4 DEF ControlType
  <2> QED BY <2>5
<1>14. ASSUME NEW p \in Procs, NEW c \in Procs, Resume(p, c) PROVE \E x \in Procs : Closes(x)'
  BY <1>14, <1>a DEF Resume, Newest, Fresh, control, handed, adoption, terminal, ControlType, PassType, TerminalType, Unborn, Line, Adoption, Fates, Tidy, Leaf
<1>15. CASE Unseen
  BY <1>15, <1>a DEF Unseen, control, handed, adoption, terminal, ControlType, PassType, TerminalType, Unborn, Line, Adoption, Fates, Tidy, Leaf
<1> QED BY UnseenSteps, <1>1, <1>2, <1>3, <1>4, <1>5, <1>6, <1>7, <1>8, <1>9, <1>10, <1>11, <1>12, <1>13, <1>14, <1>15 DEF Next

-----------------------------------------------------------------------------
(* The theorems. *)

\* Every variable has its type in every reachable state.
THEOREM TypeCorrect == Spec => []TypeOK
BY TypeInit, TypeStep, PTL DEF Spec

\* The claim on a handoff and the passes of a process agree, whatever the
\* environment does to it.
THEOREM ClaimsInvariant == Spec => [](TypeOK /\ Claims)
<1>1. Init => TypeOK /\ Claims
  BY TypeInit, ClaimsInit
<1>2. TypeOK /\ Claims /\ [Next]_vars => (TypeOK /\ Claims)'
  BY TypeStep, ClaimsStep
<1> QED BY <1>1, <1>2, PTL DEF Spec

\* A ready screen never waits for a claim nobody holds, for any number of
\* passes and any risk the environment takes.
THEOREM NeverStranded == Spec => []NoneStranded
BY ClaimsInvariant, ClaimsStrand, PTL

LEMMA ChainInit == Init => Unborn /\ Family /\ Exclusive
<1> SUFFICES ASSUME Init PROVE Unborn /\ Family /\ Exclusive
  OBVIOUS
<1>1. \A p \in Procs : /\ dad[p] = 0 /\ waiting[p] = Nothing /\ marker[p] = 0 /\ 0 # p /\ p \notin printed
                       /\ st[p] \in Alive => p = 1
                       /\ files[p] = {} /\ rows[p] = {} /\ carry[p] = {}
  BY DEF Init, Procs, Alive
<1>2. Unborn
  BY <1>1 DEF Unborn, Holds, Nothing
<1>3. Family
  BY <1>1 DEF Family, Holds, Nothing
<1>4. Exclusive
  BY <1>1 DEF Init, Exclusive
<1> QED BY <1>2, <1>3, <1>4

LEMMA InputsInit == Init => Fates /\ Settled /\ Places /\ Accounted
BY DEF Init, Fates, Settled, Places, Accounted, Nothing, Procs

\* A process has one place in the chain, a file one reader and an input one
\* place to be in, whatever the environment does.
THEOREM ChainInvariant == Spec => [](TypeOK /\ Claims /\ Unborn /\ Family /\ Exclusive)
<1>1. Init => TypeOK /\ Claims /\ Unborn /\ Family /\ Exclusive
  BY TypeInit, ClaimsInit, ChainInit
<1>2. TypeOK /\ Claims /\ Unborn /\ Family /\ Exclusive /\ [Next]_vars
      => (TypeOK /\ Claims /\ Unborn /\ Family /\ Exclusive)'
  BY TypeStep, ClaimsStep, UnbornStep, FamilyStep, ExclusiveStep
<1> QED BY <1>1, <1>2, PTL DEF Spec

\* No input is on two docks, nor on one and in a file a later process parks
\* again, and none that was sent comes back, whatever the environment does.
THEOREM NeverShownTwice == Spec => []ShownOnce
<1>1. Exclusive => ShownOnce
  BY DEF Exclusive, ShownOnce
<1> QED BY <1>1, ChainInvariant, PTL

\* The inputs of a run that takes none of the risks that concern them: each is
\* accounted for, at a place somebody looks at.
THEOREM InputsInvariant ==
    ASSUME Calm PROVE Spec => [](Fates /\ Settled /\ Places /\ Accounted)
<1> DEFINE Chain == TypeOK /\ Claims /\ Unborn /\ Family /\ Exclusive
           Inputs == Fates /\ Settled /\ Places /\ Accounted
<1>1. Init => Inputs
  BY InputsInit
<1>2. Chain /\ Chain' /\ Inputs /\ [Next]_vars => Inputs'
  BY FatesStep, SettledStep, PlacesStep, AccountedStep
<1> HIDE DEF Chain, Inputs
<1>3. Spec => []Chain
  BY ChainInvariant DEF Chain
<1>4. Spec => []Inputs
  BY <1>1, <1>2, <1>3, PTL DEF Spec
<1> QED BY <1>4 DEF Inputs

\* No input is lost between the process that collects it and the one that shows
\* it, through any number of restarts, crashes and kills.
THEOREM InputsAreKept == ASSUME Calm PROVE Spec => []InputsSurvive
<1>1. Fates /\ Settled /\ Places /\ Accounted => InputsSurvive
  BY DEF Places, Accounted, InputsSurvive
<1> QED BY <1>1, InputsInvariant, PTL

\* The chain of a run that takes none of the risks of the screen: one process
\* at work, and whoever needs or closes the alternate screen is there to do so.
THEOREM ScreenInvariant ==
    ASSUME Tidy PROVE Spec => [](Line /\ Adoption /\ Ended /\ Drawn /\ Closed)
<1> DEFINE Chain == TypeOK /\ Claims /\ Unborn /\ Family /\ Exclusive
           Screen == Fates /\ Line /\ Adoption /\ Ended /\ Drawn /\ Closed
<1>1. Init => Screen
  <2> SUFFICES ASSUME Init PROVE Screen
    OBVIOUS
  <2>1. /\ \A p \in Procs : /\ st[p] \in {"none", "boot"} /\ (st[p] = "boot" => p = 1) /\ dad[p] = 0
                            /\ code[p] = "none" /\ ack[p] = "none" /\ drawn[p] = "no"
        /\ screen = "main"
    BY DEF Init
  <2>2. Line /\ Adoption
    BY <2>1 DEF Line, Adoption, Leaf, Dies
  <2>3. Ended /\ Drawn /\ Closed
    BY <2>1 DEF Ended, Drawn, Closed, Draws, Dies
  <2> QED BY <2>2, <2>3, InputsInit
<1>2. Chain /\ Chain' /\ Screen /\ [Next]_vars => Screen'
  BY FatesStep, LineStep, AdoptionStep, EndedStep, DrawnStep, ClosedStep
<1> HIDE DEF Chain, Screen
<1>3. Spec => []Chain
  BY ChainInvariant DEF Chain
<1>4. Spec => []Screen
  BY <1>1, <1>2, <1>3, PTL DEF Spec
<1>5. Screen => Line /\ Adoption /\ Ended /\ Drawn /\ Closed
  BY DEF Screen
<1> QED BY <1>4, <1>5, PTL

\* The alternate screen is closed by the process that owns it, over any number
\* of restarts, kernel switches, failed boots and kills.
THEOREM ScreenIsRestored == ASSUME Tidy PROVE Spec => []ScreenRestored
<1>1. TypeOK /\ Drawn /\ Closed => ScreenRestored
  <2> SUFFICES ASSUME TypeOK, Drawn, Closed PROVE ScreenRestored
    OBVIOUS
  <2>1. (\A p \in Procs : st[p] \in {"none", "gone"} /\ ~Unattended(p)) => screen # "alt"
    BY DEF Closed, Closes, AllAttended, Dies
  <2>2. NoOrphan => \A p \in Procs : st[p] = "up" /\ live[p] => screen = "alt"
    BY DEF Drawn, Draws
  <2> QED BY <2>1, <2>2 DEF ScreenRestored, NoOrphan, TypeOK
<1> QED BY <1>1, TypeCorrect, ScreenInvariant, PTL
=============================================================================
