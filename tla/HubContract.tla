----------------------------- MODULE HubContract -----------------------------
(* What a session may rely on of the hub it shares: a connection that is     *)
(* opened once, may go down and come back, and once dead or closed stays so; *)
(* what the session hears of it, in the step in which it is so; and calls    *)
(* that are settled once, answered only over a connection that is up, and    *)
(* all failed in the very step in which it goes away.                        *)
CONSTANTS Calls
VARIABLES link, heard, ask

vars == <<link, heard, ask>>

Init == link = "opening" /\ heard = "up" /\ ask = [c \in Calls |-> "none"]

Ask(c) ==
    /\ ask[c] = "none"
    /\ ask' = [ask EXCEPT ![c] = IF link = "closed" THEN "failed" ELSE "asked"]
    /\ UNCHANGED <<link, heard>>

Send(c) ==
    /\ ask[c] = "asked" /\ link = "up"
    /\ ask' = [ask EXCEPT ![c] = "sent"]
    /\ UNCHANGED <<link, heard>>

Answer(c) ==
    /\ ask[c] = "sent" /\ link = "up"
    /\ ask' = [ask EXCEPT ![c] = "answered"]
    /\ UNCHANGED <<link, heard>>

Fail(c) ==
    /\ ask[c] \in {"asked", "sent"}
    /\ ask' = [ask EXCEPT ![c] = "failed"]
    /\ UNCHANGED <<link, heard>>

After == [opening |-> {"up", "dead", "closed"}, up |-> {"down", "dead", "closed"},
          down |-> {"up", "dead", "closed"}, dead |-> {"closed"}, closed |-> {}]

(* Whoever opens a connection that never comes up has the error of its call, *)
(* and a close is the session's own doing: neither is announced.             *)
Change ==
    /\ link' \in After[link]
    /\ heard' = IF link = "opening" \/ link' = "closed" THEN heard ELSE link'
    /\ ask' = [c \in Calls |-> IF ask[c] = "sent" THEN "failed" ELSE ask[c]]

Next == Change \/ \E c \in Calls : Ask(c) \/ Send(c) \/ Answer(c) \/ Fail(c)
Spec == Init /\ [][Next]_vars
=============================================================================
