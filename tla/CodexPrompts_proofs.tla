------------------------ MODULE CodexPrompts_proofs ------------------------
(***************************************************************************)
(* What holds of CodexPrompts for any number of requests and rounds: no    *)
(* request is answered twice, the user is told what was sent, an awaited   *)
(* request is parked, and the panel shows what is parked.  The invariant   *)
(* of the prompts has two halves: what a line on its way to the hub        *)
(* promises (Lines), and how far a request has come (Prompt).  That of the *)
(* screen (PanelInv) rests on it, and speaks of sequences as of what they  *)
(* hold: their order is not needed.                                        *)
(***************************************************************************)
EXTENDS CodexPrompts, WellFoundedInduction, TLAPS

Types == {"request", "resolved", "item", "turn"}

\* The shape of the state, as far as the theorems look at it.
Shapes ==
    /\ srv \in [Asks -> {"none", "open", "over"}] /\ what \in [Asks -> Kinds] /\ child \subseteq Asks
    /\ wire \in Seq([type : Types, ask : Asks \cup {None}])
    /\ sent = [r \in Asks |-> sent[r]] /\ reasons \in [Asks -> Nat]
    /\ answered \in [Asks -> Outcomes \cup {"nothing"}] /\ told \in [Asks -> Outcomes \cup {"nothing"}]
    /\ parked \subseteq Asks /\ open \subseteq Asks /\ armed \subseteq Asks /\ noticed \subseteq Asks

\* A request the bridge has not seen.
Untouched(r) ==
    /\ sent[r] = <<>> /\ told[r] = "nothing" /\ reasons[r] = 0
    /\ r \notin parked /\ r \notin open /\ r \notin noticed

\* A request is on its way at most once, before anything was done about it;
\* its item completes when it is over; and what was asked after the end of a
\* turn is behind that end.
Lines ==
    /\ \A r \in Asks : srv[r] = "none" => Untouched(r) /\ \A i \in 1 .. Len(wire) : wire[i].ask # r
    /\ \A r \in Asks, i \in 1 .. Len(wire) : wire[i] = Message("request", r) => Untouched(r)
    /\ \A i, j \in 1 .. Len(wire) : wire[i].type = "request" /\ wire[i] = wire[j] => i = j
    /\ \A r \in Asks, i \in 1 .. Len(wire) : wire[i] = Message("item", r) => srv[r] = "over"
    /\ \A r \in Asks, i \in 1 .. Len(wire) :
          wire[i].type = "turn" /\ OfTurn(r) /\ srv[r] = "open"
          => \E j \in 1 .. Len(wire) : i < j /\ wire[j] = Message("request", r)

\* What an outcome says is what was sent.
Agrees(r, outcome) ==
    /\ outcome = "once" => sent[r] = <<"accept">>
    /\ outcome = "always" => sent[r] = <<"acceptForSession">>
    /\ outcome = "rejected" => sent[r] \in {<<"decline">>, <<"cancel">>}

\* A parked prompt: unanswered, and the hub's to answer, or answered as sent.
Pending(r) ==
    /\ r \in parked => told[r] = "nothing" /\ what[r] # "unfit"
    /\ r \in Unanswered => sent[r] = <<>> /\ r \in open /\ r \notin noticed /\ reasons[r] = 0
    /\ r \in parked /\ what[r] \in Permissions => Agrees(r, answered[r]) /\ answered[r] # "cancelled"
    /\ r \in armed => r \in Unanswered /\ what[r] = "timed"

\* What the user was told.
Told(r) ==
    /\ Agrees(r, told[r])
    /\ told[r] = "cancelled" => sent[r] \in {<<>>, <<"withdrawn">>}
    /\ r \in noticed => sent[r] = <<"auto">>
    /\ reasons[r] > 0 => reasons[r] = 1 /\ sent[r] \in {<<"decline">>, <<"cancel">>}

\* The answers of a request.
Answer(r) ==
    \/ sent[r] = <<>>
    \/ sent[r] = <<sent[r][1]>> /\ (what[r] = "command" => sent[r][1] # "acceptForSession")

\* Who waits for an answer is asked.
Awaited(r) == r \in open /\ srv[r] = "open" /\ what[r] # "form" => r \in Unanswered

Prompt(r) == Pending(r) /\ Told(r) /\ Answer(r) /\ Awaited(r)

\* The inductive invariant.
PromptsInv == Shapes /\ Lines /\ \A r \in Asks : Prompt(r)

-----------------------------------------------------------------------------
(* The lines on their way.                                                 *)

\* What a longer wire holds.
LEMMA Longer ==
    ASSUME Shapes, NEW m \in [type : Types, ask : Asks \cup {None}], wire' = Append(wire, m)
    PROVE  /\ wire' \in Seq([type : Types, ask : Asks \cup {None}])
           /\ Len(wire') = Len(wire) + 1 /\ Len(wire) \in Nat
           /\ \A i \in 1 .. Len(wire) : wire'[i] = wire[i]
           /\ wire'[Len(wire) + 1] = m
BY DEF Shapes

\* What a shorter wire holds.
LEMMA Shorter ==
    ASSUME Shapes, NEW type, NEW r, Hears(type, r)
    PROVE  /\ wire' \in Seq([type : Types, ask : Asks \cup {None}])
           /\ Len(wire) \in Nat /\ Len(wire) > 0 /\ Len(wire') = Len(wire) - 1
           /\ \A i \in 1 .. Len(wire') : wire'[i] = wire[i + 1]
           /\ wire[1] = Message(type, r)
BY DEF Shapes, Hears

\* Lines holds after a line was read, if only the request it names is touched.
LEMMA Read ==
    ASSUME Shapes, Lines, NEW type, NEW r, Hears(type, r), UNCHANGED <<srv, what, child>>,
           \A s \in Asks : Untouched(s) /\ Message(type, r) # Message("request", s) => Untouched(s)'
    PROVE  Lines'
<1> USE Shorter
<1>1. \A i \in 1 .. Len(wire') : i + 1 \in 1 .. Len(wire) /\ wire'[i] = wire[i + 1]
    OBVIOUS
<1>2. \A s \in Asks : srv'[s] = "none" => Untouched(s)' /\ \A i \in 1 .. Len(wire') : wire'[i].ask # s
    <2> SUFFICES ASSUME NEW s \in Asks, srv[s] = "none"
                 PROVE  Untouched(s)' /\ \A i \in 1 .. Len(wire') : wire'[i].ask # s
        OBVIOUS
    <2>1. Untouched(s) /\ \A i \in 1 .. Len(wire) : wire[i].ask # s
        BY DEF Lines
    <2>2. Message(type, r) # Message("request", s)
        BY <2>1 DEF Message
    <2>3. QED
        BY <1>1, <2>1, <2>2
<1>3. \A s \in Asks, i \in 1 .. Len(wire') : wire'[i] = Message("request", s) => Untouched(s)'
    <2> SUFFICES ASSUME NEW s \in Asks, NEW i \in 1 .. Len(wire'), wire'[i] = Message("request", s)
                 PROVE  Untouched(s)'
        OBVIOUS
    <2>1. wire[i + 1] = Message("request", s) /\ wire[i + 1].type = "request"
        BY <1>1 DEF Message
    <2>2. Untouched(s)
        BY <1>1, <2>1 DEF Lines
    <2>3. wire[i + 1] # wire[1]
        BY <1>1, <2>1 DEF Lines
    <2>4. QED
        BY <2>1, <2>2, <2>3
<1>4. \A i, j \in 1 .. Len(wire') : wire'[i].type = "request" /\ wire'[i] = wire'[j] => i = j
    <2> SUFFICES ASSUME NEW i \in 1 .. Len(wire'), NEW j \in 1 .. Len(wire'),
                        wire'[i].type = "request", wire'[i] = wire'[j]
                 PROVE  i = j
        OBVIOUS
    <2>1. i + 1 = j + 1
        BY <1>1 DEF Lines
    <2>2. QED
        BY <2>1
<1>5. \A s \in Asks, i \in 1 .. Len(wire') : wire'[i] = Message("item", s) => srv'[s] = "over"
    BY <1>1 DEF Lines
<1>6. \A s \in Asks, i \in 1 .. Len(wire') :
         wire'[i].type = "turn" /\ OfTurn(s)' /\ srv'[s] = "open"
         => \E j \in 1 .. Len(wire') : i < j /\ wire'[j] = Message("request", s)
    <2> SUFFICES ASSUME NEW s \in Asks, NEW i \in 1 .. Len(wire'),
                        wire'[i].type = "turn", OfTurn(s), srv[s] = "open"
                 PROVE  \E j \in 1 .. Len(wire') : i < j /\ wire'[j] = Message("request", s)
        BY DEF OfTurn
    <2>1. PICK k \in 1 .. Len(wire) : i + 1 < k /\ wire[k] = Message("request", s)
        BY <1>1 DEF Lines
    <2>2. k - 1 \in 1 .. Len(wire') /\ i < k - 1 /\ wire'[k - 1] = wire[(k - 1) + 1]
        BY <1>1, <2>1
    <2>3. (k - 1) + 1 = k
        BY <2>1
    <2>4. QED
        BY <2>1, <2>2, <2>3
<1>7. QED
    BY <1>2, <1>3, <1>4, <1>5, <1>6 DEF Lines, Message

\* Lines holds while the wire and the server stay, if nothing new is touched.
LEMMA Stays ==
    ASSUME Lines, UNCHANGED <<wire, srv, what, child>>, \A s \in Asks : Untouched(s) => Untouched(s)'
    PROVE  Lines'
BY DEF Lines, OfTurn, Message

-----------------------------------------------------------------------------
(* The initial state and the server's steps.                               *)

\* Nothing was asked yet.
LEMMA InitInv == Init => PromptsInv
<1> SUFFICES ASSUME Init PROVE PromptsInv
    OBVIOUS
<1>1. Shapes
    BY DEF Init, Shapes, Kinds, Permissions, Questions
<1>2. Lines
    BY DEF Init, Lines, Untouched
<1>3. \A r \in Asks : Prompt(r)
    BY DEF Init, Prompt, Pending, Told, Answer, Awaited, Agrees, Unanswered
<1>4. QED
    BY <1>1, <1>2, <1>3 DEF PromptsInv

\* A step of the server adds a line, and touches no prompt.
LEMMA ServerSteps ==
    ASSUME PromptsInv,
           \/ \E r \in Asks : ServerAsks(r) \/ ServerTakes(r) \/ ResolvedElsewhere(r)
           \/ ServerEndsTurn
    PROVE  PromptsInv'
<1> USE DEF Message
<1>1. Shapes /\ Lines /\ \A s \in Asks : Prompt(s)
    BY DEF PromptsInv
<1>2. UNCHANGED <<open, sent, bridge>>
    BY DEF ServerAsks, ServerTakes, ResolvedElsewhere, Over, ServerEndsTurn
<1>3. \A s \in Asks : Untouched(s)' = Untouched(s)
    BY <1>2 DEF Untouched, bridge
<1>4. ASSUME NEW r \in Asks, ServerAsks(r) PROVE PromptsInv'
    <2>1. PICK m \in [type : Types, ask : Asks \cup {None}] :
             m = Message("request", r) /\ wire' = Append(wire, m)
        BY <1>4 DEF ServerAsks, Types
    <2> USE Longer, <1>1, <2>1
    <2>2. Untouched(r) /\ \A i \in 1 .. Len(wire) : wire[i].ask # r
        BY <1>4 DEF ServerAsks, Lines
    <2>3. Shapes'
        BY <1>2, <1>4 DEF ServerAsks, Shapes, bridge
    <2>4. \A s \in Asks : s # r => srv'[s] = srv[s] /\ what'[s] = what[s] /\ (s \in child' <=> s \in child)
        BY <1>4 DEF ServerAsks, Shapes
    <2>5. srv'[r] = "open"
        BY <1>4 DEF ServerAsks, Shapes
    <2>6. \A i \in 1 .. Len(wire') : i \in 1 .. Len(wire) \/ i = Len(wire) + 1
        OBVIOUS
    <2>7. \A s \in Asks : srv'[s] = "none" => Untouched(s)' /\ \A i \in 1 .. Len(wire') : wire'[i].ask # s
        <3> SUFFICES ASSUME NEW s \in Asks, srv'[s] = "none", NEW i \in 1 .. Len(wire')
                     PROVE  Untouched(s)' /\ wire'[i].ask # s
            BY DEF Untouched
        <3>1. s # r /\ srv[s] = "none"
            BY <2>4, <2>5
        <3>2. QED
            BY <1>3, <2>6, <3>1 DEF Lines
    <2>8. \A s \in Asks, i \in 1 .. Len(wire') : wire'[i] = Message("request", s) => Untouched(s)'
        BY <1>3, <2>2, <2>6 DEF Lines
    <2>9. \A i, j \in 1 .. Len(wire') : wire'[i].type = "request" /\ wire'[i] = wire'[j] => i = j
        BY <2>2, <2>6 DEF Lines
    <2>10. \A s \in Asks, i \in 1 .. Len(wire') : wire'[i] = Message("item", s) => srv'[s] = "over"
        BY <2>2, <2>4, <2>6 DEF Lines
    <2>11. \A s \in Asks, i \in 1 .. Len(wire') :
              wire'[i].type = "turn" /\ OfTurn(s)' /\ srv'[s] = "open"
              => \E j \in 1 .. Len(wire') : i < j /\ wire'[j] = Message("request", s)
        <3> SUFFICES ASSUME NEW s \in Asks, NEW i \in 1 .. Len(wire'),
                            wire'[i].type = "turn", OfTurn(s)', srv'[s] = "open"
                     PROVE  \E j \in 1 .. Len(wire') : i < j /\ wire'[j] = Message("request", s)
            OBVIOUS
        <3>1. i \in 1 .. Len(wire)
            BY <2>6
        <3>2. CASE s = r
            BY <3>1, <3>2
        <3>3. CASE s # r
            <4>1. OfTurn(s) /\ srv[s] = "open"
                BY <2>4, <3>3 DEF OfTurn
            <4>2. PICK j \in 1 .. Len(wire) : i < j /\ wire[j] = Message("request", s)
                BY <3>1, <4>1 DEF Lines
            <4>3. j \in 1 .. Len(wire') /\ wire'[j] = Message("request", s)
                BY <4>2
            <4>4. QED
                BY <4>2, <4>3
        <3>4. QED
            BY <3>2, <3>3
    <2>12. Lines'
        BY <2>7, <2>8, <2>9, <2>10, <2>11 DEF Lines
    <2>13. ASSUME NEW s \in Asks, s # r PROVE Prompt(s)'
        BY <1>2, <2>4, <2>13 DEF Prompt, Pending, Told, Answer, Awaited, Agrees, Unanswered, bridge
    <2>14. Prompt(r)'
        <3>1. r \notin Unanswered /\ r \notin armed /\ r \notin open
            BY <2>2 DEF Prompt, Pending, Unanswered, Untouched
        <3>2. QED
            BY <1>2, <2>2, <3>1 DEF Prompt, Pending, Told, Answer, Awaited, Agrees, Unanswered, Untouched, bridge
    <2>15. QED
        BY <2>3, <2>12, <2>13, <2>14 DEF PromptsInv
<1>5. ASSUME UNCHANGED <<what, child>>,
             NEW m \in [type : Types, ask : Asks \cup {None}], wire' = Append(wire, m), m.type # "request",
             srv' \in [Asks -> {"none", "open", "over"}],
             \A s \in Asks : srv'[s] = srv[s] \/ (srv[s] = "open" /\ srv'[s] = "over"),
             \A s \in Asks : m.ask = s => srv'[s] = "over",
             m.type = "turn" => \A s \in Asks : OfTurn(s) => srv'[s] # "open"
      PROVE  PromptsInv'
    <2> USE Longer, <1>1, <1>5
    <2>1. Shapes'
        BY <1>2 DEF Shapes, bridge
    <2>2. \A i \in 1 .. Len(wire') : i \in 1 .. Len(wire) \/ i = Len(wire) + 1
        OBVIOUS
    <2>3. \A s \in Asks : srv'[s] = "none" => Untouched(s)' /\ \A i \in 1 .. Len(wire') : wire'[i].ask # s
        BY <1>3, <2>2 DEF Lines
    <2>4. \A s \in Asks, i \in 1 .. Len(wire') : wire'[i] = Message("request", s) => Untouched(s)'
        BY <1>3, <2>2 DEF Lines
    <2>5. \A i, j \in 1 .. Len(wire') : wire'[i].type = "request" /\ wire'[i] = wire'[j] => i = j
        BY <2>2 DEF Lines
    <2>6. \A s \in Asks, i \in 1 .. Len(wire') : wire'[i] = Message("item", s) => srv'[s] = "over"
        BY <2>2 DEF Lines
    <2>7. \A s \in Asks, i \in 1 .. Len(wire') :
              wire'[i].type = "turn" /\ OfTurn(s)' /\ srv'[s] = "open"
              => \E j \in 1 .. Len(wire') : i < j /\ wire'[j] = Message("request", s)
        <3> SUFFICES ASSUME NEW s \in Asks, NEW i \in 1 .. Len(wire'),
                            wire'[i].type = "turn", OfTurn(s)', srv'[s] = "open"
                     PROVE  \E j \in 1 .. Len(wire') : i < j /\ wire'[j] = Message("request", s)
            OBVIOUS
        <3>1. OfTurn(s) /\ srv[s] = "open"
            BY DEF OfTurn
        <3>2. i \in 1 .. Len(wire)
            BY <2>2, <3>1
        <3>3. PICK j \in 1 .. Len(wire) : i < j /\ wire[j] = Message("request", s)
            BY <3>1, <3>2 DEF Lines
        <3>4. j \in 1 .. Len(wire') /\ wire'[j] = Message("request", s)
            BY <3>3
        <3>5. QED
            BY <3>3, <3>4
    <2>8. Lines'
        BY <2>3, <2>4, <2>5, <2>6, <2>7 DEF Lines
    <2>9. ASSUME NEW s \in Asks PROVE Prompt(s)'
        BY <1>2, <2>9 DEF Prompt, Pending, Told, Answer, Awaited, Agrees, Unanswered, bridge
    <2>10. QED
        BY <2>1, <2>8, <2>9 DEF PromptsInv
<1>6. ASSUME NEW r \in Asks, Over(r) PROVE PromptsInv'
    <2>1. PICK m \in [type : Types, ask : Asks \cup {None}] :
             m.type \in {"resolved", "item"} /\ m.ask = r /\ wire' = Append(wire, m)
        BY <1>6 DEF Over, Types
    <2>2. srv' = [srv EXCEPT ![r] = "over"] /\ srv[r] = "open" /\ UNCHANGED <<what, child>>
        BY <1>6 DEF Over
    <2>3. srv' \in [Asks -> {"none", "open", "over"}] /\ srv'[r] = "over"
        BY <1>1, <2>2 DEF Shapes
    <2>4. \A s \in Asks : srv'[s] = srv[s] \/ (srv[s] = "open" /\ srv'[s] = "over")
        BY <1>1, <2>2 DEF Shapes
    <2>5. QED
        BY <1>5, <2>1, <2>2, <2>3, <2>4
<1>7. CASE ServerEndsTurn
    <2>1. PICK m \in [type : Types, ask : Asks \cup {None}] :
             m.type = "turn" /\ m.ask = None /\ wire' = Append(wire, m)
        BY <1>7 DEF ServerEndsTurn, Types
    <2>2. /\ srv' = [s \in Asks |-> IF srv[s] = "open" /\ OfTurn(s) THEN "over" ELSE srv[s]]
          /\ UNCHANGED <<what, child>>
        BY <1>7 DEF ServerEndsTurn
    <2>3. srv' \in [Asks -> {"none", "open", "over"}]
        BY <1>1, <2>2 DEF Shapes
    <2>4. \A s \in Asks : srv'[s] = srv[s] \/ (srv[s] = "open" /\ srv'[s] = "over")
        BY <2>2
    <2>5. \A s \in Asks : OfTurn(s) => srv'[s] # "open"
        BY <2>2
    <2>6. None \notin Asks
        BY PromptsAssumption
    <2>7. QED
        BY <1>5, <2>1, <2>2, <2>3, <2>4, <2>5, <2>6
<1>8. QED
    BY <1>4, <1>6, <1>7 DEF ServerTakes, ResolvedElsewhere

-----------------------------------------------------------------------------
(* What the bridge does to a prompt.                                       *)

\* A settlement tells the user what was sent, and leaves the others alone.
LEMMA Settling ==
    ASSUME Shapes, \A r \in Asks : Prompt(r), NEW S \in SUBSET parked, Settle(S),
           UNCHANGED <<what, sent, answered, noticed, reasons>>, open' \subseteq open,
           \A r \in Asks : r \in Unanswered \ S => r \in open',
           \A r \in Asks : r \in open' /\ srv'[r] = "open" /\ what[r] # "form" => srv[r] = "open" /\ r \notin S
    PROVE  /\ told' \in [Asks -> Outcomes \cup {"nothing"}]
           /\ parked' \subseteq Asks /\ open' \subseteq Asks /\ armed' \subseteq Asks
           /\ \A r \in Asks : Untouched(r) => Untouched(r)'
           /\ \A r \in Asks : Prompt(r)'
<1>1. /\ parked' = parked \ S /\ armed' = armed \ S
      /\ told' = [r \in Asks |-> IF r \in S /\ what[r] \in Permissions THEN Outcome(r) ELSE told[r]]
    BY DEF Settle
<1>2. told' \in [Asks -> Outcomes \cup {"nothing"}]
    BY <1>1 DEF Shapes, Outcome, Outcomes
<1>3. parked' \subseteq Asks /\ open' \subseteq Asks /\ armed' \subseteq Asks
    BY <1>1 DEF Shapes
<1>4. ASSUME NEW r \in Asks, Untouched(r) PROVE Untouched(r)'
    BY <1>1, <1>4 DEF Untouched
<1>5. ASSUME NEW r \in Asks PROVE Prompt(r)'
    <2>1. Prompt(r)
        OBVIOUS
    <2>2. CASE r \in S
        <3>1. r \in parked /\ r \notin parked' /\ r \notin armed' /\ r \notin Unanswered'
            BY <1>1, <2>2 DEF Unanswered
        <3>2. Pending(r)'
            BY <3>1 DEF Pending
        <3>3. told[r] = "nothing" /\ told'[r] = (IF what[r] \in Permissions THEN Outcome(r) ELSE "nothing")
            BY <1>1, <2>1, <2>2, <3>1 DEF Prompt, Pending
        <3>4. /\ what'[r] = what[r] /\ sent'[r] = sent[r] /\ answered'[r] = answered[r]
              /\ r \in noticed' <=> r \in noticed
              /\ reasons'[r] = reasons[r]
            OBVIOUS
        <3>5. what[r] \in Permissions => Agrees(r, Outcome(r)) /\ (Outcome(r) = "cancelled" => sent[r] = <<>>)
            BY <2>1, <3>1 DEF Agrees, Outcome, Prompt, Pending, Unanswered
        <3>6. Agrees(r, told'[r]) /\ (told'[r] = "cancelled" => sent[r] = <<>>)
            BY <3>3, <3>5 DEF Agrees
        <3>7. Told(r)'
            BY <2>1, <3>4, <3>6 DEF Told, Agrees, Prompt
        <3>8. QED
            BY <2>1, <2>2, <3>2, <3>7 DEF Prompt, Answer, Awaited
    <2>3. CASE r \notin S
        <3>1. /\ r \in parked' <=> r \in parked
              /\ r \in armed' <=> r \in armed
              /\ told'[r] = told[r]
              /\ r \in Unanswered' <=> r \in Unanswered
            BY <1>1, <2>3 DEF Unanswered
        <3>2. Pending(r)'
            BY <2>1, <2>3, <3>1 DEF Prompt, Pending, Agrees
        <3>3. Told(r)' /\ Answer(r)'
            BY <2>1, <3>1 DEF Prompt, Told, Agrees, Answer
        <3>4. Awaited(r)'
            BY <2>1, <3>1 DEF Prompt, Awaited
        <3>5. QED
            BY <3>2, <3>3, <3>4 DEF Prompt
    <2>4. QED
        BY <2>2, <2>3
<1>6. QED
    BY <1>2, <1>3, <1>4, <1>5

\* An answer goes out once, and to nobody else.
LEMMA Responding ==
    ASSUME Shapes, \A s \in Asks : Prompt(s),
           NEW r, NEW kinds, NEW outcome \in Outcomes, NEW said, Respond(r, kinds, outcome, said)
    PROVE  /\ sent' = [s \in Asks |-> sent'[s]] /\ answered' \in [Asks -> Outcomes \cup {"nothing"}]
           /\ open' \subseteq Asks
           /\ \A s \in Asks : s # r \/ ~Takes(r, kinds) =>
                 sent'[s] = sent[s] /\ answered'[s] = answered[s] /\ (s \in open' <=> s \in open)
           /\ Takes(r, kinds) =>
                 /\ r \in Asks /\ r \in parked /\ what[r] \in kinds /\ answered[r] = "nothing"
                 /\ r \notin noticed /\ reasons[r] = 0 /\ told[r] = "nothing"
                 /\ sent'[r] = <<said>> /\ answered'[r] = outcome /\ r \notin open'
<1>1. CASE Takes(r, kinds)
    <2>1. r \in Asks /\ r \in parked /\ what[r] \in kinds /\ answered[r] = "nothing"
        BY <1>1 DEF Takes, Unanswered, Shapes
    <2>2. sent[r] = <<>> /\ r \in open /\ r \notin noticed /\ reasons[r] = 0 /\ told[r] = "nothing"
        BY <1>1, <2>1 DEF Takes, Prompt, Pending
    <2>3. /\ sent' = [sent EXCEPT ![r] = Append(@, said)]
          /\ answered' = [answered EXCEPT ![r] = outcome]
          /\ open' = open \ {r}
        BY <1>1, <2>1, <2>2 DEF Respond
    <2>4. Append(sent[r], said) = <<said>>
        BY <2>2
    <2>5. QED
        BY <1>1, <2>1, <2>2, <2>3, <2>4 DEF Shapes
<1>2. CASE ~Takes(r, kinds)
    <2>1. sent' = sent /\ open' = open /\ answered' = [answered EXCEPT ![r] = answered[r]]
        BY <1>2 DEF Respond
    <2>2. answered' = answered
        BY <2>1 DEF Shapes
    <2>3. QED
        BY <1>2, <2>1, <2>2 DEF Shapes
<1>3. QED
    BY <1>1, <1>2

\* What an answer leaves of a prompt that did not take it.
LEMMA Bystander ==
    ASSUME NEW s \in Asks, Prompt(s), UNCHANGED <<srv, what, parked, told>>,
           sent'[s] = sent[s], answered'[s] = answered[s], reasons'[s] = reasons[s],
           s \in open' <=> s \in open, s \in noticed' <=> s \in noticed, s \in armed' => s \in armed
    PROVE  Prompt(s)' /\ (Untouched(s) => Untouched(s)')
<1>1. s \in Unanswered' <=> s \in Unanswered
    BY DEF Unanswered
<1>2. Pending(s)'
    BY <1>1 DEF Prompt, Pending, Agrees
<1>3. Told(s)' /\ Answer(s)' /\ Awaited(s)'
    BY <1>1 DEF Prompt, Told, Agrees, Answer, Awaited
<1>4. Untouched(s) => Untouched(s)'
    BY DEF Untouched
<1>5. QED
    BY <1>2, <1>3, <1>4 DEF Prompt

-----------------------------------------------------------------------------
(* The steps of the bridge and of the user.                                *)

\* A request that is turned away has its one answer.
LEMMA TurnedAwayInv == ASSUME PromptsInv, NEW r \in Asks, TurnedAway(r) PROVE PromptsInv'
<1>1. Shapes /\ Lines /\ \A s \in Asks : Prompt(s)
    BY DEF PromptsInv
<1>2. /\ Hears("request", r) /\ sent' = [sent EXCEPT ![r] = Append(@, "declined")]
      /\ UNCHANGED <<srv, what, child, open, parked, answered, armed, told, noticed, reasons>>
    BY DEF TurnedAway, server, bridge
<1>3. /\ wire[1] = Message("request", r) /\ 1 \in 1 .. Len(wire)
      /\ wire' \in Seq([type : Types, ask : Asks \cup {None}])
    <2>1. wire[1] = Message("request", r) /\ 1 \in 1 .. Len(wire)
        BY <1>1, <1>2, Shorter
    <2>2. wire' \in Seq([type : Types, ask : Asks \cup {None}])
        BY <1>1, <1>2, Shorter
    <2>3. QED
        BY <2>1, <2>2
<1>4. Untouched(r)
    BY <1>1, <1>3 DEF Lines
<1>5. Append(sent[r], "declined") = <<"declined">>
    BY <1>4 DEF Untouched
<1>6. sent' = [s \in Asks |-> sent'[s]] /\ sent'[r] = <<"declined">> /\ \A s \in Asks : s # r => sent'[s] = sent[s]
    BY <1>1, <1>2, <1>5 DEF Shapes
<1>7. Shapes'
    BY <1>1, <1>2, <1>3, <1>6 DEF Shapes
<1>8. \A s \in Asks : s # r => Prompt(s)' /\ (Untouched(s) => Untouched(s)')
    BY <1>1, <1>2, <1>6, Bystander
<1>9. Lines'
    BY <1>1, <1>2, <1>8, Read
<1>10. Prompt(r)'
    <2>1. r \notin parked' /\ r \notin armed' /\ r \notin open' /\ r \notin Unanswered' /\ r \notin noticed'
        BY <1>1, <1>2, <1>4 DEF Untouched, Unanswered, Prompt, Pending
    <2>2. told'[r] = "nothing" /\ reasons'[r] = 0
        BY <1>2, <1>4 DEF Untouched
    <2>3. QED
        BY <1>6, <2>1, <2>2 DEF Prompt, Pending, Told, Agrees, Answer, Awaited
<1>11. QED
    BY <1>7, <1>8, <1>9, <1>10 DEF PromptsInv

\* A request that is shown is unanswered, and the hub's to answer.
LEMMA ShownInv == ASSUME PromptsInv, NEW r \in Asks, Shown(r) PROVE PromptsInv'
<1>1. Shapes /\ Lines /\ \A s \in Asks : Prompt(s)
    BY DEF PromptsInv
<1>2. /\ Hears("request", r) /\ what[r] # "unfit"
      /\ open' = open \cup {r} /\ parked' = parked \cup {r}
      /\ answered' = [answered EXCEPT ![r] = "nothing"]
      /\ armed' = IF what[r] = "timed" THEN armed \cup {r} ELSE armed
      /\ UNCHANGED <<srv, what, child, sent, told, noticed, reasons>>
    BY DEF Shown, server
<1>3. /\ wire[1] = Message("request", r) /\ 1 \in 1 .. Len(wire)
      /\ wire' \in Seq([type : Types, ask : Asks \cup {None}])
    <2>1. wire[1] = Message("request", r) /\ 1 \in 1 .. Len(wire)
        BY <1>1, <1>2, Shorter
    <2>2. wire' \in Seq([type : Types, ask : Asks \cup {None}])
        BY <1>1, <1>2, Shorter
    <2>3. QED
        BY <2>1, <2>2
<1>4. Untouched(r)
    BY <1>1, <1>3 DEF Lines
<1>5. Shapes'
    BY <1>1, <1>2, <1>3 DEF Shapes
<1>6. ASSUME NEW s \in Asks, s # r PROVE Prompt(s)' /\ (Untouched(s) => Untouched(s)')
    <2>1. /\ s \in parked' <=> s \in parked
          /\ s \in open' <=> s \in open
          /\ s \in armed' <=> s \in armed
          /\ answered'[s] = answered[s]
        BY <1>1, <1>2, <1>6 DEF Shapes
    <2>2. s \in Unanswered' <=> s \in Unanswered
        BY <2>1 DEF Unanswered
    <2>3. Pending(s)'
        BY <1>1, <1>2, <2>1, <2>2 DEF Prompt, Pending, Agrees
    <2>4. Told(s)' /\ Answer(s)' /\ Awaited(s)'
        BY <1>1, <1>2, <2>1, <2>2 DEF Prompt, Told, Agrees, Answer, Awaited
    <2>5. Untouched(s) => Untouched(s)'
        BY <1>2, <2>1 DEF Untouched
    <2>6. QED
        BY <2>3, <2>4, <2>5 DEF Prompt
<1>7. Lines'
    BY <1>1, <1>2, <1>6, Read
<1>8. Prompt(r)'
    <2>1. r \in parked' /\ r \in open' /\ answered'[r] = "nothing" /\ r \in Unanswered' /\ r \notin noticed'
        BY <1>1, <1>2, <1>4 DEF Shapes, Untouched, Unanswered
    <2>2. told'[r] = "nothing" /\ reasons'[r] = 0 /\ sent'[r] = <<>> /\ (r \in armed' => what[r] = "timed")
        BY <1>1, <1>2, <1>4 DEF Untouched, Prompt, Pending
    <2>3. QED
        BY <1>2, <2>1, <2>2 DEF Prompt, Pending, Told, Agrees, Answer, Awaited
<1>9. QED
    BY <1>5, <1>6, <1>7, <1>8 DEF PromptsInv

\* What the server says to be over, the bridge takes back.
LEMMA OverInv ==
    ASSUME PromptsInv, (\E r \in Asks : HearsResolved(r) \/ HearsItem(r)) \/ HearsTurn
    PROVE  PromptsInv'
<1>1. Shapes /\ Lines /\ \A s \in Asks : Prompt(s)
    BY DEF PromptsInv
<1>2. ASSUME NEW type, type # "request", NEW a, Hears(type, a), NEW S \in SUBSET parked, Settle(S),
             UNCHANGED <<srv, what, child, sent, answered, noticed, reasons>>, open' \subseteq open,
             \A s \in Asks : s \in Unanswered \ S => s \in open',
             \A s \in Asks : s \in open' /\ srv[s] = "open" /\ what[s] # "form" => s \notin S
      PROVE  PromptsInv'
    <2> USE <1>1, <1>2
    <2>1. /\ told' \in [Asks -> Outcomes \cup {"nothing"}]
          /\ parked' \subseteq Asks /\ open' \subseteq Asks /\ armed' \subseteq Asks
          /\ \A s \in Asks : Untouched(s) => Untouched(s)'
          /\ \A s \in Asks : Prompt(s)'
        BY Settling
    <2>2. wire' \in Seq([type : Types, ask : Asks \cup {None}])
        BY Shorter
    <2>3. Shapes'
        BY <2>1, <2>2 DEF Shapes
    <2>4. Lines'
        BY <2>1, Read
    <2>5. QED
        BY <2>1, <2>3, <2>4 DEF PromptsInv
<1>3. \A s \in Asks : s \in Unanswered => s \in open
    BY <1>1 DEF Prompt, Pending
<1>4. ASSUME NEW r \in Asks, HearsResolved(r) PROVE PromptsInv'
    <2>1. /\ Hears("resolved", r) /\ Settle(parked \cap {r}) /\ open' = open \ {r}
          /\ UNCHANGED <<srv, what, child, sent, answered, noticed, reasons>>
        BY <1>4 DEF HearsResolved, server
    <2>2. \A s \in Asks : s \in Unanswered \ (parked \cap {r}) => s \in open'
        BY <1>3, <2>1 DEF Unanswered
    <2>3. QED
        BY <1>2, <2>1, <2>2
<1>5. ASSUME NEW r \in Asks, HearsItem(r) PROVE PromptsInv'
    <2>1. /\ Hears("item", r)
          /\ UNCHANGED <<srv, what, child, open, sent, answered, noticed, reasons>>
        BY <1>5 DEF HearsItem, server
    <2>2. PICK S \in SUBSET {s \in parked : OfTurn(s) /\ srv[s] = "over"} :
             Settle((parked \cap {r}) \cup S)
        BY <1>5 DEF HearsItem
    <2>3. wire[1] = Message("item", r) /\ 1 \in 1 .. Len(wire)
        BY <1>1, <2>1, Shorter
    <2>4. srv[r] = "over"
        BY <1>1, <2>3 DEF Lines
    <2>5. PICK T \in SUBSET parked :
             Settle(T) /\ \A s \in T : srv[s] = "over"
        BY <2>2, <2>4
    <2>6. QED
        BY <1>2, <1>3, <2>1, <2>5
<1>6. CASE HearsTurn
    <2> DEFINE S == {s \in parked : s \notin child \/ what[s] = "form"}
    <2>1. /\ Hears("turn", None) /\ Settle(S)
          /\ UNCHANGED <<srv, what, child, open, sent, answered, noticed, reasons>>
        BY <1>6 DEF HearsTurn, server
    <2>2. wire[1] = Message("turn", None) /\ 1 \in 1 .. Len(wire)
        BY <1>1, <2>1, Shorter
    <2>3. ASSUME NEW s \in Asks, s \in open', srv[s] = "open", what[s] # "form", s \in S PROVE FALSE
        <3>1. s \in parked /\ s \notin child /\ what[s] # "unfit"
            BY <1>1, <2>3 DEF Prompt, Pending
        <3>2. OfTurn(s)
            BY <1>1, <2>3, <3>1 DEF OfTurn, Shapes, Kinds
        <3>3. PICK j \in 1 .. Len(wire) : wire[j] = Message("request", s)
            BY <1>1, <2>2, <2>3, <3>2 DEF Lines, Message
        <3>4. QED
            BY <1>1, <3>1, <3>3 DEF Lines, Untouched
    <2>4. S \in SUBSET parked
        OBVIOUS
    <2> HIDE DEF S
    <2>5. QED
        BY <1>2, <1>3, <2>1, <2>3, <2>4
<1>7. QED
    BY <1>4, <1>5, <1>6

\* A loss, a switch and a close withdraw every prompt.
LEMMA WithdrawnInv == ASSUME PromptsInv, SwitchCancels \/ Disposed \/ ConnectionLost PROVE PromptsInv'
<1>1. Shapes /\ Lines /\ \A s \in Asks : Prompt(s)
    BY DEF PromptsInv
<1>2. CASE ConnectionLost
    <2>1. /\ Settle(parked) /\ open' = {} /\ wire' = <<>>
          /\ srv' = [r \in Asks |-> IF srv[r] = "open" THEN "over" ELSE srv[r]]
          /\ UNCHANGED <<what, child, sent, answered, noticed, reasons>>
        BY <1>2 DEF ConnectionLost
    <2>2. /\ told' \in [Asks -> Outcomes \cup {"nothing"}]
          /\ parked' \subseteq Asks /\ open' \subseteq Asks /\ armed' \subseteq Asks
          /\ \A s \in Asks : Untouched(s) => Untouched(s)'
          /\ \A s \in Asks : Prompt(s)'
        BY <1>1, <2>1, Settling DEF Unanswered
    <2>3. Shapes'
        BY <1>1, <2>1, <2>2 DEF Shapes
    <2>4. Len(wire') = 0
        BY <2>1
    <2>5. Lines'
        BY <1>1, <2>1, <2>2, <2>4 DEF Lines
    <2>6. QED
        BY <2>2, <2>3, <2>5 DEF PromptsInv
<1>3. CASE Withdraw
    <2>1. /\ sent' = [r \in Asks |->
                        IF r \in Unanswered \cap open THEN Append(sent[r], "withdrawn") ELSE sent[r]]
          /\ open' = open \ Unanswered /\ parked' = parked \ parked /\ armed' = armed \ parked
          /\ told' = [r \in Asks |-> IF r \in parked /\ what[r] \in Permissions THEN Outcome(r) ELSE told[r]]
          /\ UNCHANGED <<srv, what, child, wire, answered, noticed, reasons>>
        BY <1>3 DEF Withdraw, Settle, server
    <2>2. sent' = [s \in Asks |-> sent'[s]]
        BY <2>1
    <2>3. told' \in [Asks -> Outcomes \cup {"nothing"}]
        BY <1>1, <2>1 DEF Shapes, Outcome, Outcomes
    <2>4. Shapes'
        BY <1>1, <2>1, <2>2, <2>3 DEF Shapes
    <2>5. ASSUME NEW s \in Asks, Untouched(s) PROVE Untouched(s)'
        BY <2>1, <2>5 DEF Untouched, Unanswered
    <2>6. Lines'
        BY <1>1, <2>1, <2>5, Stays
    <2>7. ASSUME NEW s \in Asks PROVE Prompt(s)'
        <3>1. Prompt(s)
            BY <1>1
        <3>2. s \notin parked' /\ s \notin armed' /\ s \notin Unanswered'
            BY <2>1, <3>1 DEF Unanswered, Prompt, Pending
        <3>3. CASE s \in Unanswered
            <4>1. sent'[s] = <<"withdrawn">> /\ s \notin open' /\ s \notin noticed' /\ reasons'[s] = 0
                <5>1. sent[s] = <<>> /\ s \in open /\ s \notin noticed /\ reasons[s] = 0
                    BY <3>1, <3>3 DEF Prompt, Pending
                <5>2. sent'[s] = Append(<<>>, "withdrawn")
                    BY <2>1, <3>3, <5>1
                <5>3. QED
                    BY <2>1, <3>3, <5>1, <5>2
            <4>2. told'[s] \in {"cancelled", "nothing"}
                BY <2>1, <3>1, <3>3 DEF Unanswered, Outcome, Prompt, Pending
            <4>3. Told(s)' /\ Answer(s)'
                BY <4>1, <4>2 DEF Told, Agrees, Answer
            <4>4. QED
                BY <3>2, <4>1, <4>3 DEF Prompt, Pending, Awaited
        <3>4. CASE s \notin Unanswered
            <4>1. sent'[s] = sent[s] /\ noticed' = noticed /\ reasons' = reasons /\ what' = what
                BY <2>1, <3>4
            <4>2. Agrees(s, told'[s]) /\ (told'[s] = "cancelled" => sent[s] \in {<<>>, <<"withdrawn">>})
                <5>1. CASE s \in parked /\ what[s] \in Permissions
                    <6>1. told'[s] = answered[s]
                        BY <2>1, <3>4, <5>1 DEF Unanswered, Outcome
                    <6>2. QED
                        BY <3>1, <5>1, <6>1 DEF Prompt, Pending
                <5>2. CASE ~(s \in parked /\ what[s] \in Permissions)
                    <6>1. told'[s] = told[s]
                        BY <2>1, <5>2
                    <6>2. QED
                        BY <3>1, <6>1 DEF Prompt, Told
                <5>3. QED
                    BY <5>1, <5>2
            <4>3. Told(s)' /\ Answer(s)'
                BY <3>1, <4>1, <4>2 DEF Prompt, Told, Agrees, Answer
            <4>4. Awaited(s)'
                BY <2>1, <3>1, <3>4 DEF Prompt, Awaited
            <4>5. QED
                BY <3>2, <4>3, <4>4 DEF Prompt, Pending
        <3>5. QED
            BY <3>3, <3>4
    <2>8. QED
        BY <2>4, <2>6, <2>7 DEF PromptsInv
<1>4. QED
    BY <1>2, <1>3 DEF SwitchCancels, Disposed

\* The panel's and the link's own steps touch no prompt.
LEMMA ScreenInv ==
    ASSUME PromptsInv,
           UNCHANGED <<server, wire, open, sent, parked, answered, armed, told, noticed, reasons>>
    PROVE  PromptsInv'
<1>1. Shapes /\ Lines /\ \A s \in Asks : Prompt(s)
    BY DEF PromptsInv
<1>2. UNCHANGED <<srv, what, child, wire, open, sent, parked, answered, armed, told, noticed, reasons>>
    BY DEF server
<1>3. Shapes'
    BY <1>1, <1>2 DEF Shapes
<1>4. \A s \in Asks : Prompt(s)' /\ (Untouched(s) => Untouched(s)')
    BY <1>1, <1>2, Bystander
<1>5. Lines'
    BY <1>1, <1>2, <1>4, Stays
<1>6. QED
    BY <1>3, <1>4, <1>5 DEF PromptsInv

\* An answer that is recorded as what it sends keeps the invariant, whoever
\* gave it.
LEMMA AnsweredInv ==
    ASSUME PromptsInv, NEW r, NEW kinds, NEW outcome \in Outcomes, NEW said,
           Respond(r, kinds, outcome, said), UNCHANGED <<server, wire, parked, told>>,
           armed' \subseteq armed, r \notin armed' \/ kinds \subseteq Permissions,
           reasons' \in [Asks -> Nat], noticed' \subseteq Asks,
           \A s \in Asks : s # r \/ ~Takes(r, kinds) =>
               reasons'[s] = reasons[s] /\ (s \in noticed' <=> s \in noticed),
           Takes(r, kinds) =>
               /\ r \in noticed' => said = "auto"
               /\ reasons'[r] > 0 => reasons'[r] = 1 /\ said \in {"decline", "cancel"}
               /\ what[r] = "command" => said # "acceptForSession"
               /\ what[r] \in Permissions =>
                    \/ outcome = "once" /\ said = "accept"
                    \/ outcome = "always" /\ said = "acceptForSession"
                    \/ outcome = "rejected" /\ said \in {"decline", "cancel"}
    PROVE  PromptsInv'
<1>1. Shapes /\ Lines /\ \A s \in Asks : Prompt(s)
    BY DEF PromptsInv
<1>2. UNCHANGED <<srv, what, child, wire, parked, told>>
    BY DEF server
<1>3. /\ sent' = [s \in Asks |-> sent'[s]] /\ answered' \in [Asks -> Outcomes \cup {"nothing"}]
      /\ open' \subseteq Asks
      /\ \A s \in Asks : s # r \/ ~Takes(r, kinds) =>
            sent'[s] = sent[s] /\ answered'[s] = answered[s] /\ (s \in open' <=> s \in open)
      /\ Takes(r, kinds) =>
            /\ r \in Asks /\ r \in parked /\ what[r] \in kinds /\ answered[r] = "nothing"
            /\ r \notin noticed /\ reasons[r] = 0 /\ told[r] = "nothing"
            /\ sent'[r] = <<said>> /\ answered'[r] = outcome /\ r \notin open'
    BY <1>1, Responding
<1>4. Shapes'
    BY <1>1, <1>2, <1>3 DEF Shapes
<1>5. ASSUME NEW s \in Asks, s # r \/ ~Takes(r, kinds) PROVE Prompt(s)' /\ (Untouched(s) => Untouched(s)')
    <2>1. s \in armed' => s \in armed
        OBVIOUS
    <2>2. QED
        BY <1>1, <1>2, <1>3, <1>5, <2>1, Bystander
<1>6. ASSUME Takes(r, kinds) PROVE r \in Asks /\ Prompt(r)' /\ ~Untouched(r)
    <2>1. r \in Asks /\ r \in parked' /\ answered'[r] # "nothing" /\ r \notin Unanswered' /\ r \notin open'
        BY <1>2, <1>3, <1>6 DEF Unanswered, Outcomes
    <2>2. r \notin armed'
        <3>1. r \in armed => what[r] = "timed"
            BY <1>1, <2>1 DEF Prompt, Pending
        <3>2. QED
            BY <1>3, <1>6, <3>1 DEF Permissions
    <2>3. sent'[r] = <<said>> /\ answered'[r] = outcome /\ told'[r] = "nothing" /\ what'[r] = what[r]
        BY <1>2, <1>3, <1>6
    <2>4. what[r] # "unfit"
        BY <1>1, <1>2, <2>1 DEF Prompt, Pending
    <2>5. Pending(r)'
        BY <1>6, <2>1, <2>2, <2>3, <2>4 DEF Pending, Agrees
    <2>6. Told(r)' /\ Answer(r)'
        BY <1>6, <2>3 DEF Told, Agrees, Answer
    <2>7. QED
        BY <1>3, <1>6, <2>1, <2>5, <2>6 DEF Prompt, Awaited, Untouched
<1>7. \A s \in Asks : Prompt(s)' /\ (Untouched(s) => Untouched(s)')
    BY <1>5, <1>6
<1>8. Lines'
    BY <1>1, <1>2, <1>7, Stays
<1>9. QED
    BY <1>4, <1>7, <1>8 DEF PromptsInv

\* The timer answers a question, and says so.
LEMMA TimesOutInv == ASSUME PromptsInv, NEW r \in Asks, TimesOut(r) PROVE PromptsInv'
<1>1. Shapes /\ Prompt(r)
    BY DEF PromptsInv
<1>2. /\ armed' = armed \ {r} /\ noticed' = noticed \cup {r}
      /\ Respond(r, Questions, "once", "auto")
      /\ UNCHANGED <<server, wire, parked, told, reasons>>
    BY DEF TimesOut
<1>3. Takes(r, Questions)
    BY <1>1 DEF TimesOut, Prompt, Pending, Takes, Questions
<1>4. "once" \in Outcomes
    BY DEF Outcomes
<1>5. noticed' \subseteq Asks /\ reasons' \in [Asks -> Nat] /\ r \notin armed' /\ armed' \subseteq armed
    BY <1>1, <1>2 DEF Shapes
<1>6. reasons'[r] = 0 /\ what[r] \notin Permissions /\ what[r] # "command"
    BY <1>1, <1>2, <1>3 DEF Prompt, Pending, Takes, Questions, Permissions
<1>7. \A s \in Asks : s # r => reasons'[s] = reasons[s] /\ (s \in noticed' <=> s \in noticed)
    BY <1>2
<1>8. QED
    BY <1>2, <1>3, <1>4, <1>5, <1>6, <1>7, AnsweredInv

\* A questionnaire's answer is no permission.
LEMMA ReachesInv == ASSUME PromptsInv, NEW r \in Asks, Reaches(r) PROVE PromptsInv'
<1> DEFINE act == Head(due).act
<1> DEFINE outcome == CASE act = "good" -> "once" [] act = "decline" -> "rejected" [] OTHER -> "cancelled"
<1> DEFINE kinds == Questions \cup {"form"}
<1>1. Shapes /\ Prompt(r)
    BY DEF PromptsInv
<1>2. /\ armed' = armed \ {r} /\ Respond(r, kinds, outcome, act)
      /\ UNCHANGED <<server, wire, parked, told, noticed, reasons>>
    BY DEF Reaches
<1>3. outcome \in Outcomes
    BY DEF Outcomes
<1>4. Takes(r, kinds) => what[r] \notin Permissions /\ what[r] # "command" /\ r \notin noticed' /\ reasons'[r] = 0
    BY <1>1, <1>2 DEF Takes, Questions, Permissions, Prompt, Pending
<1>5. noticed' \subseteq Asks /\ reasons' \in [Asks -> Nat] /\ r \notin armed' /\ armed' \subseteq armed
    BY <1>1, <1>2 DEF Shapes
<1>6. \A s \in Asks : reasons'[s] = reasons[s] /\ (s \in noticed' <=> s \in noticed)
    BY <1>2
<1> HIDE DEF act, outcome, kinds
<1>7. QED
    BY <1>2, <1>3, <1>4, <1>5, <1>6, AnsweredInv

\* The user's decision is recorded as what is sent for it.
LEMMA DecidesInv ==
    ASSUME PromptsInv, NEW v \in {"once", "always", "reject", "explain"}, Decides(v)
    PROVE  PromptsInv'
<1> DEFINE r == Head(panel)
<1> DEFINE outcome == Recorded(r, v)
<1> DEFINE said == Decision(r, Chosen(r, v))
<1>1. Shapes /\ \A s \in Asks : Prompt(s)
    BY DEF PromptsInv
<1>2. /\ Respond(r, Permissions, outcome, said)
      /\ reasons' = [reasons EXCEPT ![r] = IF v = "explain" /\ Takes(r, Permissions) THEN @ + 1 ELSE @]
      /\ UNCHANGED <<server, wire, parked, armed, told, noticed>>
    BY DEF Decides
<1>3. outcome \in Outcomes
    BY DEF Recorded, Chosen, Outcomes
<1>4. Takes(r, Permissions) => r \in Asks /\ r \notin noticed' /\ reasons[r] = 0
    BY <1>1, <1>2 DEF Takes, Unanswered, Shapes, Prompt, Pending
<1>5. Takes(r, Permissions) => reasons'[r] \in {0, 1} /\ (reasons'[r] > 0 => v = "explain")
    BY <1>1, <1>2, <1>4 DEF Shapes
<1>6. /\ reasons' \in [Asks -> Nat]
      /\ \A s \in Asks : s # r \/ ~Takes(r, Permissions) => reasons'[s] = reasons[s]
    <2>1. reasons \in [Asks -> Nat]
        BY <1>1 DEF Shapes
    <2>2. CASE v = "explain" /\ Takes(r, Permissions)
        BY <1>2, <1>4, <2>1, <2>2
    <2>3. CASE ~(v = "explain" /\ Takes(r, Permissions))
        BY <1>2, <2>1, <2>3
    <2>4. QED
        BY <2>2, <2>3
<1>7. /\ v = "explain" => said \in {"decline", "cancel"}
      /\ what[r] = "command" => said # "acceptForSession"
      /\ \/ outcome = "once" /\ said = "accept"
         \/ outcome = "always" /\ said = "acceptForSession"
         \/ outcome = "rejected" /\ said \in {"decline", "cancel"}
    BY DEF Recorded, Chosen, Decision
<1>8. noticed' \subseteq Asks /\ armed' \subseteq armed
      /\ \A s \in Asks : (s \in noticed' <=> s \in noticed)
    BY <1>1, <1>2 DEF Shapes
<1> HIDE DEF r, outcome, said
<1>9. QED
    BY <1>2, <1>3, <1>4, <1>5, <1>6, <1>7, <1>8, AnsweredInv

-----------------------------------------------------------------------------
(* The theorems.                                                           *)

\* Every step keeps the invariant.
LEMMA NextInv == PromptsInv /\ [Next]_vars => PromptsInv'
<1> SUFFICES ASSUME PromptsInv, [Next]_vars PROVE PromptsInv'
    OBVIOUS
<1>1. CASE \E r \in Asks : ServerAsks(r) \/ ServerTakes(r) \/ ResolvedElsewhere(r)
    BY <1>1, ServerSteps
<1>2. CASE ServerEndsTurn
    BY <1>2, ServerSteps
<1>3. ASSUME NEW r \in Asks, Listens(r) PROVE PromptsInv'
    BY <1>3, TurnedAwayInv, ShownInv, OverInv DEF Listens
<1>4. CASE HearsTurn
    BY <1>4, OverInv
<1>5. ASSUME NEW r \in Asks, TimesOut(r) PROVE PromptsInv'
    BY <1>5, TimesOutInv
<1>6. CASE \E v \in {"once", "always", "reject", "explain"} : Decides(v)
    BY <1>6, DecidesInv
<1>7. ASSUME NEW r \in Asks, Reaches(r) PROVE PromptsInv'
    BY <1>7, ReachesInv
<1>8. CASE (\E a \in Acts : Answers(a)) \/ ComesTooLate \/ (\E r \in Asks : AsksAgain(r)) \/ Released
    BY <1>8, ScreenInv DEF Answers, ComesTooLate, AsksAgain, Released, bridge
<1>9. CASE SwitchCancels \/ Disposed \/ ConnectionLost
    BY <1>9, WithdrawnInv
<1>10. CASE UNCHANGED vars
    BY <1>10, ScreenInv DEF vars, bridge
<1>11. QED
    BY <1>1, <1>2, <1>3, <1>4, <1>5, <1>6, <1>7, <1>8, <1>9, <1>10 DEF Next, Continues

\* PromptsInv holds in every state, for any number of requests and rounds.
THEOREM PromptsInvariant == Spec => []PromptsInv
    BY InitInv, NextInv, PTL DEF Spec

\* What the user is told of a prompt, the notice of a timer's answer and the
\* reason he gave are what the server was sent.
THEOREM ToldTheTruth == Spec => []ToldIsSent
<1>1. PromptsInv => ToldIsSent
    BY DEF PromptsInv, Prompt, Told, Agrees, ToldIsSent
<1>2. QED
    BY <1>1, PromptsInvariant, PTL

\* A request the server waits for and the hub has not answered is parked; a
\* form aside, which its parent's turn takes away.
THEOREM AwaitedParked == Spec => []NoneForgotten
<1>1. PromptsInv => NoneForgotten
    BY DEF PromptsInv, Prompt, Awaited, Unanswered, NoneForgotten, Waiting
<1>2. QED
    BY <1>1, PromptsInvariant, PTL

\* A request is answered at most once, whoever answers first.
THEOREM AnsweredOnce == Spec => []OneAnswer
<1>1. PromptsInv => OneAnswer
    <2> SUFFICES ASSUME PromptsInv, NEW r \in Asks PROVE Len(sent[r]) <= 1
        BY DEF OneAnswer
    <2>1. sent[r] = <<>> \/ sent[r] = <<sent[r][1]>>
        BY DEF PromptsInv, Prompt, Answer
    <2>2. Len(<<>>) = 0 /\ \A a : Len(<<a>>) = 1
        OBVIOUS
    <2>3. Len(sent[r]) = 0 \/ Len(sent[r]) = 1
        BY ONLY <2>1, <2>2
    <2>4. 0 <= 1 /\ 1 <= 1
        OBVIOUS
    <2>5. CASE Len(sent[r]) = 0
        BY ONLY <2>4, <2>5, Zenon
    <2>6. CASE Len(sent[r]) = 1
        BY ONLY <2>4, <2>6, Zenon
    <2>7. QED
        BY ONLY <2>3, <2>5, <2>6, Zenon
<1>2. QED
    BY <1>1, PromptsInvariant, PTL

\* An allow-always that the prompt did not offer is never sent.
THEOREM OfferedOnly == Spec => []NeverMoreThanOffered
<1>1. PromptsInv => NeverMoreThanOffered
    <2> SUFFICES ASSUME PromptsInv, NEW r \in Asks, what[r] = "command", NEW i \in 1 .. Len(sent[r])
                 PROVE  sent[r][i] # "acceptForSession"
        BY DEF NeverMoreThanOffered
    <2>1. sent[r] # <<>> => sent[r] = <<sent[r][1]>> /\ sent[r][1] # "acceptForSession"
        BY DEF PromptsInv, Prompt, Answer
    <2>2. Len(<<>>) = 0 /\ \A a : Len(<<a>>) = 1
        OBVIOUS
    <2>3. sent[r] # <<>>
        BY <2>2
    <2>4. Len(sent[r]) = 1
        BY <2>1, <2>2, <2>3
    <2>5. i = 1
        BY <2>4
    <2>6. QED
        BY <2>1, <2>3, <2>5
<1>2. QED
    BY <1>1, PromptsInvariant, PTL

-----------------------------------------------------------------------------
(* What the panel shows.                                                   *)

\* A questionnaire of any round.
Asked == [ask : Asks, n : Nat]

\* The shape of the screen.
Screen ==
    /\ panel \in Seq(Asks) /\ sheet \in Seq(Asked) /\ round \in [Asks -> Nat]
    /\ links \subseteq Asked /\ due \in Seq([q : Asked, act : Acts])

\* A link is of a parked prompt, in its current round.
Linked == \A q \in links : q.ask \in parked /\ q = Sheet(q.ask) /\ what[q.ask] \notin Permissions

\* The stores hold a prompt once, and no questionnaire the link gave up.
Stored ==
    /\ IsInjective(panel) /\ IsInjective(sheet)
    /\ \A r \in ToSet(panel) : r \in parked /\ what[r] \in Permissions
    /\ ToSet(sheet) \subseteq links

\* A questionnaire that left the panel is of this round or an earlier one.
Left == \A d \in ToSet(due) : d.q \notin ToSet(sheet) /\ d.q.n <= round[d.q.ask]

\* What the user can still answer is there to be answered.
Covered(r) == \/ r \in ToSet(panel)
              \/ \E q \in ToSet(sheet) : q.ask = r
              \/ \E d \in ToSet(due) : d.q \in links /\ d.q.ask = r
Offered == ~released => \A r \in Unanswered : Covered(r)

PanelInv == Screen /\ Linked /\ Stored /\ Left /\ Offered

-----------------------------------------------------------------------------
(* Sequences as what they hold.                                            *)

\* Nothing is in an empty sequence.
LEMMA EmptySet == ToSet(<<>>) = {} /\ IsInjective(<<>>)
BY DEF ToSet, IsInjective

\* What an append adds.
LEMMA AppendSet ==
    ASSUME NEW D, NEW s \in Seq(D), NEW e \in D
    PROVE  /\ Append(s, e) \in Seq(D) /\ ToSet(Append(s, e)) = ToSet(s) \cup {e}
           /\ IsInjective(s) /\ e \notin ToSet(s) => IsInjective(Append(s, e))
<1>1. PICK t : t = Append(s, e)
    OBVIOUS
<1>2. /\ t \in Seq(D) /\ DOMAIN t = 1 .. Len(s) + 1 /\ DOMAIN s = 1 .. Len(s) /\ Len(s) \in Nat
      /\ t[Len(s) + 1] = e /\ \A k \in 1 .. Len(s) : t[k] = s[k]
    BY <1>1
<1>3. ToSet(t) \subseteq ToSet(s) \cup {e}
    <2> SUFFICES ASSUME NEW k \in DOMAIN t PROVE t[k] \in ToSet(s) \cup {e}
        BY DEF ToSet
    <2>1. k \in 1 .. Len(s) \/ k = Len(s) + 1
        BY <1>2
    <2>2. QED
        BY <1>2, <2>1 DEF ToSet
<1>4. ToSet(s) \cup {e} \subseteq ToSet(t)
    <2>1. \A k \in DOMAIN s : k \in DOMAIN t /\ t[k] = s[k]
        BY <1>2
    <2>2. Len(s) + 1 \in DOMAIN t
        BY <1>2
    <2>3. QED
        BY <1>2, <2>1, <2>2 DEF ToSet
<1>5. ASSUME IsInjective(s), e \notin ToSet(s) PROVE IsInjective(t)
    <2> SUFFICES ASSUME NEW j \in DOMAIN t, NEW k \in DOMAIN t, t[j] = t[k] PROVE j = k
        BY DEF IsInjective
    <2>1. \A i \in DOMAIN t : i \in DOMAIN s \/ i = Len(s) + 1
        BY <1>2
    <2>2. \A i \in DOMAIN s : t[i] = s[i] /\ t[i] # e
        BY <1>2, <1>5 DEF ToSet
    <2>3. QED
        BY <1>2, <1>5, <2>1, <2>2 DEF IsInjective
<1>6. QED
    BY <1>1, <1>2, <1>3, <1>4, <1>5

\* What the first of a sequence leaves.
LEMMA TailSet ==
    ASSUME NEW D, NEW s \in Seq(D), s # <<>>
    PROVE  /\ Head(s) \in D /\ Tail(s) \in Seq(D) /\ ToSet(s) = ToSet(Tail(s)) \cup {Head(s)}
           /\ IsInjective(s) => IsInjective(Tail(s)) /\ Head(s) \notin ToSet(Tail(s))
<1>1. PICK t : t = Tail(s)
    OBVIOUS
<1>2. /\ t \in Seq(D) /\ Head(s) \in D /\ Head(s) = s[1] /\ 1 \in DOMAIN s
      /\ DOMAIN t = 1 .. Len(s) - 1 /\ DOMAIN s = 1 .. Len(s) /\ Len(s) \in Nat
      /\ \A k \in 1 .. Len(s) - 1 : t[k] = s[k + 1]
    BY <1>1
<1>3. \A k \in DOMAIN t : k + 1 \in DOMAIN s /\ k + 1 # 1 /\ t[k] = s[k + 1]
    BY <1>2
<1>4. ToSet(s) \subseteq ToSet(t) \cup {Head(s)}
    <2> SUFFICES ASSUME NEW k \in DOMAIN s PROVE s[k] \in ToSet(t) \cup {Head(s)}
        BY DEF ToSet
    <2>1. CASE k = 1
        BY <1>2, <2>1
    <2>2. CASE k # 1
        <3>1. k - 1 \in DOMAIN t /\ (k - 1) + 1 = k
            BY <1>2, <2>2
        <3>2. t[k - 1] = s[k]
            BY <1>3, <3>1
        <3>3. QED
            BY <3>1, <3>2 DEF ToSet
    <2>3. QED
        BY <2>1, <2>2
<1>5. ToSet(t) \cup {Head(s)} \subseteq ToSet(s)
    BY <1>2, <1>3 DEF ToSet
<1>6. ASSUME IsInjective(s) PROVE IsInjective(t) /\ Head(s) \notin ToSet(t)
    <2>1. ASSUME NEW j \in DOMAIN t, NEW k \in DOMAIN t, t[j] = t[k] PROVE j = k
        <3>1. j + 1 = k + 1
            BY <1>3, <1>6, <2>1 DEF IsInjective
        <3>2. QED
            BY <1>2, <3>1
    <2>2. ASSUME NEW k \in DOMAIN t, t[k] = Head(s) PROVE FALSE
        BY <1>2, <1>3, <1>6, <2>2 DEF IsInjective
    <2>3. QED
        BY <2>1, <2>2 DEF IsInjective, ToSet
<1>7. QED
    BY <1>1, <1>2, <1>4, <1>5, <1>6

\* A non-empty set of numbers has a least one.
LEMMA LeastNumber ==
    ASSUME NEW S \in SUBSET Nat, S # {} PROVE \E n \in S : \A m \in S : n <= m
<1>1. IsWellFoundedOn({ss \in Nat \X Nat : ss[1] < ss[2]}, Nat)
    BY NatLessThanWellFounded DEF OpToRel
<1>2. PICK n \in S : \A m \in S : ~(<<m, n>> \in {ss \in Nat \X Nat : ss[1] < ss[2]})
    BY <1>1, WFMin
<1>3. \A m \in S : <<m, n>> \in Nat \X Nat /\ <<m, n>>[1] = m /\ <<m, n>>[2] = n
    OBVIOUS
<1>4. \A m \in S : ~(m < n)
    BY <1>2, <1>3
<1>5. QED
    BY <1>4

\* Induction, as a fact about a set.
LEMMA Induction ==
    ASSUME NEW S, 0 \in S, \A n \in Nat : n \in S => n + 1 \in S PROVE Nat \subseteq S
<1> SUFFICES ASSUME Nat \ S # {} PROVE FALSE
    OBVIOUS
<1>1. PICK n \in Nat \ S : \A m \in Nat \ S : n <= m
    BY LeastNumber
<1>2. n # 0 /\ n - 1 \in Nat
    BY <1>1
<1>3. n - 1 \in S
    BY <1>1, <1>2
<1>4. QED
    BY <1>1, <1>2, <1>3

\* What Kept builds, prefix by prefix.
KeptOf(q, S, f) ==
    \A k \in 0 .. Len(q) :
        f[k] = IF k = 0 THEN <<>>
               ELSE IF q[k] \in S THEN Append(f[k - 1], q[k]) ELSE f[k - 1]

\* Its recursion has a solution ...
LEMMA KeptExists ==
    ASSUME NEW D, NEW q \in Seq(D), NEW S
    PROVE  \E f : f = [k \in 0 .. Len(q) |->
                         IF k = 0 THEN <<>>
                         ELSE IF q[k] \in S THEN Append(f[k - 1], q[k]) ELSE f[k - 1]]
<1> DEFINE Solves(f, n) == f = [k \in 0 .. n |->
                         IF k = 0 THEN <<>>
                         ELSE IF q[k] \in S THEN Append(f[k - 1], q[k]) ELSE f[k - 1]]
           T == {n \in Nat : \E f : Solves(f, n)}
<1>1. 0 \in T
    <2>1. Solves([k \in 0 .. 0 |-> <<>>], 0)
        OBVIOUS
    <2>2. QED
        BY <2>1
<1>2. ASSUME NEW n \in Nat, n \in T PROVE n + 1 \in T
    <2>1. PICK f : Solves(f, n)
        BY <1>2
    <2> DEFINE g == [k \in 0 .. (n + 1) |-> IF k <= n THEN f[k]
                       ELSE IF q[k] \in S THEN Append(f[k - 1], q[k]) ELSE f[k - 1]]
    <2>2. \A k \in 0 .. n : f[k] = IF k = 0 THEN <<>>
                          ELSE IF q[k] \in S THEN Append(f[k - 1], q[k]) ELSE f[k - 1]
        BY <2>1
    <2>3. \A k \in 0 .. n : g[k] = f[k]
        OBVIOUS
    <2>4. g[n + 1] = IF q[n + 1] \in S THEN Append(g[n], q[n + 1]) ELSE g[n]
        OBVIOUS
    <2>5. \A k \in 0 .. (n + 1) : g[k] = IF k = 0 THEN <<>>
                          ELSE IF q[k] \in S THEN Append(g[k - 1], q[k]) ELSE g[k - 1]
        <3> HIDE DEF g
        <3> TAKE k \in 0 .. (n + 1)
        <3>1. CASE k = n + 1
            BY <3>1, <2>4
        <3>2. CASE k \in 1 .. n
            BY <3>2, <2>2, <2>3
        <3>3. CASE k = 0
            BY <3>3, <2>2, <2>3
        <3>4. QED
            BY <3>1, <3>2, <3>3
    <2>6. Solves(g, n + 1)
        <3> HIDE DEF g
        <3>1. g = [k \in 0 .. (n + 1) |-> g[k]]
            BY DEF g
        <3>2. [k \in 0 .. (n + 1) |-> g[k]] = [k \in 0 .. (n + 1) |-> IF k = 0 THEN <<>>
                          ELSE IF q[k] \in S THEN Append(g[k - 1], q[k]) ELSE g[k - 1]]
            BY <2>5
        <3>3. QED
            BY <3>1, <3>2
    <2>7. \E h : Solves(h, n + 1)
        <3> HIDE DEF Solves, g
        <3>1. QED
            BY <2>6
    <2>8. QED
        BY <2>7
<1>3. Nat \subseteq T
    <2> HIDE DEF T
    <2>1. QED
        BY <1>1, <1>2, Induction
<1>4. QED
    BY <1>3

\* ... which is what it builds ...
LEMMA KeptPrefixes ==
    ASSUME NEW D, NEW q \in Seq(D), NEW S
    PROVE  \E f : KeptOf(q, S, f) /\ Kept(q, S) = f[Len(q)]
<1> DEFINE F == CHOOSE f : f = [k \in 0 .. Len(q) |->
                         IF k = 0 THEN <<>>
                         ELSE IF q[k] \in S THEN Append(f[k - 1], q[k]) ELSE f[k - 1]]
<1>1. \E f : f = [k \in 0 .. Len(q) |->
                         IF k = 0 THEN <<>>
                         ELSE IF q[k] \in S THEN Append(f[k - 1], q[k]) ELSE f[k - 1]]
    BY KeptExists
<1>2. F = [k \in 0 .. Len(q) |->
                         IF k = 0 THEN <<>>
                         ELSE IF q[k] \in S THEN Append(F[k - 1], q[k]) ELSE F[k - 1]]
    BY <1>1
<1>3. Kept(q, S) = F[Len(q)]
    BY DEF Kept
<1>4. KeptOf(q, S, F)
    <2> HIDE DEF F
    <2>1. QED
        BY <1>2 DEF KeptOf
<1>5. QED
    BY <1>3, <1>4

\* ... and whose value at k holds what is in S of the first k.
KeptUpTo(D, q, S, g, k) ==
    /\ g \in Seq(D) /\ ToSet(g) = {q[i] : i \in 1 .. k} \cap S
    /\ IsInjective(q) => IsInjective(g)

\* What Kept leaves of a sequence.
LEMMA KeptSet ==
    ASSUME NEW D, NEW q \in Seq(D), NEW S
    PROVE  /\ Kept(q, S) \in Seq(D) /\ ToSet(Kept(q, S)) = ToSet(q) \cap S
           /\ IsInjective(q) => IsInjective(Kept(q, S))
<1>1. PICK f : KeptOf(q, S, f) /\ Kept(q, S) = f[Len(q)]
    BY KeptPrefixes
<1> DEFINE T == {k \in Nat : k <= Len(q) => KeptUpTo(D, q, S, f[k], k)}
<1>2. 0 \in T
    <2>1. f[0] = <<>>
        BY <1>1 DEF KeptOf
    <2>2. KeptUpTo(D, q, S, <<>>, 0)
        BY EmptySet DEF KeptUpTo
    <2>3. QED
        BY <2>1, <2>2
<1>3. ASSUME NEW k \in Nat, k \in T PROVE k + 1 \in T
    <2>1. PICK m : m = k + 1
        OBVIOUS
    <2> SUFFICES ASSUME m <= Len(q) PROVE KeptUpTo(D, q, S, f[m], m)
        BY <2>1
    <2>2. KeptUpTo(D, q, S, f[k], k)
        BY <1>3, <2>1
    <2>3. m \in 1 .. Len(q) /\ m - 1 = k /\ m \in DOMAIN q /\ q[m] \in D
        BY <2>1
    <2>4. {q[i] : i \in 1 .. m} = {q[i] : i \in 1 .. k} \cup {q[m]}
        <3>1. \A i \in 1 .. m : i \in 1 .. k \/ i = m
            BY <2>3
        <3>2. m \in 1 .. m /\ \A i \in 1 .. k : i \in 1 .. m
            BY <2>3
        <3>3. QED
            BY <3>1, <3>2
    <2>5. f[m] = IF q[m] \in S THEN Append(f[k], q[m]) ELSE f[k]
        BY <1>1, <2>3 DEF KeptOf
    <2>6. CASE q[m] \notin S
        <3>1. {q[i] : i \in 1 .. m} \cap S = {q[i] : i \in 1 .. k} \cap S
            BY <2>4, <2>6
        <3>2. QED
            BY <2>2, <2>5, <2>6, <3>1 DEF KeptUpTo
    <2>7. CASE q[m] \in S
        <3>1. PICK g : g = f[k]
            OBVIOUS
        <3>2. g \in Seq(D) /\ f[m] = Append(g, q[m]) /\ ToSet(g) = {q[i] : i \in 1 .. k} \cap S
            BY <2>2, <2>5, <2>7, <3>1 DEF KeptUpTo
        <3>3. /\ Append(g, q[m]) \in Seq(D) /\ ToSet(Append(g, q[m])) = ToSet(g) \cup {q[m]}
              /\ IsInjective(g) /\ q[m] \notin ToSet(g) => IsInjective(Append(g, q[m]))
            BY <2>3, <3>2, AppendSet
        <3>4. {q[i] : i \in 1 .. m} \cap S = ({q[i] : i \in 1 .. k} \cap S) \cup {q[m]}
            BY <2>4, <2>7
        <3>5. ASSUME IsInjective(q) PROVE q[m] \notin ToSet(g)
            <4>1. \A i \in 1 .. k : i \in DOMAIN q /\ i # m
                BY <2>3
            <4>2. QED
                BY <2>3, <3>2, <3>5, <4>1 DEF IsInjective
        <3>6. IsInjective(q) => IsInjective(g)
            BY <2>2, <3>1 DEF KeptUpTo
        <3>7. QED
            BY <3>2, <3>3, <3>4, <3>5, <3>6 DEF KeptUpTo
    <2>8. QED
        BY <2>6, <2>7
<1>4. KeptUpTo(D, q, S, f[Len(q)], Len(q))
    <2>1. Nat \subseteq T
        <3> HIDE DEF T
        <3>1. QED
            BY <1>2, <1>3, Induction
    <2>2. QED
        BY <2>1
<1>5. PICK g : g = Kept(q, S) /\ g = f[Len(q)]
    BY <1>1
<1>6. KeptUpTo(D, q, S, g, Len(q))
    BY <1>4, <1>5
<1>7. ToSet(q) = {q[i] : i \in 1 .. Len(q)}
    BY DEF ToSet
<1>8. QED
    BY <1>5, <1>6, <1>7 DEF KeptUpTo

-----------------------------------------------------------------------------
(* The steps, seen from the screen.                                        *)

\* Nothing is shown yet.
LEMMA InitPanel == Init => PanelInv
<1> SUFFICES ASSUME Init PROVE PanelInv
    OBVIOUS
<1>1. Screen
    BY DEF Init, Screen, Asked
<1>2. Linked /\ Stored /\ Left
    BY EmptySet DEF Init, Linked, Stored, Left
<1>3. Offered
    BY DEF Init, Offered, Unanswered
<1>4. QED
    BY <1>1, <1>2, <1>3 DEF PanelInv

\* A step that leaves the screen and the prompts alone; what is answered is
\* awaited no more.
LEMMA PanelStays ==
    ASSUME PanelInv, UNCHANGED <<parked, round, screen, released>>,
           \A r \in parked : what'[r] = what[r], Unanswered' \subseteq Unanswered,
           parked \subseteq Asks
    PROVE  PanelInv'
<1>1. Screen /\ Linked /\ Stored /\ Left /\ Offered
    BY DEF PanelInv
<1>2. UNCHANGED <<panel, sheet, links, due>>
    BY DEF screen
<1>3. Screen' /\ Left'
    BY <1>1, <1>2 DEF Screen, Left
<1>4. Linked'
    BY <1>1, <1>2 DEF Linked, Sheet
<1>5. Stored'
    BY <1>1, <1>2 DEF Stored
<1>6. Offered'
    BY <1>1, <1>2 DEF Offered, Covered
<1>7. QED
    BY <1>3, <1>4, <1>5, <1>6 DEF PanelInv

\* A settlement takes its prompts back, and no other.
LEMMA PanelSettled ==
    ASSUME PanelInv, NEW S, Settle(S), UNCHANGED <<what, answered, round, due, released>>
    PROVE  PanelInv'
<1>1. Screen /\ Linked /\ Stored /\ Left /\ Offered
    BY DEF PanelInv
<1>2. parked' = parked \ S /\ links' = {q \in links : q.ask \notin S}
    BY DEF Settle
<1>3. panel' \in Seq(Asks) /\ ToSet(panel') = ToSet(panel) \cap (Asks \ S) /\ IsInjective(panel')
    BY <1>1, KeptSet DEF Screen, Stored, Settle
<1>4. sheet' \in Seq(Asked) /\ ToSet(sheet') = ToSet(sheet) \cap Of(Asks \ S) /\ IsInjective(sheet')
    BY <1>1, KeptSet DEF Screen, Stored, Settle
<1>5. ToSet(panel) \subseteq Asks
    BY <1>1 DEF Screen, ToSet
<1>6. \A q \in ToSet(sheet) : q \in links /\ q.ask \in Asks
    BY <1>1 DEF Screen, Stored, Asked
<1>7. \A q : q \in ToSet(sheet') <=> q \in ToSet(sheet) /\ q.ask \notin S
    BY <1>4, <1>6 DEF Of
<1>8. \A r : r \in ToSet(panel') <=> r \in ToSet(panel) /\ r \notin S
    BY <1>3, <1>5
<1>9. Screen'
    BY <1>1, <1>2, <1>3, <1>4 DEF Screen
<1>10. Linked'
    BY <1>1, <1>2 DEF Linked, Sheet
<1>11. Stored'
    BY <1>1, <1>2, <1>3, <1>4, <1>7, <1>8 DEF Stored
<1>12. Left'
    BY <1>1, <1>7 DEF Left
<1>13. Offered'
    <2> SUFFICES ASSUME ~released, NEW r \in Unanswered' PROVE Covered(r)'
        BY DEF Offered
    <2>1. r \in Unanswered /\ r \notin S
        BY <1>2 DEF Unanswered
    <2>2. Covered(r)
        BY <1>1, <2>1 DEF Offered
    <2>3. QED
        BY <1>2, <1>7, <1>8, <2>1, <2>2 DEF Covered
<1>14. QED
    BY <1>9, <1>10, <1>11, <1>12, <1>13 DEF PanelInv

\* A request that is shown is shown once, and covers itself.
LEMMA PanelShown == ASSUME PromptsInv, PanelInv, NEW r \in Asks, Shown(r) PROVE PanelInv'
<1> DEFINE q == [ask |-> r, n |-> 0]
<1>1. Screen /\ Linked /\ Stored /\ Left /\ Offered
    BY DEF PanelInv
<1>2. /\ Hears("request", r) /\ due = <<>> /\ due' = due /\ UNCHANGED <<what, released>>
      /\ parked' = parked \cup {r} /\ answered' = [answered EXCEPT ![r] = "nothing"]
      /\ round' = [round EXCEPT ![r] = 0]
      /\ panel' = IF ~released /\ what[r] \in Permissions THEN Append(panel, r) ELSE panel
      /\ sheet' = IF ~released /\ what[r] \notin Permissions THEN Append(sheet, q) ELSE sheet
      /\ links' = IF ~released /\ what[r] \notin Permissions THEN links \cup {q} ELSE links
    BY DEF Shown, Hears, Quiet, server, life
<1>3. r \notin parked
    <2>1. Shapes /\ Lines
        BY DEF PromptsInv
    <2>2. wire[1] = Message("request", r) /\ 1 \in 1 .. Len(wire)
        BY <1>2, <2>1, Shorter
    <2>3. QED
        BY <2>1, <2>2 DEF Lines, Untouched
<1>4. q \in Asked /\ q.ask = r /\ q.n = 0
    BY DEF Asked
<1>5. r \notin ToSet(panel) /\ \A p \in links : p.ask # r
    BY <1>1, <1>3 DEF Stored, Linked
<1>6. q \notin links /\ q \notin ToSet(sheet)
    BY <1>1, <1>4, <1>5 DEF Stored
<1> HIDE DEF q
<1>7. /\ panel' \in Seq(Asks) /\ IsInjective(panel')
      /\ ToSet(panel') = IF ~released /\ what[r] \in Permissions THEN ToSet(panel) \cup {r} ELSE ToSet(panel)
    <2>1. panel \in Seq(Asks) /\ IsInjective(panel)
        BY <1>1 DEF Screen, Stored
    <2>2. /\ Append(panel, r) \in Seq(Asks) /\ ToSet(Append(panel, r)) = ToSet(panel) \cup {r}
          /\ IsInjective(Append(panel, r))
        BY <1>5, <2>1, AppendSet
    <2>3. QED
        BY <1>2, <2>1, <2>2
<1>8. /\ sheet' \in Seq(Asked) /\ IsInjective(sheet')
      /\ ToSet(sheet') = IF ~released /\ what[r] \notin Permissions THEN ToSet(sheet) \cup {q} ELSE ToSet(sheet)
    BY <1>1, <1>2, <1>4, <1>6, AppendSet DEF Screen, Stored
<1>9. round' \in [Asks -> Nat] /\ round'[r] = 0 /\ \A s \in Asks : s # r => round'[s] = round[s]
    BY <1>1, <1>2 DEF Screen
<1>10. Screen'
    BY <1>1, <1>2, <1>4, <1>7, <1>8, <1>9 DEF Screen
<1>11. Linked'
    <2> SUFFICES ASSUME NEW p \in links' PROVE p.ask \in parked' /\ p = Sheet(p.ask)' /\ what'[p.ask] \notin Permissions
        BY DEF Linked
    <2>1. CASE p \in links
        <3>1. p.ask \in Asks /\ p.ask # r
            BY <1>1, <1>5, <2>1 DEF Screen, Asked
        <3>2. QED
            BY <1>1, <1>2, <1>9, <2>1, <3>1 DEF Linked, Sheet
    <2>2. CASE p = q /\ what[r] \notin Permissions
        BY <1>2, <1>9, <2>2 DEF q, Sheet
    <2>3. QED
        BY <1>2, <2>1, <2>2
<1>12. Stored'
    BY <1>1, <1>2, <1>7, <1>8 DEF Stored
<1>13. Left'
    BY <1>2, EmptySet DEF Left
<1>14. Offered'
    <2> SUFFICES ASSUME ~released, NEW s \in Unanswered' PROVE Covered(s)'
        BY <1>2 DEF Offered
    <2>1. CASE s = r
        BY <1>4, <1>7, <1>8, <2>1 DEF Covered
    <2>2. CASE s # r
        <3>1. s \in parked /\ answered[s] = answered'[s]
            BY <1>2, <2>2 DEF Unanswered
        <3>2. Covered(s)
            BY <1>1, <3>1 DEF Offered, Unanswered
        <3>3. QED
            BY <1>2, <1>7, <1>8, <3>2 DEF Covered
    <2>3. QED
        BY <2>1, <2>2
<1>15. QED
    BY <1>10, <1>11, <1>12, <1>13, <1>14 DEF PanelInv

\* The user's decision leaves the panel and is taken, or was not awaited.
LEMMA PanelDecides ==
    ASSUME PromptsInv, PanelInv, NEW v \in {"once", "always", "reject", "explain"}, Decides(v)
    PROVE  PanelInv'
<1> DEFINE r == Head(panel)
<1> DEFINE outcome == Recorded(r, v)
<1> DEFINE said == Decision(r, Chosen(r, v))
<1>1. Screen /\ Linked /\ Stored /\ Left /\ Offered
    BY DEF PanelInv
<1>2. /\ panel # <<>> /\ panel' = Tail(panel) /\ Respond(r, Permissions, outcome, said)
      /\ UNCHANGED <<parked, round, sheet, links, due, what, released>>
    BY DEF Decides, server, life
<1>3. /\ r \in Asks /\ panel' \in Seq(Asks) /\ ToSet(panel) = ToSet(panel') \cup {r}
      /\ IsInjective(panel') /\ r \notin ToSet(panel')
    BY <1>1, <1>2, TailSet DEF Screen, Stored
<1>4. outcome \in Outcomes
    BY DEF Recorded, Chosen, Outcomes
<1> HIDE DEF r, outcome, said
<1>5. r \in parked /\ what[r] \in Permissions
    BY <1>1, <1>3 DEF Stored
<1>6. \A s \in Asks : s \in Unanswered' => s \in Unanswered /\ s # r
    <2>1. /\ \A s \in Asks : s # r \/ ~Takes(r, Permissions) => answered'[s] = answered[s]
          /\ Takes(r, Permissions) => answered'[r] = outcome
        BY <1>2, <1>4, Responding DEF PromptsInv
    <2>2. outcome # "nothing"
        BY <1>4 DEF Outcomes
    <2>3. QED
        BY <1>2, <1>5, <2>1, <2>2 DEF Takes, Unanswered
<1>7. Screen' /\ Left'
    BY <1>1, <1>2, <1>3 DEF Screen, Left
<1>8. Linked' /\ Stored'
    BY <1>1, <1>2, <1>3 DEF Linked, Stored, Sheet
<1>9. Offered'
    <2> SUFFICES ASSUME ~released, NEW s \in Unanswered' PROVE Covered(s)'
        BY <1>2 DEF Offered
    <2>1. s \in Asks
        BY <1>2 DEF Unanswered, PromptsInv, Shapes
    <2>2. Covered(s) /\ s # r
        BY <1>1, <1>6, <2>1 DEF Offered
    <2>3. QED
        BY <1>2, <1>3, <2>2 DEF Covered
<1>10. QED
    BY <1>7, <1>8, <1>9 DEF PanelInv

\* A questionnaire that leaves the panel is on its way.
LEMMA PanelAnswers == ASSUME PanelInv, NEW act \in Acts, Answers(act) PROVE PanelInv'
<1> DEFINE q == Head(sheet)
<1> DEFINE d == [q |-> q, act |-> act]
<1>1. Screen /\ Linked /\ Stored /\ Left /\ Offered
    BY DEF PanelInv
<1>2. /\ sheet # <<>> /\ sheet' = Tail(sheet) /\ due' = Append(due, d)
      /\ UNCHANGED <<parked, answered, round, panel, links, what, released>>
    BY DEF Answers, server, life, bridge
<1>3. /\ q \in Asked /\ sheet' \in Seq(Asked) /\ ToSet(sheet) = ToSet(sheet') \cup {q}
      /\ IsInjective(sheet') /\ q \notin ToSet(sheet')
    BY <1>1, <1>2, TailSet DEF Screen, Stored
<1>4. d \in [q : Asked, act : Acts] /\ d.q = q
    BY <1>3
<1> HIDE DEF q, d
<1>5. due' \in Seq([q : Asked, act : Acts]) /\ ToSet(due') = ToSet(due) \cup {d}
    <2>1. PICK D : D = [q : Asked, act : Acts]
        OBVIOUS
    <2>2. due \in Seq(D) /\ d \in D
        BY <1>1, <1>4, <2>1 DEF Screen
    <2>3. Append(due, d) \in Seq(D) /\ ToSet(Append(due, d)) = ToSet(due) \cup {d}
        BY <2>2, AppendSet
    <2>4. QED
        BY <1>2, <2>1, <2>3
<1>6. q \in links /\ q = Sheet(q.ask) /\ q.ask \in Asks
    BY <1>1, <1>3 DEF Stored, Linked, Asked
<1>7. q.n <= round[q.ask]
    <2>1. q.n = round[q.ask] /\ round[q.ask] \in Nat
        <3>1. PICK a \in Asks : a = q.ask
            BY <1>6
        <3>2. q = [ask |-> a, n |-> round[a]]
            BY <1>6, <3>1 DEF Sheet
        <3>3. QED
            BY <1>1, <3>1, <3>2 DEF Screen
    <2>2. QED
        BY <2>1
<1>8. Screen'
    BY <1>1, <1>2, <1>3, <1>5 DEF Screen
<1>9. Linked' /\ Stored'
    BY <1>1, <1>2, <1>3 DEF Linked, Stored, Sheet
<1>10. Left'
    <2> SUFFICES ASSUME NEW e \in ToSet(due') PROVE e.q \notin ToSet(sheet') /\ e.q.n <= round'[e.q.ask]
        BY DEF Left
    <2>1. CASE e \in ToSet(due)
        BY <1>1, <1>2, <1>3, <2>1 DEF Left
    <2>2. CASE e = d
        BY <1>2, <1>3, <1>4, <1>7, <2>2
    <2>3. QED
        BY <1>5, <2>1, <2>2
<1>11. Offered'
    <2> SUFFICES ASSUME ~released, NEW s \in Unanswered' PROVE Covered(s)'
        BY <1>2 DEF Offered
    <2>1. Covered(s)
        BY <1>1, <1>2 DEF Offered, Unanswered
    <2>2. d \in ToSet(due') /\ \A e \in ToSet(due) : e \in ToSet(due')
        BY <1>5
    <2>3. QED
        BY <1>2, <1>3, <1>4, <1>6, <2>1, <2>2 DEF Covered
<1>12. QED
    BY <1>8, <1>9, <1>10, <1>11 DEF PanelInv

\* What a continuation finds and leaves.
LEMMA Continued ==
    ASSUME Screen, due # <<>>, due' = Tail(due)
    PROVE  /\ Head(due) \in [q : Asked, act : Acts] /\ due' \in Seq([q : Asked, act : Acts])
           /\ ToSet(due) = ToSet(due') \cup {Head(due)}
BY TailSet DEF Screen

\* A continuation that comes too late covered nothing.
LEMMA PanelTooLate == ASSUME PanelInv, ComesTooLate PROVE PanelInv'
<1>1. Screen /\ Linked /\ Stored /\ Left /\ Offered
    BY DEF PanelInv
<1>2. /\ due # <<>> /\ due' = Tail(due) /\ Head(due).q \notin links
      /\ UNCHANGED <<parked, answered, round, panel, sheet, links, what, released>>
    BY DEF ComesTooLate, server, life, bridge
<1>3. /\ due' \in Seq([q : Asked, act : Acts])
      /\ ToSet(due) = ToSet(due') \cup {Head(due)}
    BY <1>1, <1>2, Continued
<1>4. Screen' /\ Left'
    BY <1>1, <1>2, <1>3 DEF Screen, Left
<1>5. Linked' /\ Stored'
    BY <1>1, <1>2 DEF Linked, Stored, Sheet
<1>6. Offered'
    BY <1>1, <1>2, <1>3 DEF Offered, Covered, Unanswered
<1>7. QED
    BY <1>4, <1>5, <1>6 DEF PanelInv

\* An answer that reaches the bridge is taken, or was not awaited.
LEMMA PanelReaches == ASSUME PromptsInv, PanelInv, NEW r \in Asks, Reaches(r) PROVE PanelInv'
<1> DEFINE h == Head(due)
<1> DEFINE outcome == CASE h.act = "good" -> "once" [] h.act = "decline" -> "rejected" [] OTHER -> "cancelled"
<1> DEFINE kinds == Questions \cup {"form"}
<1>1. Screen /\ Linked /\ Stored /\ Left /\ Offered
    BY DEF PanelInv
<1>2. /\ due # <<>> /\ due' = Tail(due) /\ h.q \in links /\ h.q.ask = r /\ links' = links \ {h.q}
      /\ Respond(r, kinds, outcome, h.act)
      /\ UNCHANGED <<parked, round, panel, sheet, what, released>>
    BY DEF Reaches, server, life
<1>3. /\ due' \in Seq([q : Asked, act : Acts]) /\ h \in ToSet(due)
      /\ ToSet(due) = ToSet(due') \cup {h}
    BY <1>1, <1>2, Continued
<1>4. outcome \in Outcomes /\ outcome # "nothing"
    BY DEF Outcomes
<1> HIDE DEF h, outcome
<1>5. r \in parked /\ what[r] \in kinds
    <2>1. r \in parked /\ what[r] \notin Permissions
        BY <1>1, <1>2 DEF Linked
    <2>2. what[r] # "unfit" /\ what[r] \in Kinds
        BY <2>1 DEF PromptsInv, Shapes, Prompt, Pending
    <2>3. QED
        BY <2>1, <2>2 DEF Kinds
<1> HIDE DEF kinds
<1>6. \A s \in Asks : s \in Unanswered' => s \in Unanswered /\ s # r
    <2>1. /\ \A s \in Asks : s # r \/ ~Takes(r, kinds) => answered'[s] = answered[s]
          /\ Takes(r, kinds) => answered'[r] = outcome
        BY <1>2, <1>4, Responding DEF PromptsInv
    <2>2. QED
        BY <1>2, <1>4, <1>5, <2>1 DEF Takes, Unanswered
<1>7. h.q \notin ToSet(sheet)
    BY <1>1, <1>3 DEF Left
<1>8. Screen' /\ Left'
    BY <1>1, <1>2, <1>3 DEF Screen, Left
<1>9. Linked' /\ Stored'
    BY <1>1, <1>2, <1>7 DEF Linked, Stored, Sheet
<1>10. Offered'
    <2> SUFFICES ASSUME ~released, NEW s \in Unanswered' PROVE Covered(s)'
        BY <1>2 DEF Offered
    <2>1. s \in Asks
        BY <1>2 DEF Unanswered, PromptsInv, Shapes
    <2>2. Covered(s) /\ s # r
        BY <1>1, <1>6, <2>1 DEF Offered
    <2>3. ASSUME NEW e \in ToSet(due), e.q \in links, e.q.ask = s PROVE e \in ToSet(due') /\ e.q \in links'
        BY <1>2, <1>3, <2>2, <2>3
    <2>4. QED
        BY <1>2, <2>2, <2>3 DEF Covered
<1>11. QED
    BY <1>8, <1>9, <1>10 DEF PanelInv

\* A form that is asked again is in its new round, and its old one is gone.
LEMMA PanelAsksAgain == ASSUME PanelInv, NEW r \in Asks, AsksAgain(r) PROVE PanelInv'
<1> DEFINE h == Head(due)
<1> DEFINE q == [ask |-> r, n |-> round[r] + 1]
<1>1. Screen /\ Linked /\ Stored /\ Left /\ Offered
    BY DEF PanelInv
<1>2. /\ due # <<>> /\ due' = Tail(due) /\ h.q \in links /\ h.q.ask = r
      /\ links' = (links \ {h.q}) \cup {q} /\ sheet' = Append(sheet, q)
      /\ round' = [round EXCEPT ![r] = @ + 1]
      /\ UNCHANGED <<parked, answered, panel, what, released>>
    BY DEF AsksAgain, server, life
<1>3. /\ due' \in Seq([q : Asked, act : Acts]) /\ h \in ToSet(due)
      /\ ToSet(due) = ToSet(due') \cup {h}
    BY <1>1, <1>2, Continued
<1>4. round' \in [Asks -> Nat] /\ round'[r] = round[r] + 1 /\ \A s \in Asks : s # r => round'[s] = round[s]
    BY <1>1, <1>2 DEF Screen
<1>5. q \in Asked /\ q.ask = r /\ q.n = round[r] + 1 /\ round[r] \in Nat
    BY <1>1 DEF Screen, Asked
<1> HIDE DEF h
<1>6. h.q \notin ToSet(sheet) /\ h.q = Sheet(r) /\ r \in parked /\ what[r] \notin Permissions
    BY <1>1, <1>2, <1>3 DEF Left, Linked
<1>7. \A p \in links : p.ask = r => p = h.q
    BY <1>1, <1>6 DEF Linked
<1>8. \A p \in ToSet(sheet) : p \in links /\ p.ask # r
    BY <1>1, <1>6, <1>7 DEF Stored
<1>9. q \notin ToSet(sheet)
    BY <1>5, <1>8
<1>10. q = Sheet(r)'
    BY <1>4 DEF Sheet
<1> HIDE DEF q
<1>11. /\ sheet' \in Seq(Asked) /\ IsInjective(sheet') /\ ToSet(sheet') = ToSet(sheet) \cup {q}
    BY <1>1, <1>2, <1>5, <1>9, AppendSet DEF Screen, Stored
<1>12. Screen'
    BY <1>1, <1>2, <1>3, <1>4, <1>5, <1>11 DEF Screen
<1>13. Linked'
    <2> SUFFICES ASSUME NEW p \in links' PROVE p.ask \in parked /\ p = Sheet(p.ask)' /\ what[p.ask] \notin Permissions
        BY <1>2 DEF Linked
    <2>1. CASE p = q
        BY <1>5, <1>6, <1>10, <2>1
    <2>2. CASE p \in links /\ p # h.q
        <3>1. p.ask \in Asks /\ p.ask # r
            BY <1>1, <1>7, <2>2 DEF Screen, Asked
        <3>2. p.ask \in parked /\ p = Sheet(p.ask) /\ what[p.ask] \notin Permissions
            BY <1>1, <2>2 DEF Linked
        <3>3. QED
            BY <1>4, <3>1, <3>2 DEF Sheet
    <2>3. QED
        BY <1>2, <2>1, <2>2
<1>14. Stored'
    BY <1>1, <1>2, <1>6, <1>8, <1>11 DEF Stored
<1>15. Left'
    <2> SUFFICES ASSUME NEW e \in ToSet(due') PROVE e.q \notin ToSet(sheet') /\ e.q.n <= round'[e.q.ask]
        BY DEF Left
    <2>1. e \in ToSet(due) /\ e.q \in Asked
        <3>1. PICK D : D = [q : Asked, act : Acts]
            OBVIOUS
        <3>2. due \in Seq(D) /\ e \in ToSet(due)
            BY <1>1, <1>3, <3>1 DEF Screen
        <3>3. e \in D
            BY <3>2 DEF ToSet
        <3>4. QED
            BY <3>1, <3>2, <3>3
    <2>2. e.q \notin ToSet(sheet) /\ e.q.n <= round[e.q.ask] /\ e.q.n \in Nat /\ e.q.ask \in Asks
        BY <1>1, <2>1 DEF Left, Asked
    <2>3. CASE e.q.ask = r
        <3>1. e.q.n < q.n /\ e.q.n <= round'[r]
            BY <1>4, <1>5, <2>2, <2>3
        <3>2. QED
            BY <1>5, <1>11, <2>2, <2>3, <3>1
    <2>4. CASE e.q.ask # r
        BY <1>4, <1>5, <1>11, <2>2, <2>4
    <2>5. QED
        BY <2>3, <2>4
<1>16. Offered'
    <2> SUFFICES ASSUME ~released, NEW s \in Unanswered' PROVE Covered(s)'
        BY <1>2 DEF Offered
    <2>1. Covered(s)
        BY <1>1, <1>2 DEF Offered, Unanswered
    <2>2. CASE s = r
        BY <1>5, <1>11, <2>2 DEF Covered
    <2>3. CASE s # r
        <3>1. ASSUME NEW e \in ToSet(due), e.q \in links, e.q.ask = s PROVE e \in ToSet(due') /\ e.q \in links'
            BY <1>2, <1>3, <2>3, <3>1
        <3>2. QED
            BY <1>2, <1>11, <2>1, <3>1 DEF Covered
    <2>4. QED
        BY <2>2, <2>3
<1>17. QED
    BY <1>12, <1>13, <1>14, <1>15, <1>16 DEF PanelInv

\* Every step keeps the screen's invariant.
LEMMA NextPanel == PromptsInv /\ PanelInv /\ [Next]_vars => PanelInv'
<1> SUFFICES ASSUME PromptsInv, PanelInv, [Next]_vars PROVE PanelInv'
    OBVIOUS
<1>1. Shapes /\ parked \subseteq Asks /\ \A s \in Asks : Prompt(s)
    BY DEF PromptsInv, Shapes
<1>2. CASE \E r \in Asks : ServerAsks(r) \/ ServerTakes(r) \/ ResolvedElsewhere(r)
    <2>1. PICK r \in Asks : ServerAsks(r) \/ ServerTakes(r) \/ ResolvedElsewhere(r)
        BY <1>2
    <2>2. UNCHANGED <<parked, answered, round, screen, released>>
        BY <2>1 DEF ServerAsks, ServerTakes, ResolvedElsewhere, Over, bridge, life
    <2>3. \A s \in parked : what'[s] = what[s]
        <3>1. CASE ServerAsks(r)
            <4>1. r \notin parked
                BY <3>1 DEF ServerAsks, PromptsInv, Lines, Untouched
            <4>2. QED
                BY <1>1, <3>1, <4>1 DEF ServerAsks, Shapes
        <3>2. CASE ServerTakes(r) \/ ResolvedElsewhere(r)
            BY <3>2 DEF ServerTakes, ResolvedElsewhere, Over
        <3>3. QED
            BY <2>1, <3>1, <3>2
    <2>4. QED
        BY <1>1, <2>2, <2>3, PanelStays DEF Unanswered
<1>3. CASE ServerEndsTurn \/ UNCHANGED vars
    BY <1>1, <1>3, PanelStays DEF ServerEndsTurn, vars, bridge, life, server, Unanswered
<1>4. ASSUME NEW r \in Asks, TurnedAway(r) PROVE PanelInv'
    BY <1>1, <1>4, PanelStays DEF TurnedAway, bridge, life, server, Unanswered
<1>5. ASSUME NEW r \in Asks, HearsResolved(r) \/ HearsItem(r) PROVE PanelInv'
    <2>1. \E S \in SUBSET parked : Settle(S)
        BY <1>5 DEF HearsResolved, HearsItem
    <2>2. UNCHANGED <<what, answered, round, released, due>>
        BY <1>5 DEF HearsResolved, HearsItem, server, life
    <2>3. QED
        BY <2>1, <2>2, PanelSettled
<1>6. CASE HearsTurn
    BY <1>6, PanelSettled DEF HearsTurn, server, life
<1>7. ASSUME NEW r \in Asks, TimesOut(r) PROVE PanelInv'
    <2>1. /\ Respond(r, Questions, "once", "auto") /\ UNCHANGED <<parked, round, screen, released, what>>
        BY <1>7 DEF TimesOut, server, life
    <2>2. Unanswered' \subseteq Unanswered
        <3>1. "once" \in Outcomes
            BY DEF Outcomes
        <3>2. /\ \A s \in Asks : s # r \/ ~Takes(r, Questions) => answered'[s] = answered[s]
              /\ Takes(r, Questions) => answered'[r] = "once"
            BY <1>1, <2>1, <3>1, Responding
        <3>3. QED
            BY <1>1, <2>1, <3>2 DEF Unanswered
    <2>3. QED
        BY <1>1, <2>1, <2>2, PanelStays
<1>8. CASE SwitchCancels \/ Disposed
    BY <1>8, PanelSettled DEF SwitchCancels, Disposed, Withdraw, server, life
<1>9. CASE ConnectionLost
    BY <1>9, PanelSettled DEF ConnectionLost, life
<1>10. CASE \E v \in {"once", "always", "reject", "explain"} : Decides(v)
    BY <1>10, PanelDecides
<1>11. CASE \E act \in Acts : Answers(act)
    BY <1>11, PanelAnswers
<1>12. CASE Continues
    BY <1>12, PanelTooLate, PanelReaches, PanelAsksAgain DEF Continues
<1>13. CASE Released
    <2>1. /\ panel' = <<>> /\ sheet' = <<>> /\ links' = {} /\ released'
          /\ UNCHANGED <<parked, answered, round, due, what>>
        BY <1>13 DEF Released, server, bridge
    <2>2. Screen' /\ Linked' /\ Stored' /\ Left' /\ Offered'
        BY <2>1, EmptySet DEF PanelInv, Screen, Linked, Stored, Left, Offered
    <2>3. QED
        BY <2>2 DEF PanelInv
<1>14. QED
    BY <1>2, <1>3, <1>4, <1>5, <1>6, <1>7, <1>8, <1>9, <1>10, <1>11, <1>12, <1>13, PanelShown DEF Next, Listens

\* PanelInv holds in every state, for any number of requests and rounds.
THEOREM PanelInvariant == Spec => []PanelInv
BY InitPanel, NextPanel, PromptsInvariant, PTL DEF Spec

\* What the panel shows is parked, once, in its current round, and what the
\* user can still answer is shown or its answer is on its way.
THEOREM HonestPanel == Spec => []PanelIsHonest
<1>1. PanelInv => PanelIsHonest
    <2> SUFFICES ASSUME PanelInv PROVE PanelIsHonest
        OBVIOUS
    <2>1. Screen /\ Linked /\ Stored /\ Left /\ Offered
        BY DEF PanelInv
    <2>2. OnScreen \subseteq parked
        BY <2>1 DEF OnScreen, Stored, Linked
    <2>3. \A q \in ToSet(sheet) : q = Sheet(q.ask) /\ q \in links
        BY <2>1 DEF Stored, Linked
    <2>4. ASSUME ~released, NEW r \in Unanswered PROVE r \in OnScreen \cup {q.ask : q \in OnItsWay}
        <3>1. Covered(r)
            BY <2>1, <2>4 DEF Offered
        <3>2. CASE r \in ToSet(panel) \/ \E q \in ToSet(sheet) : q.ask = r
            BY <3>2 DEF OnScreen
        <3>3. CASE \E d \in ToSet(due) : d.q \in links /\ d.q.ask = r
            <4>1. PICK d \in ToSet(due) : d.q \in links /\ d.q.ask = r
                BY <3>3
            <4>2. \E i \in 1 .. Len(due) : due[i] = d
                BY <2>1 DEF ToSet, Screen
            <4>3. d.q \in OnItsWay
                BY <4>1, <4>2 DEF OnItsWay
            <4>4. QED
                BY <4>1, <4>3
        <3>4. QED
            BY <3>1, <3>2, <3>3 DEF Covered
    <2>5. QED
        BY <2>1, <2>2, <2>3, <2>4 DEF Stored, PanelIsHonest
<1>2. QED
    BY <1>1, PanelInvariant, PTL

=============================================================================
