------------------------------ MODULE CallSign ------------------------------
(***************************************************************************)
(* What the call sign of lab4 is for: whoever asks finds a server that was *)
(* listening when he asked, and finds one if the question has reached such *)
(* a server, it goes on and its answer is not lost; a server asks too, and *)
(* listens only when its own search is over.                               *)
(***************************************************************************)
CONSTANTS Servers, Clients

Parties == Servers \cup Clients

VARIABLES
    phase,      \* phase[p]: how far the search of p is
    listening,  \* the servers that listen
    heard,      \* heard[p]: the servers that may answer p
    lost        \* <<s, p>> for each answer of s to p that the network lost

callVars == <<phase, listening, heard, lost>>

CallInit ==
    /\ phase = [p \in Parties |-> "silent"]
    /\ listening = {}
    /\ heard = [p \in Parties |-> {}]
    /\ lost = {}

Turns(p, from, to) ==
    /\ phase[p] \in from
    /\ phase' = [phase EXCEPT ![p] = to]

(* The call reaches servers that listen now, and no other ever.            *)
Ask(p) ==
    /\ Turns(p, {"silent"}, "asking")
    /\ \E there \in SUBSET listening : heard' = [heard EXCEPT ![p] = there]
    /\ UNCHANGED <<listening, lost>>

Found(p) ==
    /\ Turns(p, {"asking"}, "found")
    /\ heard[p] # {}
    /\ heard' = [heard EXCEPT ![p] = {}]
    /\ UNCHANGED <<listening, lost>>

(* A server's search may end with an error.                                *)
Fail(s) ==
    /\ Turns(s, {"silent", "asking"}, "failed")
    /\ heard' = [heard EXCEPT ![s] = {}]
    /\ UNCHANGED <<listening, lost>>

Listen(s) ==
    /\ phase[s] \in {"found", "failed"}
    /\ listening' = listening \cup {s}
    /\ UNCHANGED <<phase, heard, lost>>

Forgets(s, p) ==
    /\ s \in listening \cap heard[p]
    /\ heard' = [heard EXCEPT ![p] = @ \ {s}]
    /\ UNCHANGED <<phase, listening>>

(* A server takes the call of another server for something else.           *)
Ignore(s, p) == Forgets(s, p) /\ UNCHANGED lost

(* The network loses the answer of s to p.                                 *)
Lose(s, p) == Forgets(s, p) /\ lost' = lost \cup {<<s, p>>}

(* p ends, and if it is a server those it has not answered yet lose it.    *)
End(p) ==
    /\ Turns(p, {"silent", "asking", "found", "failed"}, "over")
    /\ listening' = listening \ {p}
    /\ \E waiting \in SUBSET Parties :
          heard' = [q \in Parties |->
                       IF q = p THEN {}
                       ELSE IF q \in waiting THEN heard[q] \ {p} ELSE heard[q]]
    /\ UNCHANGED lost

CallNext ==
    \/ \E p \in Parties : Ask(p) \/ Found(p) \/ End(p)
    \/ \E s \in Servers : Fail(s) \/ Listen(s) \/ \E p \in Servers : Ignore(s, p)
    \/ \E s \in Servers, p \in Parties : Lose(s, p)

CallSafety == CallInit /\ [][CallNext]_callVars

CallSpec ==
    /\ CallSafety
    /\ \A p \in Parties : WF_callVars(Found(p))

=============================================================================
