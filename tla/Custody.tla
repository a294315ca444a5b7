------------------------------- MODULE Custody -------------------------------
(***************************************************************************)
(* What a keyring promises, without keys: each position has one            *)
(* controller and may have one heir.  Control changes hands only when the  *)
(* controller gives it away, or when the heir takes it after the           *)
(* controller has been silent for as long as was agreed.                   *)
(***************************************************************************)
EXTENDS Integers

CONSTANTS
    Wallets,
    Positions,
    MaxPatience,   \* the longest silence that can be agreed on
    MaxTime        \* bound on the clock

VARIABLES
    founded,       \* positions in existence
    controller,    \* who controls each position: nobody or one wallet
    heir,          \* who may succeed: nobody or one wallet
    patience,      \* the agreed silence; 0 when there is no succession
    sealed,        \* the agreement can no longer be changed
    heard,         \* when the controller was last heard of
    clock

vars == <<founded, controller, heir, patience, sealed, heard, clock>>

NobodyOrOne == {{}} \cup {{w} : w \in Wallets}

Init ==
    /\ founded = {}
    /\ controller = [p \in Positions |-> {}]
    /\ heir = [p \in Positions |-> {}]
    /\ patience = [p \in Positions |-> 0]
    /\ sealed = [p \in Positions |-> FALSE]
    /\ heard = [p \in Positions |-> 0]
    /\ clock = 0

Found(p, w) ==
    /\ p \notin founded
    /\ founded' = founded \cup {p}
    /\ controller' = [controller EXCEPT ![p] = {w}]
    /\ heard' = [heard EXCEPT ![p] = clock]
    /\ UNCHANGED <<heir, patience, sealed, clock>>

(* The controller does something that is not about succession.             *)
Speak(p) ==
    /\ controller[p] # {}
    /\ heard' = [heard EXCEPT ![p] = clock]
    /\ UNCHANGED <<founded, controller, heir, patience, sealed, clock>>

(* The controller names an heir, in place of the one before.               *)
Arrange(p, w, silence, seal) ==
    /\ controller[p] # {}
    /\ ~sealed[p]
    /\ heir' = [heir EXCEPT ![p] = {w}]
    /\ patience' = [patience EXCEPT ![p] = silence]
    /\ sealed' = [sealed EXCEPT ![p] = seal]
    /\ heard' = [heard EXCEPT ![p] = clock]
    /\ UNCHANGED <<founded, controller, clock>>

(* The heir takes over; the agreement is spent.                            *)
Succeed(p) ==
    /\ heir[p] # {}
    /\ clock - heard[p] >= patience[p]
    /\ controller' = [controller EXCEPT ![p] = heir[p]]
    /\ heir' = [heir EXCEPT ![p] = {}]
    /\ patience' = [patience EXCEPT ![p] = 0]
    /\ sealed' = [sealed EXCEPT ![p] = FALSE]
    /\ heard' = [heard EXCEPT ![p] = clock]
    /\ UNCHANGED <<founded, clock>>

(* Control, or the place of the heir, is given to somebody or given up.    *)
PassControl(p, to) ==
    /\ controller[p] # {}
    /\ controller' = [controller EXCEPT ![p] = to]
    /\ UNCHANGED <<founded, heir, patience, sealed, heard, clock>>

PassHeirship(p, to) ==
    /\ heir[p] # {}
    /\ heir' = [heir EXCEPT ![p] = to]
    /\ UNCHANGED <<founded, controller, patience, sealed, heard, clock>>

Wait ==
    /\ clock' \in clock + 1 .. MaxTime
    /\ UNCHANGED <<founded, controller, heir, patience, sealed, heard>>

Next ==
    \/ \E p \in Positions, w \in Wallets : Found(p, w)
    \/ \E p \in Positions : Speak(p) \/ Succeed(p)
    \/ \E p \in Positions, w \in Wallets, silence \in 1 .. MaxPatience, seal \in BOOLEAN :
          Arrange(p, w, silence, seal)
    \/ \E p \in Positions, to \in NobodyOrOne : PassControl(p, to) \/ PassHeirship(p, to)
    \/ Wait

Spec == Init /\ [][Next]_vars
=============================================================================
