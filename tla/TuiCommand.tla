------------------------------ MODULE TuiCommand ------------------------------
(***************************************************************************)
(* The terminal client as a process: run interactively until the user      *)
(* leaves it, or for one command (run_oneshot), which selects a position   *)
(* without asking, builds with the same builders and sends at once.  Run   *)
(* again it knows nothing of the time before; the chain does.              *)
(***************************************************************************)
EXTENDS TuiSession

VARIABLE command    \* what the process was started for, and how far it is

vars == <<sessionVars, command>>

Stages == {"ended", "session", "started", "selected", "built", "sent"}

NoProcess == [at |-> "ended", asked |-> None]

Init ==
    /\ existing = FirstPositions
    /\ app = NewApp
    /\ command = NoProcess

Reaches(stage) == command' = [command EXCEPT !.at = stage]

(* main: no command, or one with or without --position, which need not be  *)
(* of this wallet.                                                         *)
Run ==
    /\ command.at = "ended"
    /\ StartApp
    /\ \/ Reaches("session")
       \/ \E p \in OrNone(Positions) : command' = [at |-> "started", asked |-> p]

Ends ==
    /\ app' = NewApp
    /\ command' = NoProcess

(* A session ends by q, or by ctrl-c on any screen.                        *)
Quit ==
    /\ command.at = "session"
    /\ Ends
    /\ UNCHANGED existing

Session == command.at = "session" /\ PressKey /\ UNCHANGED command

-----------------------------------------------------------------------------
(* run_oneshot: the position asked for, or the first of several.           *)
TargetsUnfiltered == app.listed  \* slip: --position not looked for
Targets ==
    IF command.asked # None
    THEN {k \in app.listed : PositionOf[k] = command.asked}
    ELSE IF Cardinality(app.listed) > 1 /\ app.position = None
         THEN app.listed
         ELSE {}

(* Unlike Enter on the list, it reads the figures too.                     *)
SelectTarget ==
    /\ command.at = "started"
    /\ \E k \in Targets, ar, mr, fr \in BOOLEAN :
          app' = WithFigures(Reselected(app, k, ar, mr), fr)
    /\ Reaches("selected")
    /\ UNCHANGED existing

KeepSelection ==
    /\ command.at = "started"
    /\ Targets = {} /\ command.asked = None
    /\ Reaches("selected")
    /\ UNCHANGED sessionVars

NotFound ==
    /\ command.at = "started"
    /\ Targets = {} /\ command.asked # None
    /\ Ends
    /\ UNCHANGED existing

(* populate_and_build, for every command that sends something; nothing     *)
(* asks whether the key in use would be allowed it.                        *)
BuildCommand ==
    /\ command.at = "selected"
    /\ \/ app.protocol = "absent" /\ BuildProtocol("init")
       \/ app.protocol # "ready" /\ BuildProtocol("collection")
       \/ BuildProtocol("administer")
       \/ \E p \in Positions : BuildCreate(p)
       \/ \E kind \in {"authorize", "revoke", "configure"} : BuildKeyChange(kind)
       \/ \E r \in Keys : BuildExecuteRecovery(r)
       \/ BuildHeartbeat
       \/ \E kind \in TradeForms \cup {"reinvest"} : BuildTrade(kind)
    /\ Reaches("built")

(* status and balances, what is done already, and what cannot be built.    *)
NothingToSend ==
    /\ command.at = "selected"
    /\ Ends
    /\ UNCHANGED existing

(* execute_pending.                                                        *)
CommandSent ==
    /\ command.at = "built"
    /\ Lands(app.pending)
    /\ app' \in Refreshed([app EXCEPT !.pending = None], KeysAmong(existing'))
    /\ Reaches("sent")

(* An error, whether or not the transaction landed.                        *)
CommandFailed ==
    /\ command.at = "built"
    /\ Lands(app.pending) \/ UNCHANGED existing
    /\ Ends

ResultPrinted ==
    /\ command.at = "sent"
    /\ Ends
    /\ UNCHANGED existing

Next ==
    \/ Run \/ Session \/ Quit
    \/ SelectTarget \/ KeepSelection \/ NotFound
    \/ BuildCommand \/ NothingToSend
    \/ CommandSent \/ CommandFailed \/ ResultPrinted

Spec == Init /\ [][Next]_vars
-----------------------------------------------------------------------------
(* A transaction waits exactly while the user, or nobody, is to confirm it.*)
TypeOK ==
    /\ SessionTypeOK
    /\ command.at \in Stages
    /\ command.asked \in OrNone(Positions)
    /\ command.at = "session" => (app.pending # None <=> app.screen = "Confirm")
    /\ command.at # "session" => (app.pending # None <=> command.at = "built")

(* What the user is asked to confirm is about one position, whatever       *)
(* failed to be read on the way and whatever was selected before.  A       *)
(* command is about the position asked for, or about none: it never falls  *)
(* back on another that is at hand; and its sale has the floor price of    *)
(* that position's market.                                                 *)
TransactionIsOfOnePosition ==
    LET t == app.pending
    IN t # None =>
          /\ OfOnePosition(t)
          /\ command.at = "built" =>
                /\ command.asked # None /\ t.key # None => t.position = command.asked
                /\ t.floor # None => t.floor = <<t.position, t.market>>
===============================================================================
