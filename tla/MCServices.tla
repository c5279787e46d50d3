------------------------------ MODULE MCServices -----------------------------
(***************************************************************************)
(* The services in the background, each with its fairness, in one run: the *)
(* update of the block lists, the pinger, the connectivity checker and the *)
(* manager of the recursor.  They share no state that matters here, so the *)
(* first state chooses the one that moves.  Block lists are updated by     *)
(* several updates at once, over the one list they contend for; or by one, *)
(* over all lists, to see that it ends: each update has slots of its own   *)
(* and waits for no other.                                                 *)
(***************************************************************************)
EXTENDS Services

CONSTANTS Client, MaxFailures, ForgiveAfter, MaxRestarts, Epochs, None,
    Alone       \* the one update whose end is looked at

VARIABLES subject,
    online, alive, rtt, weight, revalidating, renew, call, flight, patrol,
    enabled, install, mu, epoch, cancelled, closes, proc, cmd, exitCh, exits, waiting,
    attempts, pos, seen, retry

ruleVars == <<known, ruleOn, fails, status, meta, file, tmp, engine, step, job, tries,
              slots, rules>>
pingVars == <<online, alive, rtt, weight, revalidating, renew, call, flight, patrol>>
chkVars == <<reachable, healthy, failures, stop, loop, verdict, prober, results, over,
             answered>>
recVars == <<enabled, install, mu, epoch, cancelled, closes, proc, cmd, exitCh, exits,
             waiting, attempts, pos, seen, retry>>
vars == <<subject, ruleVars, pingVars, chkVars, recVars>>

One == INSTANCE RuleUpdate WITH enabled <- ruleOn, Updater <- Alone
Many == INSTANCE RuleUpdate WITH enabled <- ruleOn, Configured <- Managed
Ping == INSTANCE Pinger WITH Caller <- Client
Rec == INSTANCE Recursor WITH Caller <- Client

ASSUME InstanceAssumption ==
    /\ Rules!RuleAssumption /\ Ping!PingerAssumption /\ Check!CheckerAssumption
    /\ Rec!RecursorAssumption

Init ==
    /\ subject \in {"rules", "update", "ping", "check", "recursor"}
    /\ IF subject = "rules" THEN Many!Init ELSE One!Init
    /\ Ping!Init /\ Check!Init /\ Rec!Init
    /\ subject # "check" => reachable = {}
    /\ subject # "ping" => online /\ alive

InRules(A) == subject = "rules" /\ A
              /\ UNCHANGED <<subject, pingVars, chkVars, recVars>>
InUpdate(A) == subject = "update" /\ A
               /\ UNCHANGED <<subject, pingVars, chkVars, recVars>>
InPing(A) == subject = "ping" /\ A
             /\ UNCHANGED <<subject, ruleVars, chkVars, recVars>>
InCheck(A) == subject = "check" /\ A
              /\ UNCHANGED <<subject, ruleVars, pingVars, recVars>>
InRec(A) == subject = "recursor" /\ A
            /\ UNCHANGED <<subject, ruleVars, pingVars, chkVars>>

Next ==
    \/ InRules(Many!Next) \/ InUpdate(One!Next) \/ InPing(Ping!Next)
    \/ InCheck(Check!Next) \/ InRec(Rec!Next)

\* The fairness of each module, for the one that moves.
Fairness ==
    /\ \A u \in Builder : WF_vars(InUpdate(One!Build(u)))
    /\ \A c \in Client : WF_vars(InPing(Ping!Call(c))) /\ WF_vars(InRec(Rec!Stop(c)))
    /\ WF_vars(InPing(Ping!FlightLands))
    /\ WF_vars(InPing(Ping!Renew)) /\ WF_vars(InPing(Ping!UpdateIPCache))
    /\ \A a \in Addr : WF_vars(InCheck(Check!Prober(a)))
    /\ WF_vars(InCheck(Check!Collect \/ Check!performProbe)) /\ WF_vars(InCheck(Check!Ticker))
    /\ SF_vars(InCheck(Check!LoopEnds)) /\ WF_vars(InCheck(Check!StopReturns))
    /\ \A t \in Rec!Thread : WF_vars(InRec(Rec!Start(t)))
    /\ \A e \in Rec!Epoch : /\ WF_vars(InRec(Rec!Loop(e))) /\ WF_vars(InRec(Rec!Waited(e)))
                            /\ WF_vars(InRec(proc[e] = "killed" /\ Rec!ProcessExits(e)))

Spec == Init /\ [][Next]_vars /\ Fairness

(***************************************************************************)
(* What must come about, in addition to the properties of Services.        *)
(***************************************************************************)
\* An update of the block lists ends; Start and Stop of the recursor return.
CallsReturn ==
    /\ subject = "update" => One!UpdateEnds
    /\ subject = "recursor" => Rec!CallsReturn

\* An address that answers again and is asked is forgiven.
Forgiven == subject = "ping" => Ping!Forgiven

\* The checker follows the network, and stops.
NetworkIsNoticed == subject = "check" => Check!NetworkIsNoticed
=============================================================================
