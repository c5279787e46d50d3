------------------------------- MODULE MCServer ------------------------------
(***************************************************************************)
(* The handlers, the block filter, and the recursor with two callers of    *)
(* Start and Stop.  The first state chooses the one that moves.            *)
(***************************************************************************)
EXTENDS Server

CONSTANTS q1, q2

VARIABLE subject

blkVars == <<rule, alias, on, mode, blocked, allowed, recent, blkAt, outcome, done,
             sinceBlocked, sinceAllowed>>
recVars == <<enabled, install, mu, epoch, cancelled, closes, proc, cmd, exitCh, exits,
             waiting, attempts, pos, seen, retry>>

\* A client that asks for IPv4 addresses of a name whose answers are valid for no
\* time or for longer than MaxTTL, and the ways in which others differ from it.
Plain == [qtype |-> "A", ipv6 |-> FALSE, dnssec |-> FALSE, keepExpired |-> FALSE,
          filter |-> FALSE, local |-> FALSE, known |-> TRUE, ping |-> TRUE, ttls |-> {0, 3},
          clients |-> {q1}]
Envs == {Plain,
         [Plain EXCEPT !.qtype = "other"],
         [Plain EXCEPT !.qtype = "AAAA"],
         [Plain EXCEPT !.local = TRUE, !.filter = TRUE],
         [Plain EXCEPT !.dnssec = TRUE, !.ping = FALSE, !.ttls = {3}],
         [Plain EXCEPT !.ping = FALSE, !.filter = TRUE, !.keepExpired = TRUE, !.ttls = {3}],
         [Plain EXCEPT !.filter = TRUE, !.known = FALSE, !.ttls = {0}],
         [Plain EXCEPT !.ping = FALSE, !.ttls = {0}, !.clients = {q1, q2}]}

ASSUME InstanceAssumption ==
    ServeAssumption /\ Block!BlockAssumption /\ Rec!RecursorAssumption

MCInit ==
    /\ subject \in {"serve", "block", "recursor"}
    /\ Init /\ Block!Init /\ Rec!Init
    /\ subject # "serve" => env = Plain
    /\ subject # "block" => on /\ mode = "nxdomain" /\ ~alias /\ rule = "neutral"

ServeStep == subject = "serve" /\ Next /\ UNCHANGED <<subject, blkVars, recVars>>
BlockStep == subject = "block" /\ Block!Next /\ UNCHANGED <<subject, srvVars, recVars>>
RecStep == subject = "recursor" /\ Rec!Next /\ UNCHANGED <<subject, srvVars, blkVars>>

MCSpec == MCInit /\ [][ServeStep \/ BlockStep \/ RecStep]_<<subject, srvVars, blkVars, recVars>>
=============================================================================
