-------------------------------- MODULE Server -------------------------------
(***************************************************************************)
(* What happens to a query in the server: the handlers with the caches     *)
(* they serve from (ServeQuery, which this module extends), the block      *)
(* filter in front of them, and the recursor that may be behind the        *)
(* upstream.                                                               *)
(***************************************************************************)
EXTENDS ServeQuery

CONSTANTS
    Mode, BlockedTTL, AllowedTTL, MaxRecent,    \* the filter
    Caller, MaxRestarts, Epochs                 \* the recursor

VARIABLES
    rule, alias, on, mode, blocked, allowed, recent, blkAt, outcome, done, sinceBlocked,
    sinceAllowed,
    enabled, install, mu, epoch, cancelled, closes, proc, cmd, exitCh, exits, waiting,
    attempts, pos, seen, retry

Block == INSTANCE BlockCheck WITH at <- blkAt, answered <- done
Rec == INSTANCE Recursor

-----------------------------------------------------------------------------
(* Properties, beside those of ServeQuery.                                 *)

\* A name is blocked, or skips the filter, only if the rules said so within the
\* lifetime of a cached verdict (handler_adblock.go, adblock_cache.go).
VerdictsAreRecent == Block!VerdictsAreRecent

\* Never two recursor processes at a time, whatever Start, Stop, the health loop and
\* the exit of a process do to each other (recursor/manager.go).
OneProcess == Rec!OneProcess
=============================================================================
