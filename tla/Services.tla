------------------------------- MODULE Services ------------------------------
(***************************************************************************)
(* Services in the background that make promises at every moment: the      *)
(* update of the block lists and the connectivity checker.                 *)
(***************************************************************************)
EXTENDS Integers, Sequences, FiniteSets

CONSTANTS
    Source, Local, Configured, Builder, Updater, MaxConcurrent, MaxRetries, BadAfter, Managed,
    Addr, ProbeThreshold

VARIABLES
    known, ruleOn, fails, status, meta, file, tmp, engine, step, job, tries, slots, rules,
    reachable, healthy, failures, stop, loop, verdict, prober, results, over, answered

Rules == INSTANCE RuleUpdate WITH enabled <- ruleOn
Check == INSTANCE Checker WITH FailureThreshold <- ProbeThreshold

-----------------------------------------------------------------------------
(* Properties.                                                             *)

\* No cache file of a block list is ever half a list, and no slot is lost
\* (adblock/rule_loader.go).
FilesAreWhole == Rules!FilesAreWhole

\* A probe of the network fails only in silence (connectivity/checker.go).
OnlySilenceFails == Check!OnlySilenceFails
=============================================================================
