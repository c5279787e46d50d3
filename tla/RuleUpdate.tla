------------------------------ MODULE RuleUpdate ------------------------------
(***************************************************************************)
(* The rules of the ad filter (adblock/manager.go, source_manager.go,      *)
(* rule_loader.go): lists are downloaded into temporary files, renamed     *)
(* into the cache directory, read together into a new engine, and the      *)
(* engine is swapped in.  Several updates (the first one, the ticker's and *)
(* those of the web interface), the switching of a source and crashes      *)
(* interleave; only the swap and the source table are under a lock, and    *)
(* the updates use the same temporary files.                               *)
(***************************************************************************)
EXTENDS Integers, FiniteSets

CONSTANTS
    Source,             \* list URLs
    Local,              \* those that are local files: the custom rules
    Configured,         \* cfg.RuleURLs and the custom rules file
    Builder, Updater,   \* goroutines that rebuild the engine; that download
    MaxConcurrent,      \* loader.maxConcurrent
    MaxRetries,
    BadAfter,           \* failures in a row that make a source "bad"
    Managed             \* bound: sources the web interface adds, drops and switches

RuleAssumption ==
    /\ IsFiniteSet(Source)
    /\ Local \subseteq Source /\ Updater \subseteq Builder /\ Configured \subseteq Source
    /\ Managed \subseteq Source
    /\ {MaxConcurrent, MaxRetries, BadAfter} \subseteq Nat \ {0}

VARIABLES
    known, enabled,     \* sourcesMgr.sources and its Enabled flags
    fails, status,      \* FailCount (up to BadAfter) and Status of a source
    meta,               \* rules_meta.json: Table, or <<>> if lost
    file, tmp,          \* cache and temporary files: Content
    engine,             \* sources whose rules the engine in use holds
    step,               \* per builder: position
    job, tries,         \* per builder and source: download and its attempts
    slots,              \* per builder: slots of sem taken
    rules               \* per builder: sources read by LoadAllRules

tableVars == <<known, enabled, fails, status, meta>>
buildVars == <<step, job, tries, slots, rules>>
ruleVars == <<tableVars, file, tmp, engine, buildVars>>

Table == <<known, enabled, fails, status>>
\* A file that several updates had in hand at once is "shared": it may hold
\* bytes of each, or part of a list.
Content == {"none", "part", "whole", "shared"}

Job == {"done", "wait", "try", "copy", "rename"}
InFlight(u) == {s \in Source : job[u][s] \in {"try", "copy", "rename"}}

\* Those who write to a temporary file they have opened, or will rename it.
Writers(s) == {u \in Builder : job[u][s] = "copy"}
Holders(s) == {u \in Builder : job[u][s] \in {"copy", "rename"}}

\* The custom rules file is there from the start (ensureCustomRulesFile).
Idle ==
    /\ engine = {}
    /\ \E u \in Updater : step = [v \in Builder |-> IF v = u THEN "start" ELSE "idle"]
    /\ job = [u \in Builder |-> [s \in Source |-> "done"]]
    /\ tries = [u \in Builder |-> [s \in Source |-> 0]]
    /\ slots = [u \in Builder |-> 0] /\ rules = [u \in Builder |-> {}]

Init ==
    /\ known = Configured /\ enabled = Configured
    /\ fails = [s \in Source |-> 0] /\ status = [s \in Source |-> "active"]
    /\ meta = <<>>
    /\ file = [s \in Source |-> IF s \in Local THEN "whole" ELSE "none"]
    /\ tmp = [s \in Source |-> "none"]
    /\ Idle

SetStep(u, p) == step' = [step EXCEPT ![u] = p]
SetJob(u, s, p) == job' = [job EXCEPT ![u][s] = p]

(***************************************************************************)
(* UpdateRules.                                                            *)
(***************************************************************************)
Downloading(u, todo) ==
    /\ SetStep(u, "download")
    /\ job' = [job EXCEPT ![u] = [s \in Source |-> IF s \in todo THEN "wait" ELSE "done"]]
    /\ tries' = [tries EXCEPT ![u] = [s \in Source |-> 0]]
    /\ UNCHANGED <<tableVars, file, tmp, engine, slots, rules>>

\* Start: the rules in the cache files, if an enabled source has one.
LoadRulesFromCache(u) ==
    /\ step[u] = "start" /\ \E s \in known \cap enabled : file[s] # "none"
    /\ SetStep(u, "load")
    /\ UNCHANGED <<tableVars, file, tmp, engine, job, tries, slots, rules>>

\* Otherwise, or if they are too few, everything enabled is downloaded.
FirstUpdate(u) == step[u] = "start" /\ Downloading(u, known \cap enabled)

\* Disabled sources, and without force the fresh ones, are left alone; so
\* is everything when the network is down, which is no step.
UpdateRules(u) ==
    /\ step[u] = "idle"
    /\ \E todo \in SUBSET (known \cap enabled) : Downloading(u, todo)

Acquire(u, s) ==
    /\ job[u][s] = "wait" /\ slots[u] < MaxConcurrent
    /\ slots' = [slots EXCEPT ![u] = @ + 1]
    /\ SetJob(u, s, "try")
    /\ UNCHANGED <<tableVars, file, tmp, engine, step, tries, rules>>

\* The status of a source that failed for the n-th time in a row.
FailStatus(n) == IF n = 1 THEN "initializing" ELSE IF n >= BadAfter THEN "bad"
                 ELSE "failed"

\* UpdateSourceStatus, and the deferred release of the slot.
Finish_KeepsSlot(u, s, ok) ==
    /\ SetJob(u, s, "done")
    /\ slots' = [slots EXCEPT ![u] = IF ok THEN @ - 1 ELSE @]
    /\ LET n == IF ok THEN 0 ELSE IF fails[s] < BadAfter THEN fails[s] + 1 ELSE fails[s]
       IN  IF s \in known
           THEN /\ fails' = [fails EXCEPT ![s] = n]
                /\ status' = [status EXCEPT ![s] = IF ok THEN "active" ELSE FailStatus(n)]
           ELSE UNCHANGED <<fails, status>>
    /\ UNCHANGED <<known, enabled, meta, engine, step, rules>>

Finish(u, s, ok) ==
    /\ SetJob(u, s, "done")
    /\ slots' = [slots EXCEPT ![u] = @ - 1]
    /\ LET n == IF ok THEN 0 ELSE IF fails[s] < BadAfter THEN fails[s] + 1 ELSE fails[s]
       IN  IF s \in known
           THEN /\ fails' = [fails EXCEPT ![s] = n]
                /\ status' = [status EXCEPT ![s] = IF ok THEN "active" ELSE FailStatus(n)]
           ELSE UNCHANGED <<fails, status>>
    /\ UNCHANGED <<known, enabled, meta, engine, step, rules>>

loadLocalFile(u, s) ==
    /\ job[u][s] = "try" /\ s \in Local
    /\ Finish(u, s, file[s] = "whole")
    /\ UNCHANGED <<file, tmp, tries>>

\* A failed attempt is repeated, unless it was the last or repeating is no use.
Attempted(u, s) ==
    \/ /\ tries[u][s] + 1 < MaxRetries
       /\ tries' = [tries EXCEPT ![u][s] = @ + 1]
       /\ SetJob(u, s, "try")
       /\ UNCHANGED <<tableVars, engine, step, slots, rules>>
    \/ Finish(u, s, FALSE) /\ UNCHANGED tries

NoAnswer(u, s) ==
    /\ job[u][s] = "try" /\ s \notin Local
    /\ Attempted(u, s)
    /\ UNCHANGED <<file, tmp>>

NotModified(u, s) ==
    /\ job[u][s] = "try" /\ s \notin Local
    /\ Finish(u, s, TRUE)
    /\ UNCHANGED <<file, tmp, tries>>

\* os.Create truncates what another update may be writing or about to rename.
Create_InPlace(u, s) ==
    /\ job[u][s] = "try" /\ s \notin Local
    /\ file' = [file EXCEPT ![s] = "part"]
    /\ SetJob(u, s, "copy")
    /\ UNCHANGED <<tableVars, tmp, engine, step, tries, slots, rules>>

Create(u, s) ==
    /\ job[u][s] = "try" /\ s \notin Local
    /\ tmp' = [tmp EXCEPT ![s] = IF Holders(s) = {} THEN "part" ELSE "shared"]
    /\ SetJob(u, s, "copy")
    /\ UNCHANGED <<tableVars, file, engine, step, tries, slots, rules>>

\* The last of several writers may leave one whole list behind.
Completed(u, s, c) ==
    IF c = "part" THEN {"whole"}
    ELSE IF c = "shared" /\ Writers(s) = {u} THEN {"shared", "whole"} ELSE {c}

\* What u has written was renamed into the cache by then, if another update was
\* faster: it goes on writing there.
Copied(u, s) ==
    /\ job[u][s] = "copy"
    /\ \E c \in Completed(u, s, tmp[s]) : tmp' = [tmp EXCEPT ![s] = c]
    /\ \E c \in Completed(u, s, file[s]) : file' = [file EXCEPT ![s] = c]
    /\ SetJob(u, s, "rename")
    /\ UNCHANGED <<tableVars, engine, step, tries, slots, rules>>

\* The body breaks off, is empty, too large or holds no rule.
CopyFails(u, s) ==
    /\ job[u][s] = "copy"
    /\ tmp' = [tmp EXCEPT ![s] = "none"]
    /\ Attempted(u, s)
    /\ UNCHANGED file

Rename(u, s) ==
    /\ job[u][s] = "rename"
    /\ tmp' = [tmp EXCEPT ![s] = "none"]
    /\ \/ Attempted(u, s) /\ UNCHANGED file
       \/ /\ tmp[s] # "none" /\ file' = [file EXCEPT ![s] = tmp[s]]
          /\ Finish(u, s, TRUE) /\ UNCHANGED tries

\* wg.Wait.
AllDownloaded(u) ==
    /\ step[u] = "download" /\ \A s \in Source : job[u][s] = "done"
    /\ SetStep(u, "save")
    /\ UNCHANGED <<tableVars, file, tmp, engine, job, tries, slots, rules>>

saveMeta(u) ==
    /\ step[u] = "save"
    /\ meta' = Table
    /\ SetStep(u, "load")
    /\ UNCHANGED <<known, enabled, fails, status, file, tmp, engine, job, tries,
                   slots, rules>>

LoadAllRules(u) ==
    /\ step[u] = "load"
    /\ rules' = [rules EXCEPT ![u] = {s \in known \cap enabled : file[s] # "none"}]
    /\ SetStep(u, "swap")
    /\ UNCHANGED <<tableVars, file, tmp, engine, job, tries, slots>>

Swap(u) ==
    /\ step[u] = "swap"
    /\ engine' = rules[u]
    /\ rules' = [rules EXCEPT ![u] = {}]
    /\ SetStep(u, "idle")
    /\ UNCHANGED <<tableVars, file, tmp, job, tries, slots>>

(***************************************************************************)
(* The operations of the web interface.                                    *)
(***************************************************************************)
SetSourceEnabled(u, s) ==
    /\ step[u] = "idle" /\ s \in known
    /\ \/ enabled' = enabled \cup {s}
       \/ enabled' = enabled \ {s}
    /\ SetStep(u, "save")
    /\ UNCHANGED <<known, fails, status, meta, file, tmp, engine, job, tries, slots,
                   rules>>

\* An update follows, by its own goroutine.
AddSource(s) ==
    /\ known' = known \cup {s} /\ enabled' = enabled \cup {s}
    /\ IF s \in known THEN UNCHANGED <<fails, status>>
       ELSE /\ fails' = [fails EXCEPT ![s] = 0]
            /\ status' = [status EXCEPT ![s] = "active"]
    /\ meta' = Table'
    /\ UNCHANGED <<file, tmp, engine, buildVars>>

\* No update follows.
RemoveSource(s) ==
    /\ s \in known
    /\ known' = known \ {s} /\ enabled' = enabled \ {s}
    /\ file' = IF s \in Local THEN file ELSE [file EXCEPT ![s] = "none"]
    /\ UNCHANGED <<fails, status, tmp, engine, buildVars>>
    /\ meta' = Table'

(***************************************************************************)
(* Crash and restart: rules_meta.json is not written atomically, and the   *)
(* configured sources are enabled again.                                   *)
(***************************************************************************)
NewManager(m) ==
    /\ meta' = m
    /\ known' = Configured \cup IF m = <<>> THEN {} ELSE m[1]
    /\ enabled' = Configured \cup IF m = <<>> THEN {} ELSE m[2]
    /\ fails' = IF m = <<>> THEN [s \in Source |-> 0] ELSE m[3]
    /\ status' = IF m = <<>> THEN [s \in Source |-> "active"] ELSE m[4]

Restart ==
    /\ \E m \in {meta} \cup (IF \E u \in Builder : step[u] = "save" THEN {<<>>} ELSE {}) :
        NewManager(m)
    /\ engine' = {}
    /\ \E u \in Updater : step' = [v \in Builder |-> IF v = u THEN "start" ELSE "idle"]
    /\ job' = [u \in Builder |-> [s \in Source |-> "done"]]
    /\ tries' = [u \in Builder |-> [s \in Source |-> 0]]
    /\ slots' = [u \in Builder |-> 0] /\ rules' = [u \in Builder |-> {}]
    /\ UNCHANGED <<file, tmp>>

Download(u, s) ==
    \/ Acquire(u, s) \/ loadLocalFile(u, s) \/ NoAnswer(u, s) \/ NotModified(u, s)
    \/ Create(u, s) \/ Copied(u, s) \/ CopyFails(u, s) \/ Rename(u, s)

Build(u) ==
    \/ LoadRulesFromCache(u) \/ FirstUpdate(u)
    \/ \E s \in Source : Download(u, s)
    \/ AllDownloaded(u) \/ saveMeta(u) \/ LoadAllRules(u) \/ Swap(u)

Next ==
    \/ \E u \in Updater : UpdateRules(u)
    \/ \E u \in Builder : Build(u)
    \/ \E u \in Builder, s \in Managed : SetSourceEnabled(u, s)
    \/ \E s \in Managed : AddSource(s) \/ RemoveSource(s)
    \/ Restart

Spec == Init /\ [][Next]_ruleVars

FairSpec == Spec /\ \A u \in Builder : WF_ruleVars(Build(u))

(***************************************************************************)
(* Properties.                                                             *)
(***************************************************************************)
\* A cache file is never half a list, though downloads break off and the
\* process dies in the middle of one, unless several updates had its temporary
\* file in hand at once (downloadRemoteFile); and each update has taken the slots
\* of its own downloads under way, and no more (UpdateRules).
FilesAreWhole ==
    /\ \A s \in Source : file[s] # "part"
    /\ \A u \in Builder :
        slots[u] = Cardinality(InFlight(u)) /\ slots[u] <= MaxConcurrent

\* The downloads of an update end, whatever the servers answer and however
\* often: no path out of a download keeps its slot.
UpdateEnds == \A u \in Updater : step[u] = "download" ~> step[u] # "download"

(***************************************************************************)
(* What the code does not do (see the README).                             *)
(***************************************************************************)
\* The temporary file keeps half a list out of the cache.
CacheIsWhole == \A s \in Source : file[s] \in {"none", "whole"}

\* With nothing under way the engine holds the enabled sources.
EngineFollowsSources ==
    (\A u \in Builder : step[u] = "idle") =>
        engine \in {{}, {s \in known \cap enabled : file[s] # "none"}}

\* A source that was switched off stays off when the server restarts.
OffStaysOff == [][Restart => enabled' \cap (known \ enabled) = {}]_ruleVars
=============================================================================
