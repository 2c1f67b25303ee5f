--------------------------- MODULE CacheCommands ---------------------------
(***************************************************************************)
(* The `cache` subcommands of the CLI over the local tiers of one suite,   *)
(* beside runs that use them: domarinn-cli/src/cachecmd.rs, cachels.rs and *)
(* cachecfg.rs, the purge filter and the kinds of domarinn-core/src        *)
(* cache.rs, and the walks of domarinn-cache/src/disk.rs.                  *)
(*                                                                         *)
(* A directory is a function from file names to files; a file is its time  *)
(* of change and its body.  A walk looks at one file per step, and what it *)
(* decided to remove it removes in a later one.                            *)
(***************************************************************************)
EXTENDS Integers, Sequences, FiniteSets

LOCAL INSTANCE SequencesExt

CONSTANTS
    CommandSites,    \* where the commands are given: directories, cache configuration
    CacheKeys,       \* file names that are keys
    FileBodies,      \* what files hold
    StartingFiles,   \* the files of both directories at the start
    AskedCommands,   \* the commands and their arguments
    HoursADay,       \* units of time in a day
    LastHour,        \* bound: the clock
    MAX_SCAN,        \* files that a listing looks at, in each tier
    MaxChanges,      \* bound: what happens to the files beside the command
    Missing

VARIABLES
    where,           \* the site, which does not change
    held,            \* directory -> its files
    hour,            \* the clock
    command,         \* the command at work
    changes          \* changes made by others

commandVars == <<where, held, hour, command, changes>>

\* A name that ends in .json; other files are writes that did not end.
IsJson(name) == name # 0
FileNames == CacheKeys \cup {0, -1}      \* -1 ends in .json and is no key

-----------------------------------------------------------------------------
(* The tiers.                                                              *)

\* A directory that was named, or the suite's, over the one below the working
\* directory where that is another and exists.
local_root(site) ==
    IF site.explicit \/ site.same \/ ~site.legacy_is_dir THEN <<"root">> ELSE <<"root", "legacy">>

\* The suite lies below the working directory, so that what is there is what an
\* older version left for it.
ContainsAlways(site) == TRUE
cwd_contains(site) == site.inside

PurgedTiers(site) == SelectSeq(local_root(site), LAMBDA d : d = "root" \/ cwd_contains(site))

\* The tier behind the local ones.
remote_tier(site) ==
    CASE site.backend = "disk" -> "none"
      [] site.backend = "http" -> "http"
      [] site.backend = "s3" -> "s3"
      [] site.backend = "layered" -> IF site.s3 THEN "s3" ELSE "http"

\* Without an address or a bucket there is none.
build_cache(site) ==
    CASE remote_tier(site) = "http" -> IF site.url THEN "http" ELSE "none"
      [] remote_tier(site) = "s3" -> IF site.s3 THEN "s3" ELSE "none"
      [] OTHER -> "none"

-----------------------------------------------------------------------------
(* Entries and filters.                                                    *)

\* The kind that is stored, or the one that the entry shows: a verdict's, the
\* protocol's for a program, an embedding's, a provider's by what only it has.
inferred_kind(e) ==
    CASE e.kind # Missing -> e.kind
      [] e.verdict = "rubric" -> "judge"
      [] e.verdict = "exec" -> "exec-assert"
      [] e.verdict = "similarity" -> "similar_verdict"
      [] e.request \in {"exec provider"} -> "provider"
      [] e.request \in {"exec assert"} -> "exec-assert"
      [] e.output = "dims" -> "embedding"
      [] e.timed -> "provider"
      [] OTHER -> Missing

\* --older-than and --newer-than, as [n, unit].
parse_duration(spec) ==
    IF spec.unit = "h" THEN spec.n ELSE spec.n * HoursADay
BadDuration(spec) == spec # Missing /\ spec.unit \notin {"d", "h"}
parse_opt_duration(spec) == IF spec = Missing THEN Missing ELSE parse_duration(spec)

PurgeFilter(ask) ==
    IF ask.name = "clear" THEN [older |-> Missing, newer |-> Missing, reasons |-> {}]
    ELSE [older |-> parse_opt_duration(ask.older), newer |-> parse_opt_duration(ask.newer), reasons |-> ask.reasons]

is_default(f) == f.older = Missing /\ f.newer = Missing /\ f.reasons = {}
is_age_only(f) == f.reasons = {}
matches_entry(f, e) == f.reasons = {} \/ (e.reason # Missing /\ e.reason \in f.reasons)

OlderOnly(f, file, now) == f.older # Missing => file.at < now - f.older
MatchesAge(f, file, now) ==
    /\ f.older # Missing => file.at < now - f.older
    /\ f.newer # Missing => file.at >= now - f.newer

\* A body that cannot be read is not what a filter on bodies means.
should_remove(f, file, now) ==
    is_default(f) \/ (/\ MatchesAge(f, file, now)
                      /\ is_age_only(f) \/ (file.body # Missing /\ matches_entry(f, file.body)))

-----------------------------------------------------------------------------
(* Runs and other commands beside it.                                      *)

Changed == changes < MaxChanges /\ changes' = changes + 1 /\ UNCHANGED <<where, hour, command>>
WithFile(dir, name, file) ==
    held' = [held EXCEPT ![dir] = [n \in DOMAIN @ \cup {name} |-> IF n \in DOMAIN @ THEN @[n] ELSE file]]

\* put: into the suite's directory; the other one is where a run writes that is
\* started in the working directory.  What is there stays.
RunWrites(dir, k, body) ==
    /\ Changed
    /\ dir = "legacy" => ~where.inside
    /\ k \notin DOMAIN held[dir]
    /\ WithFile(dir, k, [at |-> hour, body |-> body])

\* get: from the first tier that has the key, an error in the first being one of the
\* read; what a later tier has is written to the first.
GetLocal(k) ==
    IF k \in DOMAIN held["root"] THEN held["root"][k].body
    ELSE IF Len(local_root(where)) = 2 /\ k \in DOMAIN held["legacy"] THEN held["legacy"][k].body
    ELSE Missing

RunReads(k) ==
    /\ Changed
    /\ k \notin DOMAIN held["root"]
    /\ \E body \in {GetLocal(k)} \cup (IF GetLocal(k) = Missing /\ build_cache(where) # "none" THEN FileBodies ELSE {}) :
         /\ body # Missing
         /\ WithFile("root", k, [at |-> hour, body |-> body])

\* A purge in another terminal.
FileGoes(dir, name) ==
    /\ Changed /\ name \in DOMAIN held[dir]
    /\ held' = [held EXCEPT ![dir] = [n \in DOMAIN @ \ {name} |-> @[n]]]

HourPasses == hour < LastHour /\ hour' = hour + 1 /\ UNCHANGED <<where, held, command, changes>>

-----------------------------------------------------------------------------
(* The commands.                                                           *)

NoCommand == [at |-> "none"]
CommandExits(code) == command' = [command EXCEPT !.at = "done", !.exit = code]
Steps == UNCHANGED <<where, hour, changes>>
Tier == command.tiers[1]
MoreTiers == Len(command.tiers) > 1

\* gc without a bound, or with the recent end of a window alone, is refused.
UsageError(ask) ==
    \/ /\ ask.name = "gc"
       /\ \/ ask.older = Missing /\ ask.newer = Missing /\ ask.reasons = {}
          \/ ask.newer # Missing /\ ask.older = Missing
          \/ BadDuration(ask.older) \/ BadDuration(ask.newer)
    \/ ask.name = "show" /\ ask.key \notin CacheKeys

Given(ask) ==
    [ask |-> ask, tiers |-> IF ask.name \in {"gc", "clear"} THEN PurgedTiers(where) ELSE local_root(where),
     at |-> "open", exit |-> Missing, now |-> hour, todo |-> {}, doomed |-> Missing, counts |-> <<>>,
     found |-> <<>>, rows |-> <<>>, truncated |-> FALSE, shown |-> Missing,
     since |-> hour, before |-> held, removed |-> {}, stuck |-> {}]

execute(ask) ==
    /\ command = NoCommand
    /\ command' = IF UsageError(ask) THEN [Given(ask) EXCEPT !.at = "done", !.exit = "usage"]
                  ELSE IF ask.name = "path" THEN [Given(ask) EXCEPT !.at = "done", !.exit = "ok"]
                  ELSE [Given(ask) EXCEPT !.at = CASE ask.name \in {"gc", "stats"} -> "count"
                                                   [] ask.name = "clear" -> "open"
                                                   [] ask.name = "ls" -> "scan"
                                                   [] ask.name = "show" -> "look"]
    /\ Steps /\ UNCHANGED held

\* A directory that cannot be read ends the command, whatever it has done so far.
infra == command.at \in {"count", "open", "walk", "scan"} /\ CommandExits("infra") /\ Steps /\ UNCHANGED held

\* stats, which gc shows its result against.
stats ==
    LET count == Cardinality({n \in DOMAIN held[Tier] : IsJson(n)})
        counted == [command EXCEPT !.counts = Append(@, count)]
    IN /\ command.at = "count"
       /\ command' = IF command.ask.name = "gc" THEN [counted EXCEPT !.at = "open"]
                     ELSE IF MoreTiers THEN [counted EXCEPT !.tiers = Tail(@)]
                     ELSE [counted EXCEPT !.at = "done", !.exit = "ok"]
       /\ Steps /\ UNCHANGED held

\* purge: the cutoffs are taken once in a tier.
OpenTier ==
    /\ command.at = "open"
    /\ command' = [command EXCEPT !.at = "walk", !.now = hour, !.todo = FileNames]
    /\ Steps /\ UNCHANGED held

InspectFile(n) ==
    /\ command.at = "walk" /\ command.doomed = Missing /\ n \in command.todo
    /\ command' = IF /\ n \in DOMAIN held[Tier] /\ IsJson(n)
                     /\ should_remove(PurgeFilter(command.ask), held[Tier][n], command.now)
                  THEN [command EXCEPT !.todo = @ \ {n}, !.doomed = [name |-> n, seen |-> held[Tier][n]]]
                  ELSE [command EXCEPT !.todo = @ \ {n}]
    /\ Steps /\ UNCHANGED held

\* A file that cannot be removed, or has gone, is not counted, and the walk goes on.
RemoveFile ==
    LET n == command.doomed.name IN
    /\ command.at = "walk" /\ command.doomed # Missing
    /\ \/ /\ n \in DOMAIN held[Tier]
          /\ command' = [command EXCEPT !.doomed = Missing,
                            !.removed = @ \cup {[dir |-> Tier, name |-> n, seen |-> command.doomed.seen,
                                                 file |-> held[Tier][n], now |-> command.now]}]
          /\ held' = [held EXCEPT ![Tier] = [m \in DOMAIN @ \ {n} |-> @[m]]]
       \/ /\ command' = [command EXCEPT !.doomed = Missing, !.stuck = @ \cup {<<Tier, n>>}]
          /\ UNCHANGED held
    /\ Steps

\* purge_tiers: the next tier, with the same filter.
TierDone ==
    /\ command.at = "walk" /\ command.todo = {} /\ command.doomed = Missing
    /\ command' = IF MoreTiers
                  THEN [command EXCEPT !.tiers = Tail(@), !.at = IF command.ask.name = "gc" THEN "count" ELSE "open"]
                  ELSE [command EXCEPT !.at = "done", !.exit = "ok"]
    /\ Steps /\ UNCHANGED held

\* The newest first; names that are no key are left out.
enumerate(files) ==
    SetToSortSeq(DOMAIN files \cap CacheKeys,
                 LAMBDA a, b : files[a].at > files[b].at \/ (files[a].at = files[b].at /\ a < b))

Scan ==
    LET all == enumerate(held[Tier])
        kept == SubSeq(all, 1, IF Len(all) > MAX_SCAN THEN MAX_SCAN ELSE Len(all))
    IN /\ command.at = "scan"
       /\ command' = [command EXCEPT !.at = "row", !.truncated = @ \/ Len(all) > MAX_SCAN,
                         !.found = [n \in DOMAIN kept |-> [key |-> kept[n], at |-> held[Tier][kept[n]].at]]]
       /\ Steps /\ UNCHANGED held

\* Row::new: an entry that has gone, or is none, is listed as one that cannot be read.
ListedKind(files, k) == IF k \in DOMAIN files /\ files[k].body # Missing THEN inferred_kind(files[k].body) ELSE "unreadable"
ListedModel(files, k) == IF k \in DOMAIN files /\ files[k].body # Missing THEN files[k].body.model ELSE Missing
NewRow(k, dir) ==
    [key |-> k, dir |-> dir, kind |-> ListedKind(held[dir], k), model |-> ListedModel(held[dir], k)]

Keeps(ask, row) == (ask.kind # Missing => row.kind = ask.kind) /\ (ask.model # Missing => row.model = ask.model)

ListRow ==
    /\ command.at = "row" /\ command.found # <<>>
    /\ command' = [command EXCEPT !.found = Tail(@),
                      !.rows = Append(@, NewRow(command.found[1].key, Tier))]
    /\ Steps /\ UNCHANGED held

\* ls: filtered, and cut off at the limit.
ls ==
    LET rows == SelectSeq(command.rows, LAMBDA row : Keeps(command.ask, row)) IN
    /\ command.at = "row" /\ command.found = <<>>
    /\ command' = IF MoreTiers THEN [command EXCEPT !.tiers = Tail(@), !.at = "scan"]
                  ELSE [command EXCEPT !.at = "done", !.exit = "ok",
                           !.rows = SubSeq(rows, 1, IF Len(rows) > command.ask.limit THEN command.ask.limit ELSE Len(rows))]
    /\ Steps /\ UNCHANGED held

\* show: the entry of the first tier that gives one.
show ==
    LET k == command.ask.key
        body == IF k \in DOMAIN held[Tier] THEN held[Tier][k].body ELSE Missing
    IN /\ command.at = "look"
       /\ command' = IF body # Missing THEN [command EXCEPT !.at = "done", !.exit = "ok", !.shown = body]
                     ELSE IF MoreTiers THEN [command EXCEPT !.tiers = Tail(@)]
                     ELSE [command EXCEPT !.at = "done", !.exit = "infra"]
       /\ Steps /\ UNCHANGED held

CommandsInit ==
    /\ where \in CommandSites
    /\ held \in StartingFiles
    /\ hour = 0 /\ changes = 0
    /\ command = NoCommand

Beside ==
    \/ \E k \in CacheKeys : RunReads(k) \/ \E dir \in {"root", "legacy"}, body \in FileBodies : RunWrites(dir, k, body)
    \/ \E dir \in {"root", "legacy"}, n \in FileNames : FileGoes(dir, n)
    \/ HourPasses

CommandStep ==
    \/ command = NoCommand /\ \E ask \in AskedCommands : execute(ask)
    \/ command # NoCommand /\ (stats \/ OpenTier \/ (\E n \in FileNames : InspectFile(n)) \/ RemoveFile \/ TierDone
                               \/ Scan \/ ListRow \/ ls \/ show \/ infra)

CommandsNext == (command # NoCommand => command.at # "done") /\ (CommandStep \/ Beside)

-----------------------------------------------------------------------------
Wanted(file, now) ==
    LET ask == command.ask
        hours(spec) == IF spec.unit = "d" THEN spec.n * HoursADay ELSE spec.n
    IN ask.name = "clear" \/
       (/\ ask.older # Missing => now - file.at > hours(ask.older)
        /\ ask.newer # Missing => now - file.at <= hours(ask.newer)
        /\ ask.reasons # {} => file.body # Missing /\ file.body.reason \in ask.reasons)

\* The file is older than the command, and nothing happened to it since.
Stands(dir, n) ==
    /\ n \in DOMAIN held[dir] /\ n \in DOMAIN command.before[dir]
    /\ held[dir][n] = command.before[dir][n] /\ held[dir][n].at < command.since

\* What gc and clear take is in the suite's own directories, is an entry, and was
\* what they were asked for when it was looked at; only an entry that was written
\* since under the same name goes with it.  When they end well, nothing of it is
\* left.  A listing that was not cut off has every entry that stood all the while,
\* under its own kind, and the newest first; an entry that is shown is the one that
\* a run here replays (purge_tiers, should_remove, cwd_contains, enumerate, ls).
CommandsAreExact ==
    command # NoCommand =>
        /\ \A r \in command.removed :
             /\ r.dir = "root" \/ where.inside
             /\ IsJson(r.name) /\ Wanted(r.seen, r.now)
             /\ r.file = r.seen \/ r.file.at >= r.now
        /\ command.at = "done" /\ command.exit = "ok" =>
             /\ command.ask.name \in {"gc", "clear"} =>
                  \A d \in {"root", "legacy"}, n \in FileNames :
                    /\ n \in DOMAIN command.before[d] /\ IsJson(n)
                    /\ d = "root" \/ (where.inside /\ where.legacy_is_dir /\ ~where.same /\ ~where.explicit)
                    /\ Wanted(command.before[d][n], command.since)
                    /\ Wanted(command.before[d][n], hour) /\ <<d, n>> \notin command.stuck
                    => ~Stands(d, n)
             /\ command.ask.name = "ls" /\ ~command.truncated /\ Len(command.rows) < command.ask.limit =>
                  \A i \in DOMAIN local_root(where), k \in CacheKeys :
                    LET d == local_root(where)[i]
                        row == [key |-> k, dir |-> d, kind |-> ListedKind(held[d], k), model |-> ListedModel(held[d], k)]
                    IN Stands(d, k) /\ Keeps(command.ask, row) => \E n \in DOMAIN command.rows : command.rows[n] = row
             /\ command.ask.name = "ls" =>
                  \A m, n \in DOMAIN command.rows :
                    LET a == command.rows[m] b == command.rows[n] IN
                    m < n /\ a.dir = b.dir /\ Stands(a.dir, a.key) /\ Stands(b.dir, b.key) =>
                        held[a.dir][a.key].at >= held[b.dir][b.key].at
             /\ command.ask.name = "show" =>
                  LET k == command.ask.key IN
                  /\ changes = 0 /\ (k \in DOMAIN held["root"] => held["root"][k].body # Missing)
                  => command.shown = GetLocal(k)
=============================================================================
