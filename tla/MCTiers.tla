------------------------------ MODULE MCTiers -------------------------------
(***************************************************************************)
(* Small instances of CacheTiers and of CacheCommands, in parts chosen by  *)
(* the initial state: runs and purges over shared tiers, and one command   *)
(* with runs and another purge beside it.                                  *)
(***************************************************************************)
EXTENDS CacheTiers, CacheCommands, TLC

VARIABLE part

tiersVars == <<vars, commandVars, part>>

-----------------------------------------------------------------------------
\* Two runs on two machines that share a server, and a purge on the first one.
OwnSite == [dir |-> [c \in Clients |-> IF c = "w2" THEN "d2" ELSE "d1"],
            remote |-> "server", purgers |-> {"p"},
            maxOps |-> [c \in Clients |-> IF c = "w1" THEN 2 ELSE 1]]

\* Two runs on one machine, with a bucket.
SharedSite == [dir |-> [c \in Clients |-> "d1"], remote |-> "s3", purgers |-> {"p"},
               maxOps |-> [c \in Clients |-> CASE c = "w1" -> 3 [] c = "w2" -> 2 [] c = "p" -> 0]]

BothSites == {OwnSite, SharedSite}

\* Two runs on one machine, and nothing else.
DiskSites == {[dir |-> [c \in Clients |-> "d1"], remote |-> "none", purgers |-> {},
               maxOps |-> [c \in Clients |-> 2]]}

-----------------------------------------------------------------------------
CommandSite(explicit, same, inside, dir, backend, s3, url) ==
    [explicit |-> explicit, same |-> same, inside |-> inside, legacy_is_dir |-> dir, backend |-> backend, s3 |-> s3, url |-> url]
AFewSites ==
    {CommandSite(TRUE, FALSE, FALSE, TRUE, "layered", FALSE, TRUE),
     CommandSite(FALSE, FALSE, TRUE, TRUE, "http", TRUE, FALSE),
     CommandSite(FALSE, FALSE, FALSE, TRUE, "disk", FALSE, TRUE)}
Body(kind, verdict, request, output, timed, reason) ==
    [kind |-> kind, verdict |-> verdict, request |-> request, output |-> output, timed |-> timed, reason |-> reason, model |-> "m"]
PlainBody == Body(Missing, Missing, Missing, "text", TRUE, Missing)
RefusedBody == Body("judge", "exec", Missing, "text", FALSE, "refusal")
ProgramBody == Body(Missing, Missing, "exec assert", "text", TRUE, Missing)
AFewBodies == {PlainBody}
AFile(at, body) == [at |-> at, body |-> body]
AFewFiles ==
    {[root |-> 1 :> AFile(-3, PlainBody) @@ 2 :> AFile(-1, RefusedBody) @@ 0 :> AFile(-2, Missing),
      legacy |-> 1 :> AFile(-2, RefusedBody) @@ (-1) :> AFile(-3, PlainBody)],
     [root |-> 1 :> AFile(-2, Missing) @@ (-1) :> AFile(0, RefusedBody),
      legacy |-> 1 :> AFile(-1, ProgramBody) @@ 2 :> AFile(-3, PlainBody)]}
Span(n, unit) == [n |-> n, unit |-> unit]
Gc(older, newer, reasons) == [name |-> "gc", older |-> older, newer |-> newer, reasons |-> reasons]
Ls(kind, model, limit) == [name |-> "ls", kind |-> kind, model |-> model, limit |-> limit]
AFewCommands ==
    {[name |-> "clear"], [name |-> "path"], [name |-> "stats"],
     Gc(Span(1, "d"), Missing, {}), Gc(Span(1, "h"), Span(1, "d"), {}), Gc(Missing, Missing, {"refusal"}),
     Gc(Missing, Span(1, "d"), {}), Gc(Span(1, "w"), Missing, {}),
     Ls(Missing, Missing, 5), Ls("judge", "m", 5), Ls("unreadable", Missing, 1), Ls("provider", Missing, 5)}
    \cup {[name |-> "show", key |-> k] : k \in {1, 2, 7}}

TiersPart == part = "tiers" /\ Next /\ UNCHANGED <<commandVars, part>>

\* The files change once the command is at work.
CommandsPart ==
    /\ part = "commands" /\ CommandsNext
    /\ command = NoCommand => changes' = 0 /\ hour' = 0
    /\ \A d \in {"root", "legacy"} : held'[d] # held[d] => d \in {local_root(where)[i] : i \in DOMAIN local_root(where)}
    /\ UNCHANGED <<vars, part>>

TiersInit ==
    /\ part \in {"tiers", "commands"}
    /\ CommandsInit
    /\ part = "tiers" => where = (CHOOSE s \in CommandSites : TRUE) /\ held = (CHOOSE h \in StartingFiles : TRUE)
    /\ Init
    /\ part = "commands" => site = OwnSite

TiersSpec == TiersInit /\ [][TiersPart \/ CommandsPart]_tiersVars
=============================================================================
