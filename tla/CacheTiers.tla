----------------------------- MODULE CacheTiers -----------------------------
(***************************************************************************)
(* The cache below the runner: LayeredCache over a directory of files and  *)
(* a shared remote tier (domarinn-cache/src/layered.rs, disk.rs, s3.rs,    *)
(* remote_http.rs; domarinn-server/src/storage/cache.rs for the server's   *)
(* table).  Clients are calls in flight, of one process or of several;     *)
(* each action is what happens between two file system or network          *)
(* operations, and any client may crash between two of them.               *)
(***************************************************************************)
EXTENDS Integers, FiniteSets

CONSTANTS
    Clients,
    Dirs,
    Keys,
    Entries,
    Refused,     \* entries that a purge by empty reason selects
    Sites,       \* the deployments: directories, remote tier, who purges
    RemoteFaults,\* remote requests may fail
    WriteFaults, \* writing a file may fail
    Crashes      \* processes may die

None == "none"
Partial == "partial"   \* the content of a file that is being written
Names == Clients

ASSUME TiersAssumption ==
    /\ Refused \subseteq Entries
    /\ None \notin Entries /\ Partial \notin Entries /\ "remote" \notin Dirs
    /\ \A x \in Sites : /\ x.dir \in [Clients -> Dirs]
                        /\ x.remote \in {"server", "s3", "none"}
                        /\ x.purgers \subseteq Clients
                        /\ x.maxOps \in [Clients -> Nat]

VARIABLES
    site,     \* the deployment at hand: it never changes
    file,     \* directory -> key -> the entry file's content
    temp,     \* directory -> temp name -> content
    remote,   \* key -> the remote tier's entry
    pc, op,   \* where each client is, and its operation
    entry,    \* the entry it writes, or the remote one it read
    result,   \* how its last operation ended
    ops,      \* operations it began
    offered   \* history: entries somebody asked to store, by key

vars == <<site, file, temp, remote, pc, op, entry, result, ops, offered>>

\* client -> the directory of its local tier
Dir == site.dir
Purgers == site.purgers   \* clients that purge; the others read and write
RemoteKind == site.remote \* "server", "s3" or "none"
MaxOps == site.maxOps     \* bound: operations of each client

NoOp == [kind |-> None, key |-> None]
NoResult == [ended |-> "no", op |-> NoOp, entry |-> None]

-----------------------------------------------------------------------------
\* unique_suffix: the process id and a counter name the temp file.
TempNameShared(c) == CHOOSE n \in Names : TRUE    \* mutant: not unique
TempName(c) == c

\* LocalDiskCache::put begins by looking for the file.
ExistsNever(c) == FALSE                           \* mutant: check dropped
Exists(c) == file[Dir[c]][op[c].key] # None

\* How the caller of an operation sees it end when its local write failed: a put
\* propagates the error, a read that was populating the tier does not.
AfterFailure(c) == IF op[c].kind = "get" THEN "hit" ELSE "error"

\* matches_entry for a filter that names an empty reason.
Matches(e) == e \in Refused

-----------------------------------------------------------------------------
Init ==
    /\ site \in Sites
    /\ file = [d \in Dirs |-> [k \in Keys |-> None]]
    /\ temp = [d \in Dirs |-> [n \in Names |-> None]]
    /\ remote = [k \in Keys |-> None]
    /\ pc = [c \in Clients |-> "idle"]
    /\ op = [c \in Clients |-> NoOp]
    /\ entry = [c \in Clients |-> None]
    /\ result = [c \in Clients |-> NoResult]
    /\ ops = [c \in Clients |-> 0]
    /\ offered = [k \in Keys |-> {}]

Goto(c, label) == pc' = [pc EXCEPT ![c] = label]
SetFile(c, k, e) == file' = [file EXCEPT ![Dir[c]][k] = e]
SetTemp(c, content) == temp' = [temp EXCEPT ![Dir[c]][TempName(c)] = content]
Return(c, ended) ==
    /\ Goto(c, "idle")
    /\ result' = [result EXCEPT ![c] = [ended |-> ended, op |-> op[c], entry |-> entry[c]]]

\* The remote tier has nothing, or its request failed: either way, a miss.
RemoteMissed(c) == Return(c, "miss")

Begin(c, kind, k, label) ==
    /\ pc[c] = "idle" /\ ops[c] < MaxOps[c]
    /\ ops' = [ops EXCEPT ![c] = @ + 1]
    /\ op' = [op EXCEPT ![c] = [kind |-> kind, key |-> k]]
    /\ Goto(c, label)

BeginGet(c, k) ==
    /\ c \notin Purgers
    /\ Begin(c, "get", k, "read")
    /\ entry' = [entry EXCEPT ![c] = None]
    /\ UNCHANGED <<file, temp, remote, result, offered>>

BeginPut(c, k, e) ==
    /\ c \notin Purgers
    /\ Begin(c, "put", k, "exists")
    /\ entry' = [entry EXCEPT ![c] = e]
    /\ offered' = [offered EXCEPT ![k] = @ \cup {e}]
    /\ UNCHANGED <<file, temp, remote, result>>

\* LayeredCache::get: the local tier first; a file that does not parse fails.
ReadLocal(c) ==
    /\ pc[c] = "read"
    /\ LET f == file[Dir[c]][op[c].key]
       IN  \/ /\ f \in Entries
              /\ Goto(c, "idle")
              /\ result' = [result EXCEPT ![c] = [ended |-> "hit", op |-> op[c], entry |-> f]]
           \/ f = Partial /\ Return(c, "error")
           \/ f = None /\ RemoteKind = "none" /\ Return(c, "miss")
           \/ f = None /\ RemoteKind # "none" /\ Goto(c, "fetch") /\ UNCHANGED result
    /\ UNCHANGED <<file, temp, remote, op, entry, ops, offered>>

\* ... then the remote one, whose failure is a miss.
FetchRemote(c) ==
    /\ pc[c] = "fetch"
    /\ \/ /\ remote[op[c].key] # None
          /\ entry' = [entry EXCEPT ![c] = remote[op[c].key]]
          /\ Goto(c, "exists")
          /\ UNCHANGED result
       \/ /\ remote[op[c].key] = None \/ RemoteFaults
          /\ RemoteMissed(c)
          /\ UNCHANGED entry
    /\ UNCHANGED <<file, temp, remote, op, ops, offered>>

\* Where an operation goes once its local write is settled: a put goes on to the
\* remote tier, a read has what it came for.
LocalDone(c) ==
    \/ op[c].kind = "get" /\ Return(c, "hit")
    \/ op[c].kind = "put" /\ RemoteKind = "none" /\ Return(c, "ok")
    \/ op[c].kind = "put" /\ RemoteKind = "server" /\ Goto(c, "push") /\ UNCHANGED result
    \/ op[c].kind = "put" /\ RemoteKind = "s3" /\ Goto(c, "head") /\ UNCHANGED result

\* LocalDiskCache::put: the file exists already, or a temp file is opened.
CheckExists(c) ==
    /\ pc[c] = "exists"
    /\ \/ Exists(c) /\ LocalDone(c) /\ UNCHANGED temp
       \/ /\ ~Exists(c)
          /\ SetTemp(c, Partial)
          /\ Goto(c, "write")
          /\ UNCHANGED result
    /\ UNCHANGED <<file, remote, op, entry, ops, offered>>

\* The temp file is written whole, or the write fails and leaves it behind.
WriteTemp(c) ==
    /\ pc[c] = "write"
    /\ \/ SetTemp(c, entry[c]) /\ Goto(c, "rename") /\ UNCHANGED result
       \/ WriteFaults /\ Return(c, AfterFailure(c)) /\ UNCHANGED temp
    /\ UNCHANGED <<file, remote, op, entry, ops, offered>>

\* The rename, which replaces whatever is at the path by now.
Rename(c) ==
    /\ pc[c] = "rename"
    /\ temp[Dir[c]][TempName(c)] # None
    /\ SetFile(c, op[c].key, temp[Dir[c]][TempName(c)])
    /\ SetTemp(c, None)
    /\ LocalDone(c)
    /\ UNCHANGED <<remote, op, entry, ops, offered>>

\* The rename fails: the temp file is removed, and the put is fine if somebody
\* else's file is there.
RenameFails(c) ==
    /\ pc[c] = "rename"
    /\ WriteFaults \/ temp[Dir[c]][TempName(c)] = None
    /\ SetTemp(c, None)
    /\ \/ Exists(c) /\ LocalDone(c)
       \/ ~Exists(c) /\ Return(c, AfterFailure(c))
    /\ UNCHANGED <<file, remote, op, entry, ops, offered>>

\* RemoteHttpCache::put and the server's INSERT ... ON CONFLICT DO NOTHING; the
\* answer may be lost on the way back, and any failure is only logged.
PushServer(c) ==
    /\ pc[c] = "push"
    /\ \/ /\ remote[op[c].key] = None
          /\ remote' = [remote EXCEPT ![op[c].key] = entry[c]]
       \/ /\ remote[op[c].key] # None \/ RemoteFaults
          /\ UNCHANGED remote
    /\ Return(c, "ok")
    /\ UNCHANGED <<file, temp, op, entry, ops, offered>>

\* S3Cache::put: a HEAD, inconclusive when it fails, and then an upload.
HeadObject(c) ==
    /\ pc[c] = "head"
    /\ \/ remote[op[c].key] # None /\ Return(c, "ok")
       \/ /\ remote[op[c].key] = None \/ RemoteFaults
          /\ Goto(c, "upload")
          /\ UNCHANGED result
    /\ UNCHANGED <<file, temp, remote, op, entry, ops, offered>>

PutObject(c) ==
    /\ pc[c] = "upload"
    /\ \/ remote' = [remote EXCEPT ![op[c].key] = entry[c]]
       \/ RemoteFaults /\ UNCHANGED remote
    /\ Return(c, "ok")
    /\ UNCHANGED <<file, temp, op, entry, ops, offered>>

\* LocalDiskCache::purge reaches the file of a key: a filter that names nothing
\* removes it unread, one that names a reason reads it first.
BeginPurge(c, k, kind) ==
    /\ c \in Purgers
    /\ file[Dir[c]][k] # None
    /\ Begin(c, kind, k, IF kind = "clear" THEN "remove" ELSE "inspect")
    /\ UNCHANGED <<file, temp, remote, entry, result, offered>>

Inspect(c) ==
    /\ pc[c] = "inspect"
    /\ LET f == file[Dir[c]][op[c].key]
       IN  Goto(c, IF f \in Entries /\ Matches(f) THEN "remove" ELSE "idle")
    /\ UNCHANGED <<file, temp, remote, op, entry, result, ops, offered>>

Unlink(c) ==
    /\ pc[c] = "remove"
    /\ SetFile(c, op[c].key, None)
    /\ Goto(c, "idle")
    /\ UNCHANGED <<temp, remote, op, entry, result, ops, offered>>

\* cache_prune on the server: a prune or the retention task removes entries.
PruneRemote(K) ==
    /\ RemoteKind = "server"
    /\ \E k \in K : remote[k] # None
    /\ remote' = [k \in Keys |-> IF k \in K THEN None ELSE remote[k]]
    /\ UNCHANGED <<file, temp, pc, op, entry, result, ops, offered>>

\* The process of a client dies; its temp file stays.
Crash(c) ==
    /\ Crashes /\ pc[c] # "idle"
    /\ Goto(c, "idle")
    /\ result' = [result EXCEPT ![c] = NoResult]
    /\ UNCHANGED <<file, temp, remote, op, entry, ops, offered>>

ClientStep(c) ==
    \/ ReadLocal(c) \/ FetchRemote(c)
    \/ CheckExists(c) \/ WriteTemp(c) \/ Rename(c) \/ RenameFails(c)
    \/ PushServer(c) \/ HeadObject(c) \/ PutObject(c)
    \/ Inspect(c) \/ Unlink(c)

Next ==
    /\ \/ \E c \in Clients : ClientStep(c) \/ Crash(c)
       \/ \E c \in Clients, k \in Keys :
             \/ BeginGet(c, k)
             \/ \E e \in Entries : BeginPut(c, k, e)
             \/ \E kind \in {"clear", "evict"} : BeginPurge(c, k, kind)
       \/ \E K \in SUBSET Keys : PruneRemote(K)
    /\ UNCHANGED site

Spec == Init /\ [][Next]_vars

-----------------------------------------------------------------------------
\* No reader ever meets a torn file: what is at a path, and what a read returned,
\* is a whole entry that somebody stored under that key, however writers race,
\* purge and crash ("concurrent runs can never observe a torn file"); and a read
\* that ends has an answer: an outage of the remote tier, or a directory that
\* cannot be written, fails puts at most.
ReadsAreWhole ==
    /\ \A d \in Dirs, k \in Keys : file[d][k] # None => file[d][k] \in offered[k]
    /\ \A c \in Clients :
          /\ result[c].ended = "hit" => result[c].entry \in offered[result[c].op.key]
          /\ result[c].ended = "error" => result[c].op.kind = "put" /\ WriteFaults

\* The refinement: all tiers together are one immutable store, keyed by the tier
\* and the key, at a site where no two writers share a directory and the remote
\* tier is the server.
OwnDirectories ==
    /\ RemoteKind = "server"
    /\ \A c, d \in Clients \ Purgers : Dir[c] = Dir[d] => c = d
TierKeys == (Dirs \cup {"remote"}) \X Keys
TierStore ==
    [x \in TierKeys |-> IF ~OwnDirectories THEN None
                        ELSE IF x[1] = "remote" THEN remote[x[2]] ELSE file[x[1]][x[2]]]
Tiers == INSTANCE ImmutableStore WITH Keys <- TierKeys, store <- TierStore
TiersAreImmutable == Tiers!Spec

\* The first write of a key wins, on every backend: an entry at a path is never
\* replaced by another one.
FirstWriteWins ==
    [][\A d \in Dirs, k \in Keys :
          file[d][k] # None => file'[d][k] \in {file[d][k], None}]_vars

=============================================================================
