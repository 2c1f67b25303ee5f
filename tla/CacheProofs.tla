----------------------------- MODULE CacheProofs -----------------------------
(***************************************************************************)
(* The cache tiers for any clients, directories, keys and entries: no      *)
(* reader meets a torn or foreign entry, and where writers do not share a  *)
(* directory the tiers implement one immutable store.                      *)
(***************************************************************************)
EXTENDS CacheTiers, TLAPS

Labels == {"idle", "read", "fetch", "exists", "write", "rename", "push", "head", "upload",
           "inspect", "remove"}
Ops == [kind : {None, "get", "put", "clear", "evict"}, key : Keys \cup {None}]
Endings == {"no", "hit", "miss", "ok", "error"}

TiersTypeOK ==
    /\ site \in Sites
    /\ file \in [Dirs -> [Keys -> Entries \cup {None, Partial}]]
    /\ temp \in [Dirs -> [Clients -> Entries \cup {None, Partial}]]
    /\ remote \in [Keys -> Entries \cup {None}]
    /\ pc \in [Clients -> Labels]
    /\ op \in [Clients -> Ops]
    /\ entry \in [Clients -> Entries \cup {None}]
    /\ result \in [Clients -> [ended : Endings, op : Ops, entry : Entries \cup {None}]]
    /\ offered \in [Keys -> SUBSET Entries]

\* The labels at which a client has an entry to store, and where a writer works.
Storing == {"exists", "write", "rename", "push", "head", "upload"}

\* What each client is doing fits where it is: a reader reads, only one that
\* writes goes to the remote tier, and what it stores was offered for its key.
Busy(c) ==
    /\ pc[c] # "idle" => op[c].key \in Keys
    /\ pc[c] \in {"read", "fetch"} => op[c].kind = "get"
    /\ pc[c] \in Storing => op[c].kind \in {"get", "put"} /\ entry[c] \in offered[op[c].key]
    /\ pc[c] \in {"push", "head", "upload"} => op[c].kind = "put"
    /\ pc[c] = "rename" => temp[Dir[c]][c] = entry[c]

\* How the last operation of a client ended.
EndedRight(c) ==
    /\ result[c].ended = "hit" => /\ result[c].op.key \in Keys
                                  /\ result[c].entry \in offered[result[c].op.key]
    /\ result[c].ended = "error" => result[c].op.kind = "put" /\ WriteFaults

\* Every tier holds what was offered under that key.
TiersHoldOffers ==
    \A k \in Keys : /\ remote[k] # None => remote[k] \in offered[k]
                    /\ \A d \in Dirs : file[d][k] # None => file[d][k] \in offered[k]

Whole == TiersTypeOK /\ TiersHoldOffers /\ \A c \in Clients : Busy(c) /\ EndedRight(c)

LEMMA SiteType ==
    ASSUME TiersTypeOK
    PROVE  /\ Dir \in [Clients -> Dirs]
           /\ RemoteKind \in {"server", "s3", "none"}
           /\ Purgers \subseteq Clients
BY TiersAssumption DEF TiersTypeOK, Dir, RemoteKind, Purgers

LEMMA WholeInit == Init => Whole
<1> SUFFICES ASSUME Init PROVE Whole
  OBVIOUS
<1>1. TiersTypeOK
  BY DEF Init, TiersTypeOK, Names, NoOp, NoResult, Ops, Endings, Labels
<1>2. TiersHoldOffers
  BY DEF Init, TiersHoldOffers
<1>3. \A c \in Clients : Busy(c) /\ EndedRight(c)
  BY DEF Init, Busy, EndedRight, NoResult, Storing
<1> QED
  BY <1>1, <1>2, <1>3 DEF Whole

-----------------------------------------------------------------------------
(* What a step of one client leaves to the others.                         *)

\* The offers only grow, and nobody else's operation or temp file changes.
LEMMA OthersStay ==
    ASSUME Whole, TiersTypeOK', NEW c \in Clients, site' = site,
           \A k \in Keys : offered[k] \subseteq offered'[k],
           \A d \in Clients \ {c} :
              /\ pc'[d] = pc[d] /\ op'[d] = op[d] /\ entry'[d] = entry[d]
              /\ result'[d] = result[d] /\ temp'[Dir[d]][d] = temp[Dir[d]][d],
           TiersHoldOffers', Busy(c)', EndedRight(c)'
    PROVE  Whole'
<1>1. ASSUME NEW d \in Clients, d # c PROVE Busy(d)' /\ EndedRight(d)'
  <2>1. Dir' = Dir
    BY DEF Dir
  <2>2. Busy(d) /\ EndedRight(d)
    BY DEF Whole
  <2>3. Busy(d)'
    BY <1>1, <2>1, <2>2 DEF Busy, Storing
  <2>4. EndedRight(d)'
    BY <1>1, <2>2 DEF EndedRight
  <2> QED
    BY <2>3, <2>4
<1> QED
  BY <1>1 DEF Whole

\* One client moved, and ended rightly if it ended; the others did not.
Moved(c) ==
    /\ pc' \in [Clients -> Labels]
    /\ result' \in [Clients -> [ended : Endings, op : Ops, entry : Entries \cup {None}]]
    /\ \A d \in Clients \ {c} : pc'[d] = pc[d] /\ result'[d] = result[d]
    /\ Busy(c)' /\ EndedRight(c)'

LEMMA Returned ==
    ASSUME Whole, NEW c \in Clients, NEW ended \in Endings, Return(c, ended),
           UNCHANGED <<op, offered>>,
           ended = "hit" => op[c].key \in Keys /\ entry[c] \in offered[op[c].key],
           ended = "error" => op[c].kind = "put" /\ WriteFaults
    PROVE  Moved(c)
<1>1. /\ pc' = [pc EXCEPT ![c] = "idle"]
      /\ result' = [result EXCEPT ![c] = [ended |-> ended, op |-> op[c], entry |-> entry[c]]]
  BY DEF Return, Goto
<1>2. op[c] \in Ops /\ entry[c] \in Entries \cup {None}
  BY DEF Whole, TiersTypeOK
<1>3. /\ pc'[c] = "idle"
      /\ result'[c] = [ended |-> ended, op |-> op[c], entry |-> entry[c]]
      /\ \A d \in Clients \ {c} : pc'[d] = pc[d] /\ result'[d] = result[d]
  BY <1>1 DEF Whole, TiersTypeOK
<1>4. /\ pc' \in [Clients -> Labels]
      /\ result' \in [Clients -> [ended : Endings, op : Ops, entry : Entries \cup {None}]]
  BY <1>1, <1>2 DEF Whole, TiersTypeOK, Labels
<1>5. Busy(c)'
  BY <1>3 DEF Busy, Storing
<1>6. EndedRight(c)'
  BY <1>3 DEF EndedRight
<1> QED
  BY <1>3, <1>4, <1>5, <1>6 DEF Moved

LEMMA WentOn ==
    ASSUME Whole, NEW c \in Clients, NEW label \in Labels, Goto(c, label), UNCHANGED result,
           \A k \in Keys : offered[k] \subseteq offered'[k],
           pc'[c] = label => Busy(c)'
    PROVE  Moved(c)
<1>1. pc' = [pc EXCEPT ![c] = label]
  BY DEF Goto
<1>2. pc'[c] = label /\ \A d \in Clients \ {c} : pc'[d] = pc[d]
  BY <1>1 DEF Whole, TiersTypeOK
<1>3. EndedRight(c)'
  BY DEF Whole, EndedRight
<1> QED
  BY <1>1, <1>2, <1>3 DEF Moved, Whole, TiersTypeOK

\* The tiers hold entries, or what one client just put there.
LEMMA MovedKeeps ==
    ASSUME Whole, NEW c \in Clients, Moved(c), UNCHANGED <<site, op, offered>>,
           entry' \in [Clients -> Entries \cup {None}],
           \A d \in Clients \ {c} : entry'[d] = entry[d],
           file' \in [Dirs -> [Keys -> Entries \cup {None, Partial}]],
           temp' \in [Dirs -> [Clients -> Entries \cup {None, Partial}]],
           \A d \in Clients \ {c} : temp'[Dir[d]][d] = temp[Dir[d]][d],
           remote' \in [Keys -> Entries \cup {None}],
           TiersHoldOffers'
    PROVE  Whole'
<1>1. TiersTypeOK'
  BY DEF Moved, Whole, TiersTypeOK
<1> QED
  BY <1>1, OthersStay DEF Moved

\* Where an operation goes after its local write, with an entry that was offered.
LEMMA LocalDoneMoves ==
    ASSUME Whole, NEW c \in Clients, pc[c] \in Storing, LocalDone(c),
           UNCHANGED <<site, op, entry, offered>>
    PROVE  Moved(c)
<1>0. Busy(c) /\ op[c].key \in Keys /\ entry[c] \in offered[op[c].key]
  BY DEF Whole, Busy, Storing
<1>1. CASE op[c].kind = "get" /\ Return(c, "hit")
  BY <1>0, <1>1, Returned DEF Endings
<1>2. CASE op[c].kind = "put" /\ Return(c, "ok")
  BY <1>0, <1>2, Returned DEF Endings
<1>3. ASSUME NEW label \in {"push", "head"}, op[c].kind = "put", Goto(c, label), UNCHANGED result
      PROVE  Moved(c)
  <2>1. pc'[c] = label => Busy(c)'
    BY <1>0, <1>3 DEF Busy, Storing
  <2> QED
    BY <1>3, <2>1, WentOn DEF Labels
<1> QED
  BY <1>1, <1>2, <1>3 DEF LocalDone

\* Writing to a file, and to the client's own temp file.
LEMMA SetFileType ==
    ASSUME Whole, NEW c \in Clients, NEW k \in Keys, NEW e \in Entries \cup {None, Partial},
           SetFile(c, k, e)
    PROVE  /\ file' \in [Dirs -> [Keys -> Entries \cup {None, Partial}]]
           /\ \A d \in Dirs, j \in Keys :
                 file'[d][j] = IF d = Dir[c] /\ j = k THEN e ELSE file[d][j]
<1>1. Dir[c] \in Dirs
  BY SiteType DEF Whole
<1> QED
  BY <1>1 DEF SetFile, Whole, TiersTypeOK

LEMMA SetTempType ==
    ASSUME Whole, NEW c \in Clients, NEW e \in Entries \cup {None, Partial}, SetTemp(c, e)
    PROVE  /\ temp' \in [Dirs -> [Clients -> Entries \cup {None, Partial}]]
           /\ temp'[Dir[c]][c] = e
           /\ \A d \in Clients \ {c} : temp'[Dir[d]][d] = temp[Dir[d]][d]
<1>1. Dir \in [Clients -> Dirs]
  BY SiteType DEF Whole
<1> QED
  BY <1>1 DEF SetTemp, TempName, Whole, TiersTypeOK

\* Offers and tiers stay as they are.
LEMMA HoldUnchanged ==
    ASSUME Whole, UNCHANGED <<file, remote, offered>>
    PROVE  TiersHoldOffers'
BY DEF Whole, TiersHoldOffers

-----------------------------------------------------------------------------
(* The steps of an operation.                                              *)

LEMMA ReadingKeeps ==
    ASSUME Whole, NEW c \in Clients, site' = site, ReadLocal(c) \/ FetchRemote(c)
    PROVE  Whole'
<1>0. /\ Busy(c) /\ op[c].key \in Keys /\ op[c].kind = "get"
      /\ Dir[c] \in Dirs
      /\ UNCHANGED <<file, temp, remote, op, offered>>
  BY SiteType DEF Whole, Busy, ReadLocal, FetchRemote
<1>1. TiersHoldOffers'
  BY <1>0, HoldUnchanged
<1>2. CASE ReadLocal(c)
  <2> DEFINE f == file[Dir[c]][op[c].key]
  <2>1. entry' = entry
    BY <1>2 DEF ReadLocal
  <2>2. f # None => f \in offered[op[c].key] /\ f \in Entries /\ f # Partial
    BY <1>0, TiersAssumption DEF Whole, TiersHoldOffers, TiersTypeOK
  <2>3. ASSUME f \in Entries, Goto(c, "idle"),
               result' = [result EXCEPT ![c] = [ended |-> "hit", op |-> op[c], entry |-> f]]
        PROVE  Moved(c)
    <3>1. f # None /\ f \in offered[op[c].key] /\ op[c] \in Ops
      BY <1>0, <2>2, <2>3, TiersAssumption DEF Whole, TiersTypeOK
    <3>2. /\ pc' \in [Clients -> Labels]
          /\ pc'[c] = "idle"
          /\ \A d \in Clients \ {c} : pc'[d] = pc[d]
      BY <2>3 DEF Goto, Labels, Whole, TiersTypeOK
    <3>3. /\ result' \in [Clients -> [ended : Endings, op : Ops, entry : Entries \cup {None}]]
          /\ result'[c] = [ended |-> "hit", op |-> op[c], entry |-> f]
          /\ \A d \in Clients \ {c} : result'[d] = result[d]
      BY <2>3, <3>1 DEF Endings, Whole, TiersTypeOK
    <3>4. EndedRight(c)'
      BY <1>0, <3>1, <3>3 DEF EndedRight
    <3>5. Busy(c)'
      BY <3>2 DEF Busy, Storing
    <3> QED
      BY <3>2, <3>3, <3>4, <3>5 DEF Moved
  <2>4. ASSUME Return(c, "miss") PROVE Moved(c)
    BY <1>0, <2>1, <2>4, Returned DEF Endings
  <2>5. ASSUME Goto(c, "fetch"), UNCHANGED result PROVE Moved(c)
    <3>1. pc'[c] = "fetch" => Busy(c)'
      BY <1>0 DEF Busy, Storing
    <3>2. \A k \in Keys : offered[k] \subseteq offered'[k]
      BY <1>0
    <3> QED
      BY <2>5, <3>1, <3>2, WentOn DEF Labels
  <2>6. \/ /\ f \in Entries /\ Goto(c, "idle")
           /\ result' = [result EXCEPT ![c] = [ended |-> "hit", op |-> op[c], entry |-> f]]
        \/ Return(c, "miss")
        \/ Goto(c, "fetch") /\ UNCHANGED result
    BY <1>2, <2>2 DEF ReadLocal, None, Partial
  <2>7. Moved(c)
    BY <2>3, <2>4, <2>5, <2>6
  <2> QED
    BY <1>0, <1>1, <2>1, <2>7, MovedKeeps DEF Whole, TiersTypeOK
<1>3. CASE FetchRemote(c)
  <2>1. ASSUME remote[op[c].key] # None, Goto(c, "exists"), UNCHANGED result,
               entry' = [entry EXCEPT ![c] = remote[op[c].key]]
        PROVE  Whole'
    <3>1. /\ entry' \in [Clients -> Entries \cup {None}]
          /\ entry'[c] \in offered[op[c].key]
          /\ \A d \in Clients \ {c} : entry'[d] = entry[d]
      BY <1>0, <2>1 DEF Whole, TiersTypeOK, TiersHoldOffers
    <3>2. pc'[c] = "exists" => Busy(c)'
      BY <1>0, <3>1 DEF Busy, Storing
    <3>3. Moved(c)
      BY <1>0, <2>1, <3>2, WentOn DEF Labels
    <3> QED
      BY <1>0, <1>1, <3>1, <3>3, MovedKeeps DEF Whole, TiersTypeOK
  <2>2. ASSUME RemoteMissed(c), UNCHANGED entry PROVE Whole'
    <3>1. Moved(c)
      BY <1>0, <2>2, Returned DEF RemoteMissed, Endings
    <3> QED
      BY <1>0, <1>1, <2>2, <3>1, MovedKeeps DEF Whole, TiersTypeOK
  <2> QED
    BY <1>3, <2>1, <2>2 DEF FetchRemote
<1> QED
  BY <1>2, <1>3

\* The local write: only an entry that was written whole is moved to its path.
LEMMA WritingKeeps ==
    ASSUME Whole, NEW c \in Clients, site' = site,
           CheckExists(c) \/ WriteTemp(c) \/ Rename(c) \/ RenameFails(c)
    PROVE  Whole'
<1>0. /\ pc[c] \in Storing
      /\ UNCHANGED <<site, remote, op, entry, offered>>
  BY DEF CheckExists, WriteTemp, Rename, RenameFails, Storing
<1>1. /\ Busy(c) /\ op[c].key \in Keys /\ Dir[c] \in Dirs
      /\ op[c].kind \in {"get", "put"} /\ entry[c] \in offered[op[c].key]
      /\ entry[c] \in Entries
  BY <1>0, SiteType, TiersAssumption DEF Whole, Busy, Storing, TiersTypeOK
<1>2. ASSUME WriteFaults, Return(c, AfterFailure(c)) PROVE Moved(c)
  BY <1>0, <1>1, <1>2, Returned DEF AfterFailure, Endings
<1>3. CASE CheckExists(c)
  <2>0. UNCHANGED file
    BY <1>3 DEF CheckExists
  <2>1. ASSUME LocalDone(c), UNCHANGED temp PROVE Whole'
    BY <1>0, <2>0, <2>1, LocalDoneMoves, HoldUnchanged, MovedKeeps DEF Whole, TiersTypeOK
  <2>2. ASSUME SetTemp(c, Partial), Goto(c, "write"), UNCHANGED result PROVE Whole'
    <3>1. pc'[c] = "write" => Busy(c)'
      BY <1>0, <1>1 DEF Busy, Storing
    <3>2. Moved(c)
      BY <1>0, <2>2, <3>1, WentOn DEF Labels
    <3>3. /\ temp' \in [Dirs -> [Clients -> Entries \cup {None, Partial}]]
          /\ \A d \in Clients \ {c} : temp'[Dir[d]][d] = temp[Dir[d]][d]
      BY <2>2, SetTempType
    <3> QED
      BY <1>0, <2>0, <3>2, <3>3, HoldUnchanged, MovedKeeps DEF Whole, TiersTypeOK
  <2> QED
    BY <1>3, <2>1, <2>2 DEF CheckExists
<1>4. CASE WriteTemp(c)
  <2>0. UNCHANGED file
    BY <1>4 DEF WriteTemp
  <2>1. ASSUME SetTemp(c, entry[c]), Goto(c, "rename"), UNCHANGED result PROVE Whole'
    <3>1. /\ temp' \in [Dirs -> [Clients -> Entries \cup {None, Partial}]]
          /\ temp'[Dir[c]][c] = entry[c]
          /\ \A d \in Clients \ {c} : temp'[Dir[d]][d] = temp[Dir[d]][d]
      BY <1>1, <2>1, SetTempType
    <3>2. pc'[c] = "rename" => Busy(c)'
      BY <1>0, <1>1, <3>1 DEF Busy, Storing, Dir
    <3>3. Moved(c)
      BY <1>0, <2>1, <3>2, WentOn DEF Labels
    <3> QED
      BY <1>0, <2>0, <3>1, <3>3, HoldUnchanged, MovedKeeps DEF Whole, TiersTypeOK
  <2>2. ASSUME WriteFaults, Return(c, AfterFailure(c)), UNCHANGED temp PROVE Whole'
    BY <1>0, <1>2, <2>0, <2>2, HoldUnchanged, MovedKeeps DEF Whole, TiersTypeOK
  <2> QED
    BY <1>4, <2>1, <2>2 DEF WriteTemp
<1>5. CASE Rename(c) \/ RenameFails(c)
  <2>1. temp[Dir[c]][c] = entry[c] /\ temp[Dir[c]][c] # None
    BY <1>1, <1>5, TiersAssumption DEF Busy, Rename, RenameFails
  <2>2. /\ temp' \in [Dirs -> [Clients -> Entries \cup {None, Partial}]]
        /\ \A d \in Clients \ {c} : temp'[Dir[d]][d] = temp[Dir[d]][d]
    BY <1>5, SetTempType DEF Rename, RenameFails
  <2>3. CASE Rename(c)
    <3>1. /\ file' \in [Dirs -> [Keys -> Entries \cup {None, Partial}]]
          /\ \A d \in Dirs, j \in Keys :
                file'[d][j] = IF d = Dir[c] /\ j = op[c].key THEN entry[c] ELSE file[d][j]
      BY <1>1, <2>1, <2>3, SetFileType DEF Rename, TempName
    <3>2. TiersHoldOffers'
      BY <1>0, <1>1, <3>1 DEF Whole, TiersHoldOffers
    <3>3. Moved(c)
      BY <1>0, <2>3, LocalDoneMoves DEF Rename
    <3> QED
      BY <1>0, <2>2, <3>1, <3>2, <3>3, MovedKeeps DEF Whole, TiersTypeOK
  <2>4. CASE RenameFails(c)
    <3>1. UNCHANGED file /\ WriteFaults
      BY <2>1, <2>4 DEF RenameFails, TempName
    <3>2. Moved(c)
      BY <1>0, <1>2, <2>4, <3>1, LocalDoneMoves DEF RenameFails
    <3> QED
      BY <1>0, <2>2, <3>1, <3>2, HoldUnchanged, MovedKeeps DEF Whole, TiersTypeOK
  <2> QED
    BY <1>5, <2>3, <2>4
<1> QED
  BY <1>3, <1>4, <1>5

\* The remote tier gets an entry that was offered.
LEMMA SendingKeeps ==
    ASSUME Whole, NEW c \in Clients, site' = site,
           PushServer(c) \/ HeadObject(c) \/ PutObject(c)
    PROVE  Whole'
<1>0. /\ pc[c] \in {"push", "head", "upload"}
      /\ UNCHANGED <<site, file, temp, op, entry, offered>>
  BY DEF PushServer, HeadObject, PutObject
<1>1. /\ Busy(c) /\ op[c].key \in Keys /\ op[c].kind = "put"
      /\ entry[c] \in offered[op[c].key] /\ entry[c] \in Entries
  BY <1>0 DEF Whole, Busy, Storing, TiersTypeOK
<1>2. ASSUME Return(c, "ok") PROVE Moved(c)
  BY <1>0, <1>2, Returned DEF Endings
<1>3. ASSUME Goto(c, "upload"), UNCHANGED result PROVE Moved(c)
  <2>1. pc'[c] = "upload" => Busy(c)'
    BY <1>0, <1>1 DEF Busy, Storing
  <2>2. \A k \in Keys : offered[k] \subseteq offered'[k]
    BY <1>0
  <2> QED
    BY <1>3, <2>1, <2>2, WentOn DEF Labels
<1>4. Moved(c)
  BY <1>2, <1>3 DEF PushServer, HeadObject, PutObject
<1>5. remote' = remote \/ remote' = [remote EXCEPT ![op[c].key] = entry[c]]
  BY DEF PushServer, HeadObject, PutObject
<1>6. remote' \in [Keys -> Entries \cup {None}] /\ TiersHoldOffers'
  BY <1>0, <1>1, <1>5 DEF Whole, TiersTypeOK, TiersHoldOffers
<1> QED
  BY <1>0, <1>4, <1>6, MovedKeeps DEF Whole, TiersTypeOK

\* A purge only removes.
LEMMA PurgingKeeps ==
    ASSUME Whole, NEW c \in Clients, site' = site, Inspect(c) \/ Unlink(c)
    PROVE  Whole'
<1>0. /\ op[c].key \in Keys /\ Dir[c] \in Dirs
      /\ UNCHANGED <<temp, remote, op, entry, result, offered>>
  BY SiteType DEF Whole, Busy, Inspect, Unlink
<1>1. PICK label \in {"idle", "remove"} : Goto(c, label)
  BY DEF Inspect, Unlink
<1>2. pc'[c] = label => Busy(c)'
  BY <1>0 DEF Busy, Storing
<1>3. \A k \in Keys : offered[k] \subseteq offered'[k]
  BY <1>0
<1>4. Moved(c)
  BY <1>0, <1>1, <1>2, <1>3, WentOn DEF Labels
<1>5. file' \in [Dirs -> [Keys -> Entries \cup {None, Partial}]] /\ TiersHoldOffers'
  <2>1. CASE UNCHANGED file
    BY <1>0, <2>1, HoldUnchanged DEF Whole, TiersTypeOK
  <2>2. CASE SetFile(c, op[c].key, None)
    BY <1>0, <2>2, SetFileType DEF Whole, TiersHoldOffers
  <2> QED
    BY <2>1, <2>2 DEF Inspect, Unlink
<1> QED
  BY <1>0, <1>4, <1>5, MovedKeeps DEF Whole, TiersTypeOK

\* An operation begins, a process dies, or the server prunes.
LEMMA BeginningKeeps ==
    ASSUME Whole, NEW c \in Clients, NEW k \in Keys, site' = site,
           \/ BeginGet(c, k)
           \/ \E e \in Entries : BeginPut(c, k, e)
           \/ \E kind \in {"clear", "evict"} : BeginPurge(c, k, kind)
    PROVE  Whole'
<1>1. PICK kind \in {"get", "put", "clear", "evict"}, label \in {"read", "exists", "remove", "inspect"},
           e \in Entries \cup {None} :
         /\ op' = [op EXCEPT ![c] = [kind |-> kind, key |-> k]]
         /\ pc' = [pc EXCEPT ![c] = label]
         /\ UNCHANGED <<file, temp, remote, result>>
         /\ entry' = entry \/ entry' = [entry EXCEPT ![c] = e]
         /\ offered' = IF label = "exists" THEN [offered EXCEPT ![k] = @ \cup {e}] ELSE offered
         /\ label = "read" => kind = "get"
         /\ label = "exists" => kind = "put" /\ e \in Entries /\ entry' = [entry EXCEPT ![c] = e]
  <2>1. CASE BeginGet(c, k)
    BY <2>1 DEF BeginGet, Begin, Goto
  <2>2. ASSUME NEW e \in Entries, BeginPut(c, k, e)
        PROVE  /\ op' = [op EXCEPT ![c] = [kind |-> "put", key |-> k]]
               /\ pc' = [pc EXCEPT ![c] = "exists"]
               /\ UNCHANGED <<file, temp, remote, result>>
               /\ entry' = [entry EXCEPT ![c] = e]
               /\ offered' = [offered EXCEPT ![k] = @ \cup {e}]
    BY <2>2 DEF BeginPut, Begin, Goto
  <2>3. ASSUME NEW kind \in {"clear", "evict"}, BeginPurge(c, k, kind)
        PROVE  /\ op' = [op EXCEPT ![c] = [kind |-> kind, key |-> k]]
               /\ \E label \in {"remove", "inspect"} : pc' = [pc EXCEPT ![c] = label]
               /\ UNCHANGED <<file, temp, remote, result, entry, offered>>
    BY <2>3 DEF BeginPurge, Begin, Goto
  <2> QED
    BY <2>1, <2>2, <2>3
<1>2. /\ op'[c] = [kind |-> kind, key |-> k] /\ pc'[c] = label
      /\ \A d \in Clients \ {c} : pc'[d] = pc[d] /\ op'[d] = op[d] /\ entry'[d] = entry[d]
      /\ \A j \in Keys : offered[j] \subseteq offered'[j]
      /\ label = "exists" => entry'[c] = e /\ e \in offered'[k]
  BY <1>1 DEF Whole, TiersTypeOK
<1>3. TiersTypeOK'
  <2>1. op' \in [Clients -> Ops]
    BY <1>1 DEF Whole, TiersTypeOK, Ops
  <2>2. pc' \in [Clients -> Labels] /\ entry' \in [Clients -> Entries \cup {None}]
        /\ offered' \in [Keys -> SUBSET Entries]
    BY <1>1 DEF Whole, TiersTypeOK, Labels
  <2> QED
    BY <1>1, <2>1, <2>2 DEF Whole, TiersTypeOK
<1>4. TiersHoldOffers'
  BY <1>1, <1>2 DEF Whole, TiersHoldOffers
<1>5. Busy(c)'
  BY <1>1, <1>2 DEF Busy, Storing
<1>6. EndedRight(c)'
  BY <1>1, <1>2 DEF Whole, EndedRight
<1> QED
  BY <1>1, <1>2, <1>3, <1>4, <1>5, <1>6, OthersStay

LEMMA WholeStep == Whole /\ [Next]_vars => Whole'
<1> SUFFICES ASSUME Whole, [Next]_vars PROVE Whole'
  OBVIOUS
<1>1. ASSUME NEW c \in Clients, Crash(c), site' = site PROVE Whole'
  <2>1. /\ pc' = [pc EXCEPT ![c] = "idle"] /\ result' = [result EXCEPT ![c] = NoResult]
        /\ UNCHANGED <<file, temp, remote, op, entry, offered>>
    BY <1>1 DEF Crash, Goto
  <2>2. /\ pc'[c] = "idle" /\ result'[c] = NoResult
        /\ \A d \in Clients \ {c} : pc'[d] = pc[d] /\ result'[d] = result[d]
    BY <2>1 DEF Whole, TiersTypeOK
  <2>3. /\ pc' \in [Clients -> Labels]
        /\ result' \in [Clients -> [ended : Endings, op : Ops, entry : Entries \cup {None}]]
    BY <2>1 DEF Whole, TiersTypeOK, Labels, NoResult, NoOp, Endings, Ops
  <2>4. Busy(c)' /\ EndedRight(c)'
    BY <2>2 DEF Busy, EndedRight, NoResult, Storing
  <2>5. Moved(c)
    BY <2>2, <2>3, <2>4 DEF Moved
  <2> QED
    BY <1>1, <2>1, <2>5, HoldUnchanged, MovedKeeps DEF Whole, TiersTypeOK
<1>2. ASSUME NEW K \in SUBSET Keys, PruneRemote(K), site' = site PROVE Whole'
  <2>1. /\ UNCHANGED <<file, temp, pc, op, entry, result, offered>>
        /\ remote' = [k \in Keys |-> IF k \in K THEN None ELSE remote[k]]
    BY <1>2 DEF PruneRemote
  <2>2. TiersTypeOK'
    BY <1>2, <2>1 DEF Whole, TiersTypeOK
  <2>3. TiersHoldOffers'
    BY <2>1 DEF Whole, TiersHoldOffers
  <2>4. \A c \in Clients : Busy(c)' /\ EndedRight(c)'
    BY <1>2, <2>1 DEF Whole, Busy, EndedRight, Dir
  <2> QED
    BY <2>2, <2>3, <2>4 DEF Whole
<1>3. CASE UNCHANGED vars
  BY <1>3 DEF vars, Whole, TiersTypeOK, TiersHoldOffers, Busy, EndedRight, Dir
<1> QED
  BY <1>1, <1>2, <1>3, ReadingKeeps, WritingKeeps, SendingKeeps, PurgingKeeps, BeginningKeeps
     DEF Next, ClientStep

\* Whatever the clients race, purge and crash, and whatever fails: a file, and
\* what a read returned, is a whole entry that somebody stored under that key,
\* and only a put ends in an error, when a directory cannot be written.
THEOREM ReadsAreWholeCorrect == Spec => []ReadsAreWhole
<1>1. Whole => ReadsAreWhole
  BY DEF Whole, TiersHoldOffers, EndedRight, ReadsAreWhole
<1> QED
  BY <1>1, WholeInit, WholeStep, PTL DEF Spec

-----------------------------------------------------------------------------
(* The tiers are one immutable store.                                      *)

\* Where writers do not share a directory, nobody fills the path that a writer
\* found empty, and nothing is uploaded past the server's first-write-wins.
Alone(c) ==
    /\ pc[c] \in Storing \cup {"read", "fetch"} => c \notin Purgers
    /\ pc[c] \in {"write", "rename"} => file[Dir[c]][op[c].key] = None
    /\ pc[c] \notin {"head", "upload"}

AllAlone == OwnDirectories => \A c \in Clients : Alone(c)

\* How the files change: by a rename to a path that was empty, or by a removal.
LEMMA FileSteps ==
    ASSUME Whole, AllAlone, OwnDirectories, Next
    PROVE  \/ file' = file
           \/ \E c \in Clients : /\ pc[c] = "rename" /\ file[Dir[c]][op[c].key] = None
                                 /\ SetFile(c, op[c].key, entry[c])
                                 /\ pc'[c] \notin {"write", "rename"} /\ op' = op
                                 /\ remote' = remote
                                 /\ \A d \in Clients \ {c} : pc'[d] = pc[d]
           \/ \E c \in Clients : /\ op[c].key \in Keys /\ SetFile(c, op[c].key, None)
                                 /\ op' = op /\ remote' = remote
                                 /\ pc'[c] \notin {"write", "rename"}
                                 /\ \A d \in Clients \ {c} : pc'[d] = pc[d]
<1>1. ASSUME NEW c \in Clients, Rename(c)
      PROVE  /\ pc[c] = "rename" /\ file[Dir[c]][op[c].key] = None
             /\ SetFile(c, op[c].key, entry[c])
             /\ pc'[c] \notin {"write", "rename"} /\ op' = op
             /\ remote' = remote
             /\ \A d \in Clients \ {c} : pc'[d] = pc[d]
  <2>1. temp[Dir[c]][c] = entry[c]
    BY <1>1 DEF Rename, Whole, Busy
  <2>2. \E label \in {"idle", "push", "head"} : pc' = [pc EXCEPT ![c] = label]
    BY <1>1 DEF Rename, LocalDone, Return, Goto
  <2> QED
    BY <1>1, <2>1, <2>2 DEF Rename, TempName, AllAlone, Alone, Whole, TiersTypeOK
<1>2. ASSUME NEW c \in Clients, Unlink(c)
      PROVE  /\ op[c].key \in Keys /\ SetFile(c, op[c].key, None)
             /\ op' = op /\ remote' = remote
             /\ pc'[c] \notin {"write", "rename"}
             /\ \A d \in Clients \ {c} : pc'[d] = pc[d]
  BY <1>2 DEF Unlink, Goto, Whole, TiersTypeOK, Busy
<1>3. \/ file' = file
      \/ \E c \in Clients : Rename(c) \/ Unlink(c)
  BY DEF Next, ClientStep, Crash, BeginGet, BeginPut, BeginPurge, PruneRemote, ReadLocal,
         FetchRemote, CheckExists, WriteTemp, RenameFails, PushServer, HeadObject, PutObject,
         Inspect
<1> QED
  BY <1>1, <1>2, <1>3

LEMMA OwnStep ==
    ASSUME Whole, AllAlone, OwnDirectories, NEW c \in Clients, site' = site,
           \/ ClientStep(c) \/ Crash(c)
           \/ \E k \in Keys : \/ BeginGet(c, k)
                              \/ \E e \in Entries : BeginPut(c, k, e)
                              \/ \E kind \in {"clear", "evict"} : BeginPurge(c, k, kind)
    PROVE  /\ \A d \in Clients \ {c} : pc'[d] = pc[d] /\ op'[d] = op[d]
           /\ Alone(c)'
<1>0. /\ Alone(c) /\ pc \in [Clients -> Labels] /\ op \in [Clients -> Ops]
      /\ RemoteKind = "server" /\ Purgers' = Purgers /\ Dir' = Dir
  BY DEF AllAlone, OwnDirectories, Purgers, Dir, Whole, TiersTypeOK
<1>1. ASSUME NEW label \in Labels \ {"head", "upload", "write", "rename"}, Goto(c, label),
             label \in Storing \cup {"read", "fetch"} => c \notin Purgers
      PROVE  Alone(c)' /\ \A d \in Clients \ {c} : pc'[d] = pc[d]
  BY <1>0, <1>1 DEF Goto, Alone
<1>2. CASE ReadLocal(c) \/ FetchRemote(c)
  <2>1. \E label \in {"idle", "fetch", "exists"} : Goto(c, label)
    BY <1>2 DEF ReadLocal, FetchRemote, RemoteMissed, Return
  <2>2. c \notin Purgers /\ op' = op
    BY <1>0, <1>2 DEF ReadLocal, FetchRemote, Alone
  <2> QED
    BY <1>1, <2>1, <2>2 DEF Labels
<1>3. ASSUME LocalDone(c), op' = op, pc[c] \in Storing PROVE Alone(c)' /\ \A d \in Clients \ {c} : pc'[d] = pc[d]
  <2>1. \E label \in {"idle", "push"} : Goto(c, label)
    BY <1>0, <1>3 DEF LocalDone, Return
  <2>2. c \notin Purgers
    BY <1>0, <1>3 DEF Alone
  <2> QED
    BY <1>1, <2>1, <2>2 DEF Labels
<1>4. CASE CheckExists(c)
  <2>1. c \notin Purgers /\ op' = op /\ file' = file /\ pc[c] \in Storing
    BY <1>0, <1>4 DEF CheckExists, Alone, Storing
  <2>2. ASSUME ~Exists(c), Goto(c, "write")
        PROVE  Alone(c)' /\ \A d \in Clients \ {c} : pc'[d] = pc[d]
    BY <1>0, <2>1, <2>2 DEF Goto, Exists, Alone
  <2> QED
    BY <1>3, <1>4, <2>1, <2>2 DEF CheckExists
<1>5. CASE WriteTemp(c)
  <2>1. /\ c \notin Purgers /\ op' = op /\ file' = file
        /\ file[Dir[c]][op[c].key] = None
    BY <1>0, <1>5 DEF WriteTemp, Alone, Storing
  <2>2. ASSUME Goto(c, "rename")
        PROVE  Alone(c)' /\ \A d \in Clients \ {c} : pc'[d] = pc[d]
    BY <1>0, <2>1, <2>2 DEF Goto, Alone
  <2>3. Goto(c, "rename") \/ Goto(c, "idle")
    BY <1>5 DEF WriteTemp, Return
  <2> QED
    BY <1>1, <2>1, <2>2, <2>3 DEF Labels, Storing
<1>6. CASE Rename(c) \/ RenameFails(c)
  <2>1. op' = op /\ pc[c] \in Storing
    BY <1>6 DEF Rename, RenameFails, Storing
  <2>2. LocalDone(c) \/ Goto(c, "idle")
    BY <1>6 DEF Rename, RenameFails, Return
  <2> QED
    BY <1>1, <1>3, <2>1, <2>2 DEF Labels, Storing
<1>7. CASE PushServer(c) \/ HeadObject(c) \/ PutObject(c) \/ Crash(c) \/ Inspect(c) \/ Unlink(c)
  <2>1. op' = op /\ \E label \in {"idle", "remove"} : Goto(c, label)
    BY <1>0, <1>7 DEF PushServer, HeadObject, PutObject, Crash, Inspect, Unlink, Return, Alone
  <2> QED
    BY <1>1, <2>1 DEF Labels, Storing
<1>8. ASSUME NEW k \in Keys,
             \/ BeginGet(c, k)
             \/ \E e \in Entries : BeginPut(c, k, e)
             \/ \E kind \in {"clear", "evict"} : BeginPurge(c, k, kind)
      PROVE  /\ \A d \in Clients \ {c} : pc'[d] = pc[d] /\ op'[d] = op[d]
             /\ Alone(c)'
  <2>1. /\ \E label \in {"read", "exists", "remove", "inspect"} :
              Goto(c, label) /\ (label \in {"read", "exists"} => c \notin Purgers)
        /\ \E kind : op' = [op EXCEPT ![c] = [kind |-> kind, key |-> k]]
    BY <1>8 DEF BeginGet, BeginPut, BeginPurge, Begin
  <2>2. \A d \in Clients \ {c} : op'[d] = op[d]
    BY <1>0, <2>1
  <2> QED
    BY <1>1, <2>1, <2>2 DEF Labels, Storing
<1> QED
  BY <1>2, <1>4, <1>5, <1>6, <1>7, <1>8 DEF ClientStep

LEMMA AloneStep == Whole /\ AllAlone /\ [Next]_vars => AllAlone'
<1> SUFFICES ASSUME Whole, AllAlone, [Next]_vars, OwnDirectories', NEW d \in Clients
             PROVE  Alone(d)'
  BY DEF AllAlone
<1>0. site' = site /\ Dir' = Dir /\ Purgers' = Purgers /\ RemoteKind' = RemoteKind
  BY DEF Next, vars, Dir, Purgers, RemoteKind
<1>1. OwnDirectories /\ Alone(d)
  BY <1>0 DEF OwnDirectories, AllAlone
<1>2. CASE UNCHANGED vars
  BY <1>0, <1>1, <1>2 DEF vars, Alone
<1>3. ASSUME NEW K \in SUBSET Keys, PruneRemote(K) PROVE Alone(d)'
  BY <1>0, <1>1, <1>3 DEF PruneRemote, Alone
<1>4. ASSUME NEW c \in Clients,
             \/ ClientStep(c) \/ Crash(c)
             \/ \E k \in Keys : \/ BeginGet(c, k)
                                \/ \E e \in Entries : BeginPut(c, k, e)
                                \/ \E kind \in {"clear", "evict"} : BeginPurge(c, k, kind),
             Next
      PROVE  Alone(d)'
  <2>1. Alone(c)' /\ \A b \in Clients \ {c} : pc'[b] = pc[b] /\ op'[b] = op[b]
    BY <1>0, <1>1, <1>4, OwnStep
  <2>2. CASE d = c
    BY <2>1, <2>2
  <2>3. CASE d # c /\ pc[d] \notin {"write", "rename"}
    BY <1>0, <1>1, <2>1, <2>3 DEF Alone
  <2>4. CASE d # c /\ pc[d] \in {"write", "rename"}
    <3>1. d \in Clients \ Purgers /\ file[Dir[d]][op[d].key] = None /\ pc[d] # "idle"
      BY <1>1, <2>4 DEF Alone, Storing
    <3>2. op[d].key \in Keys /\ Dir[d] \in Dirs
      BY <3>1, SiteType DEF Whole, Busy
    <3>3. file'[Dir[d]][op[d].key] = None
      <4>1. CASE file' = file
        BY <3>1, <4>1
      <4>2. ASSUME NEW b \in Clients, pc[b] = "rename", SetFile(b, op[b].key, entry[b]),
                   pc'[b] \notin {"write", "rename"}
            PROVE  file'[Dir[d]][op[d].key] = None
        <5>1. b # d
          BY <2>1, <2>4, <4>2
        <5>2. b \in Clients \ Purgers
          BY <1>1, <4>2 DEF AllAlone, Alone, Storing
        <5>3. Dir[b] # Dir[d]
          BY <1>1, <3>1, <5>1, <5>2 DEF OwnDirectories
        <5>4. op[b].key \in Keys /\ entry[b] \in Entries \cup {None}
          BY <4>2 DEF Whole, Busy, TiersTypeOK
        <5> QED
          BY <3>1, <3>2, <4>2, <5>3, <5>4, SetFileType
      <4>3. ASSUME NEW b \in Clients, op[b].key \in Keys, SetFile(b, op[b].key, None)
            PROVE  file'[Dir[d]][op[d].key] = None
        BY <3>1, <3>2, <4>3, SetFileType
      <4> QED
        BY <1>1, <1>4, <4>1, <4>2, <4>3, FileSteps
    <3> QED
      BY <1>0, <1>1, <2>1, <2>4, <3>3 DEF Alone
  <2> QED
    BY <2>2, <2>3, <2>4
<1> QED
  BY <1>2, <1>3, <1>4 DEF Next

\* What the store of the refinement holds, at a file and at the remote tier.
LEMMA StoreAt ==
    /\ \A d \in Dirs, k \in Keys :
          /\ <<d, k>> \in TierKeys
          /\ OwnDirectories => TierStore[<<d, k>>] = file[d][k]
    /\ \A k \in Keys :
          /\ <<"remote", k>> \in TierKeys
          /\ OwnDirectories => TierStore[<<"remote", k>>] = remote[k]
BY TiersAssumption DEF TierKeys, TierStore

\* One path or one key of the remote tier changed: so did the store, there.
LEMMA StoreChange ==
    ASSUME OwnDirectories, OwnDirectories', NEW x \in TierKeys, NEW e,
           \A d \in Dirs, k \in Keys :
              file'[d][k] = IF x = <<d, k>> THEN e ELSE file[d][k],
           \A k \in Keys : remote'[k] = IF x = <<"remote", k>> THEN e ELSE remote[k]
    PROVE  TierStore' = [TierStore EXCEPT ![x] = e]
<1>1. ASSUME NEW y \in TierKeys
      PROVE  TierStore'[y] = IF y = x THEN e ELSE TierStore[y]
  <2>1. CASE y[1] = "remote"
    <3>1. y[2] \in Keys /\ y = <<"remote", y[2]>>
      BY <2>1 DEF TierKeys
    <3> QED
      BY <2>1, <3>1 DEF TierStore
  <2>2. CASE y[1] # "remote"
    <3>1. y[1] \in Dirs /\ y[2] \in Keys /\ y = <<y[1], y[2]>>
      BY <2>2 DEF TierKeys
    <3> QED
      BY <2>2, <3>1 DEF TierStore
  <2> QED
    BY <2>1, <2>2
<1>2. TierStore' = [y \in TierKeys |-> TierStore'[y]] /\ TierStore = [y \in TierKeys |-> TierStore[y]]
  BY DEF TierStore, TierKeys
<1> QED
  BY <1>1, <1>2

\* The same, for a client that replaced or removed a file of its directory.
LEMMA FileChange ==
    ASSUME Whole, OwnDirectories, OwnDirectories', NEW c \in Clients, NEW k \in Keys,
           NEW e \in Entries \cup {None, Partial}, SetFile(c, k, e), remote' = remote
    PROVE  TierStore' = [TierStore EXCEPT ![<<Dir[c], k>>] = e]
<1> DEFINE x == <<Dir[c], k>>
<1>1. Dir[c] \in Dirs
  BY SiteType DEF Whole
<1>2. x \in TierKeys
  BY <1>1, StoreAt
<1>3. \A d \in Dirs, j \in Keys : file'[d][j] = IF d = Dir[c] /\ j = k THEN e ELSE file[d][j]
  BY SetFileType
<1>4. \A d \in Dirs, j \in Keys : file'[d][j] = IF x = <<d, j>> THEN e ELSE file[d][j]
  BY <1>3
<1>5. \A j \in Keys : remote'[j] = IF x = <<"remote", j>> THEN e ELSE remote[j]
  BY <1>1, TiersAssumption
<1> HIDE DEF x
<1>6. TierStore' = [TierStore EXCEPT ![x] = e]
  BY <1>2, <1>4, <1>5, StoreChange
<1> QED
  BY <1>6 DEF x

\* Every step of the tiers is a write of an empty key, a removal or a stutter.
LEMMA TiersStep == Whole /\ AllAlone /\ [Next]_vars => [Tiers!Next]_TierStore
<1> SUFFICES ASSUME Whole, AllAlone, [Next]_vars PROVE Tiers!Next \/ TierStore' = TierStore
  OBVIOUS
<1>0. site' = site /\ Dir' = Dir /\ Purgers' = Purgers /\ RemoteKind' = RemoteKind
  BY DEF Next, vars, Dir, Purgers, RemoteKind
<1>1. OwnDirectories' <=> OwnDirectories
  BY <1>0 DEF OwnDirectories
<1>2. CASE ~OwnDirectories \/ UNCHANGED <<file, remote>>
  BY <1>1, <1>2 DEF TierStore, TierKeys
<1>3. ASSUME OwnDirectories, NEW c \in Clients, pc[c] = "rename",
             file[Dir[c]][op[c].key] = None, SetFile(c, op[c].key, entry[c]), remote' = remote
      PROVE  Tiers!Next
  <2> DEFINE x == <<Dir[c], op[c].key>>
  <2>1. op[c].key \in Keys /\ Dir[c] \in Dirs /\ entry[c] \in Entries
    BY <1>3, SiteType DEF Whole, Busy, Storing, TiersTypeOK
  <2>2. x \in TierKeys /\ TierStore[x] = None
    BY <1>3, <2>1, StoreAt
  <2>3. TierStore' = [TierStore EXCEPT ![x] = entry[c]]
    BY <1>1, <1>3, <2>1, FileChange
  <2>4. Tiers!Write(x, entry[c])
    BY <2>2, <2>3 DEF Tiers!Write
  <2> QED
    BY <2>1, <2>2, <2>4 DEF Tiers!Next
<1>4. ASSUME OwnDirectories, NEW c \in Clients, op[c].key \in Keys,
             SetFile(c, op[c].key, None), remote' = remote
      PROVE  Tiers!Next
  <2> DEFINE x == <<Dir[c], op[c].key>>
  <2>1. Dir[c] \in Dirs
    BY SiteType DEF Whole
  <2>2. x \in TierKeys
    BY <1>4, <2>1, StoreAt
  <2>3. TierStore' = [TierStore EXCEPT ![x] = None]
    BY <1>1, <1>4, FileChange
  <2>4. TierStore' = [y \in TierKeys |-> IF y \in {x} THEN None ELSE TierStore[y]]
    BY <2>2, <2>3 DEF TierStore
  <2>5. Tiers!Remove({x})
    BY <2>4 DEF Tiers!Remove
  <2> QED
    BY <2>2, <2>5 DEF Tiers!Next
<1>5. ASSUME OwnDirectories, NEW K \in SUBSET Keys, PruneRemote(K) PROVE Tiers!Next
  <2> DEFINE X == {<<"remote", k>> : k \in K}
  <2>1. X \in SUBSET TierKeys
    BY StoreAt
  <2>2. UNCHANGED file /\ remote' = [k \in Keys |-> IF k \in K THEN None ELSE remote[k]]
    BY <1>5 DEF PruneRemote
  <2>3. ASSUME NEW y \in TierKeys
        PROVE  TierStore'[y] = IF y \in X THEN None ELSE TierStore[y]
    <3>1. CASE y[1] = "remote"
      <4>1. y[2] \in Keys /\ y = <<"remote", y[2]>>
        BY <3>1 DEF TierKeys
      <4>2. y \in X <=> y[2] \in K
        BY <4>1
      <4> QED
        BY <1>1, <1>5, <2>2, <3>1, <4>1, <4>2 DEF TierStore
    <3>2. CASE y[1] # "remote"
      <4>1. y \notin X
        BY <3>2
      <4> QED
        BY <1>1, <1>5, <2>2, <3>2, <4>1 DEF TierStore
    <3> QED
      BY <3>1, <3>2
  <2>4. TierStore' = [y \in TierKeys |-> IF y \in X THEN None ELSE TierStore[y]]
    BY <2>3 DEF TierStore, TierKeys
  <2>5. Tiers!Remove(X)
    BY <2>4 DEF Tiers!Remove
  <2> QED
    BY <2>1, <2>5 DEF Tiers!Next
<1>6. ASSUME OwnDirectories, NEW c \in Clients, pc[c] = "push", UNCHANGED file,
             remote[op[c].key] = None, remote' = [remote EXCEPT ![op[c].key] = entry[c]]
      PROVE  Tiers!Next
  <2> DEFINE x == <<"remote", op[c].key>>
  <2>1. op[c].key \in Keys /\ entry[c] \in Entries
    BY <1>6 DEF Whole, Busy, Storing, TiersTypeOK
  <2>2. x \in TierKeys /\ TierStore[x] = None
    BY <1>6, <2>1, StoreAt
  <2>3. \A k \in Keys : remote'[k] = IF x = <<"remote", k>> THEN entry[c] ELSE remote[k]
    BY <1>6, <2>1 DEF Whole, TiersTypeOK
  <2>4. \A d \in Dirs, k \in Keys : file'[d][k] = IF x = <<d, k>> THEN entry[c] ELSE file[d][k]
    BY <1>6, TiersAssumption
  <2>5. TierStore' = [TierStore EXCEPT ![x] = entry[c]]
    BY <1>1, <1>6, <2>2, <2>3, <2>4, StoreChange
  <2>6. Tiers!Write(x, entry[c])
    BY <2>2, <2>5 DEF Tiers!Write
  <2> QED
    BY <2>1, <2>2, <2>6 DEF Tiers!Next
<1>7. ASSUME OwnDirectories, Next, remote' # remote
      PROVE  \/ \E K \in SUBSET Keys : PruneRemote(K)
             \/ \E c \in Clients :
                   /\ pc[c] = "push" /\ UNCHANGED file /\ remote[op[c].key] = None
                   /\ remote' = [remote EXCEPT ![op[c].key] = entry[c]]
  <2>1. \/ \E K \in SUBSET Keys : PruneRemote(K)
        \/ \E c \in Clients : PushServer(c) \/ PutObject(c)
    BY <1>7 DEF Next, ClientStep, Crash, BeginGet, BeginPut, BeginPurge, ReadLocal, FetchRemote,
                CheckExists, WriteTemp, Rename, RenameFails, HeadObject, Inspect, Unlink
  <2>2. \A c \in Clients : ~PutObject(c)
    BY <1>7 DEF PutObject, AllAlone, Alone
  <2> QED
    BY <1>7, <2>1, <2>2 DEF PushServer
<1>8. ASSUME OwnDirectories, Next, file' # file, remote' = remote PROVE Tiers!Next
  BY <1>3, <1>4, <1>8, FileSteps
<1> QED
  BY <1>2, <1>5, <1>6, <1>7, <1>8 DEF vars

\* The directories and the server's table together implement one immutable store
\* at every site whose writers have a directory each: no key is given a second
\* entry, however reads, writes, purges, prunes, failures and crashes interleave.
THEOREM TiersAreImmutableCorrect == Spec => TiersAreImmutable
<1>1. Init => Tiers!Init
  BY DEF Init, Tiers!Init, TierStore, TierKeys
<1>2. Init => AllAlone
  BY DEF Init, AllAlone, Alone, Storing
<1> QED
  BY <1>1, <1>2, WholeInit, WholeStep, AloneStep, TiersStep, PTL
     DEF Spec, TiersAreImmutable, Tiers!Spec

=============================================================================
