------------------------------ MODULE ClientIp ------------------------------
(***************************************************************************)
(* The address a request is booked under, the list of proxies whose header *)
(* is believed, and the warning about a proxy that is not listed, from     *)
(* src/crates/domarinn-server/src/clientip.rs.                             *)
(*                                                                         *)
(* An address is a family and an integer of the family's width; the widths *)
(* 32 and 128 are V4Bits and V6Bits, so that /96, the length of the prefix *)
(* of the IPv4-mapped block, is V6Bits - V4Bits.  Middlewares of several   *)
(* requests run at once and share one atomic, the time of the last warning.*)
(***************************************************************************)
EXTENDS Integers, Sequences, FiniteSets, FiniteSetsExt, SequencesExt

CONSTANTS V4Bits, V6Bits,
          MappedPrefix,   \* the leading bits of an IPv4-mapped address
          PrivateNets,    \* canonical addresses of private, link-local ... ranges
          Arrivals,       \* a value of DOMARINN_TRUSTED_PROXIES, a sequence of entries,
                          \* -> the requests met under it: [peer, values], a value being
                          \* a line of the header
          Middlewares,    \* requests under way at a time
          WarnEvery,      \* WARN_EVERY_SECS
          NoRequest,      \* none has gone on yet
          LastSecond      \* bound on the clock

ASSUME WidthAssumption ==
    /\ V4Bits \in Nat /\ V6Bits \in Nat /\ V4Bits < V6Bits
    /\ MappedPrefix \in 0 .. (2^(V6Bits - V4Bits) - 1)

VARIABLES list,       \* the list of this server as written
          trusted,    \* and as read when it starts
          second,     \* the wall clock
          lastWarned, \* LAST_WARNED; 0: never
          mids,       \* what each middleware has read
          served,     \* the last request that went on
          warnings    \* history: when a warning was written

clientVars == <<list, trusted, second, lastWarned, mids, served, warnings>>

----------------------------------------------------------------------------
(* Addresses and nets.                                                     *)

V4(n) == [family |-> 4, bits |-> n]
V6(n) == [family |-> 6, bits |-> n]
Mapped(n) == V6(MappedPrefix * 2^V4Bits + n)

IsMapped(ip) == ip.family = 6 /\ ip.bits \div 2^V4Bits = MappedPrefix

\* IpAddr::to_canonical: one form for an IPv4 address and its mapped twin.
ToCanonical(ip) == IF IsMapped(ip) THEN V4(ip.bits % 2^V4Bits) ELSE ip

Width(family) == IF family = 4 THEN V4Bits ELSE V6Bits

\* A mask of `prefix' ones; shifting by the whole width leaves none.
Masked(ip, prefix) ==
    LET free == 2^(Width(ip.family) - prefix) IN (ip.bits \div free) * free

\* A mapped entry that keeps its own prefix length, as if it were an IPv4 one.
ParseNetUnshifted(e) ==
    LET addr   == ToCanonical(e.addr)
        prefix == IF e.prefix = -1 THEN Width(addr.family) ELSE e.prefix
    IN IF e.text # "address" \/ prefix > Width(addr.family) THEN [ok |-> FALSE]
       ELSE [ok |-> TRUE, family |-> addr.family, addr |-> Masked(addr, prefix), prefix |-> prefix]

\* An entry `e': [text, addr, prefix], the prefix -1 when there is no slash.  A
\* mapped address stands for its IPv4 net, whose prefix is counted from the end
\* of the mapped block.
parse_net(e) ==
    LET shifted == V6Bits - V4Bits
        mapped  == IsMapped(e.addr)
        addr    == IF mapped /\ e.prefix <= V6Bits THEN ToCanonical(e.addr) ELSE e.addr
        prefix  == IF e.prefix = -1 THEN Width(addr.family)
                   ELSE IF mapped /\ e.prefix <= V6Bits THEN e.prefix - shifted ELSE e.prefix
    IN IF \/ e.text # "address"
          \/ mapped /\ e.prefix # -1 /\ e.prefix < shifted
          \/ prefix > Width(addr.family)
       THEN [ok |-> FALSE]
       ELSE [ok |-> TRUE, family |-> addr.family, addr |-> Masked(addr, prefix), prefix |-> prefix]

NetContains(net, ip) ==
    net.family = ip.family /\ Masked(ip, net.prefix) = net.addr

\* One entry that cannot be read refuses the whole list, and the server to start.
\* Entries that are empty after trimming are skipped.
ParseList(entries) ==
    LET read == {parse_net(e) : e \in {x \in Range(entries) : x.text # ""}} IN
    [ok |-> \A n \in read : n.ok, nets |-> read]

ListContains(nets, ip) == \E net \in nets : NetContains(net, ToCanonical(ip))

----------------------------------------------------------------------------
(* The client of a request.                                                *)

\* A hop is an address, with or without a port; anything else is nobody.
parse_hop(hop) == hop.text \in {"address", "socket"}

\* A walk from the far end, as if the first hop were the nearest.
ResolveForward(peer, values, nets) ==
    LET hops == FlattenSeq(values)
        stop == {i \in DOMAIN hops : ~parse_hop(hops[i]) \/ ~ListContains(nets, hops[i].addr)}
    IN IF ~ListContains(nets, peer) \/ stop = {} \/ ~parse_hop(hops[Min(stop)])
       THEN ToCanonical(peer)
       ELSE ToCanonical(hops[Min(stop)].addr)

\* The header's lines are one list.  From its end, the first hop that is not a
\* trusted proxy is the client; one that is no address leaves the peer, and so do
\* a peer that is not trusted, no header, and a line that is not text (<<>> here:
\* a line that is text has a hop).
resolve(peer, values, nets) ==
    LET hops == FlattenSeq(values)
        stop == {i \in DOMAIN hops : ~parse_hop(hops[i]) \/ ~ListContains(nets, hops[i].addr)}
    IN IF \/ ~ListContains(nets, peer)
          \/ \E i \in DOMAIN values : values[i] = <<>>
          \/ stop = {}
          \/ ~parse_hop(hops[Max(stop)])
       THEN ToCanonical(peer)
       ELSE ToCanonical(hops[Max(stop)].addr)

\* The key a client is counted under: an IPv4 address, or the upper half of an
\* IPv6 address.
bucket(ip) ==
    LET c == ToCanonical(ip) IN
    IF c.family = 4 THEN c ELSE [family |-> 6, bits |-> c.bits \div 2^(V6Bits \div 2)]

\* An unlisted proxy is suspected: a private peer sends the header and the list
\* is empty.
warrants_proxy_warning(peer, values, nets) ==
    nets = {} /\ values # <<>> /\ ToCanonical(peer) \in PrivateNets

----------------------------------------------------------------------------
(* The middleware.  The clock, the load and the exchange are separate.     *)

NotClaiming == [at |-> "idle"]

\* The request goes on with the address it is booked under.
GoOn(a) == served' = [peer   |-> a.peer,
                       values |-> a.values,
                       client |-> resolve(a.peer, a.values, trusted)]

\* The request arrives and, when a warning is due, the clock is read.
Annotate(m) ==
    /\ mids[m] = NotClaiming
    /\ \E a \in Arrivals[list] :
        IF warrants_proxy_warning(a.peer, a.values, trusted)
        THEN /\ mids' = [mids EXCEPT ![m] = [at |-> "claiming", now |-> second, arrival |-> a]]
             /\ UNCHANGED served
        ELSE GoOn(a) /\ UNCHANGED mids
    /\ UNCHANGED <<list, trusted, second, lastWarned, warnings>>

TooSoon(prev, now) == prev # 0 /\ now < prev + WarnEvery

\* claim_warning up to the load.
LoadLast(m) ==
    /\ mids[m].at = "claiming"
    /\ IF TooSoon(lastWarned, mids[m].now)
       THEN mids' = [mids EXCEPT ![m] = NotClaiming] /\ GoOn(mids[m].arrival)
       ELSE /\ mids' = [mids EXCEPT ![m] = [at      |-> "claimed",
                                            now     |-> mids[m].now,
                                            prev    |-> lastWarned,
                                            arrival |-> mids[m].arrival]]
            /\ UNCHANGED served
    /\ UNCHANGED <<list, trusted, second, lastWarned, warnings>>

\* A store that does not look at what is there.
ClaimByStore(m) ==
    /\ mids[m].at = "claimed"
    /\ lastWarned' = Max({mids[m].now, 1})
    /\ warnings' = Append(warnings, lastWarned')
    /\ mids' = [mids EXCEPT ![m] = NotClaiming]
    /\ GoOn(mids[m].arrival)
    /\ UNCHANGED <<list, trusted, second>>

\* claim_warning's exchange; who loses it does not warn.
ClaimWarning(m) ==
    /\ mids[m].at = "claimed"
    /\ LET wins == lastWarned = mids[m].prev IN
        /\ lastWarned' = IF wins THEN Max({mids[m].now, 1}) ELSE lastWarned
        /\ warnings' = IF wins THEN Append(warnings, lastWarned') ELSE warnings
    /\ mids' = [mids EXCEPT ![m] = NotClaiming]
    /\ GoOn(mids[m].arrival)
    /\ UNCHANGED <<list, trusted, second>>

\* The wall clock; it may be set back.
WallClock ==
    /\ second' \in {second - 1, second + 1} \cap (0 .. LastSecond)
    /\ UNCHANGED <<list, trusted, lastWarned, mids, served, warnings>>

ClientInit ==
    /\ list \in {l \in DOMAIN Arrivals : ParseList(l).ok}
    /\ trusted = ParseList(list).nets
    /\ second = 0 /\ lastWarned = 0 /\ warnings = <<>>
    /\ mids = [m \in Middlewares |-> NotClaiming]
    /\ served = NoRequest

ClientNext ==
    \/ WallClock
    \/ \E m \in Middlewares : Annotate(m) \/ LoadLast(m) \/ ClaimWarning(m)

ClientSpec == ClientInit /\ [][ClientNext]_clientVars

----------------------------------------------------------------------------
(* Properties.                                                             *)

\* The reference: two addresses agree on their first `n' bits.
Agree(a, b, n) == \A i \in 1 .. n :
    LET at(x) == (x.bits \div 2^(Width(x.family) - i)) % 2 IN at(a) = at(b)

Listed(ip) ==
    \E e \in Range(list) : e.text = "address" /\
        IF IsMapped(e.addr) = IsMapped(ip) /\ e.addr.family = ip.family
        THEN Agree(e.addr, ip, IF e.prefix = -1 THEN Width(ip.family) ELSE e.prefix)
        ELSE IsMapped(e.addr) /\ ip.family = 4
             /\ Agree(ToCanonical(e.addr), ip,
                      IF e.prefix = -1 THEN V4Bits ELSE e.prefix - (V6Bits - V4Bits))

\* Whoever a request comes from cannot choose the address it is booked under: in
\* front of what the proxies appended, a client may write anything and is booked
\* the same; an address and its IPv4-mapped twin, as peer or as hop, are one
\* client in one bucket; the client of a peer that is not listed (compared bit by
\* bit with the entries as they are written) is that peer; and a client that is
\* not the peer is itself not listed.  Among the
\* middlewares that find an unlisted proxy at once, the log gets one warning in
\* any WarnEvery, also when the clock is set back meanwhile.
ClientIsItsOwn ==
    /\ served # NoRequest =>
        LET peer    == ToCanonical(served.peer)
            client  == served.client
            twin(x) == IF x.family = 4 THEN Mapped(x.bits) ELSE x
            twins   == [i \in DOMAIN served.values |->
                           [j \in DOMAIN served.values[i] |->
                               [served.values[i][j] EXCEPT !.addr = twin(@)]]]
        IN /\ ~Listed(peer) => client = peer
           /\ client # peer =>
                /\ ~Listed(client)
                /\ \A forged \in Arrivals[list] :
                     <<>> \notin Range(forged.values) =>
                         resolve(peer, forged.values \o served.values, trusted) = client
           /\ resolve(twin(peer), twins, trusted) = client
           /\ bucket(twin(client)) = bucket(client)
    /\ \A i, j \in DOMAIN warnings : i < j => warnings[j] >= warnings[i] + WarnEvery
=============================================================================
