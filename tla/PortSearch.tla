------------------------------ MODULE PortSearch ------------------------------
(***************************************************************************)
(* The two searches for an ephemeral port under port/: bind() in           *)
(* inet_connection_sock.c, inet_csk_find_open_port(), and connect() in     *)
(* net_ipv4_inet_hashtables.c, __inet_hash_connect(), as they are written  *)
(* there.  Several searches run at once; no lock is taken, so other        *)
(* sockets may come and go between the inspection of two ports.            *)
(*                                                                         *)
(* The hash table of bind buckets and the two conflict tests are external: *)
(* a port has no bucket ("free"), a bucket that does not conflict with the *)
(* caller ("shared") or one that does ("busy").                            *)
(***************************************************************************)
EXTENDS Integers, FiniteSets

CONSTANTS
    Low, High,    \* ip_local_port_range, both inclusive
    Reserved,     \* ip_local_reserved_ports
    Tables,       \* possible first contents of the table
    BhashSize,    \* number of hash slots
    Binders,      \* processes in bind()
    Connectors,   \* processes in connect()
    U32,          \* 2^32
    PortOffsets,  \* values secure_ipv4_port_ephemeral() may return
    MaxChanges,   \* bound on what other sockets do
    MaxSearches   \* bound on the searches begun

Procs == Binders \cup Connectors

\* remaining = high - low after high++; connect() makes it even.
Remaining == High + 1 - Low
Even(x)   == x - (x % 2)             \* x & ~1U
Odd(x)    == Even(x) + 1            \* x | 1U
Span(p)   == IF p \in Binders THEN Remaining ELSE Even(Remaining)

\* All ports a search can look at.
Ports == Low .. Low + 2 * Remaining + 1
Status == {"free", "shared", "busy"}

\* A range of a single port makes connect() divide by zero: "remaining &= ~1U".
ASSUME PortSearchAssumption ==
    /\ Low \in Nat /\ High \in Nat /\ Low < High
    /\ U32 \in Nat /\ U32 % 2 = 0 /\ U32 > 2 * (High + 1)
    /\ PortOffsets \subseteq 0 .. U32 - 1
    /\ Binders \cap Connectors = {}
    /\ Tables \subseteq [Ports -> Status]
    /\ BhashSize \in Nat \ {0} /\ MaxChanges \in Nat /\ MaxSearches \in Nat

VARIABLES
    table,        \* per port, see above
    changes, begun,   \* changes made by other sockets, searches begun
    hint,         \* __inet_hash_connect()'s static hint
    pc,           \* "idle", "scan", "found", "none"; "ok", "store" in connect()
    offset, i, port,  \* the locals
    tmp,          \* the value of hint loaded by "hint += i + 2"
    \* Accounting, not in the code.
    first,        \* the offset the search began with
    rejected,     \* ports this search has inspected and not taken
    seen, dest    \* connect(): the hint and the port_offset the search began with

searchvars == <<offset, i, port, first, rejected>>
boundvars == <<changes, begun>>
hintvars == <<hint, tmp, seen, dest>>
vars == <<table, boundvars, hintvars, pc, searchvars>>

Init ==
    /\ table \in Tables /\ changes = 0 /\ begun = 0 /\ hint = 0
    /\ pc = [p \in Procs |-> "idle"]
    /\ offset = [p \in Procs |-> 0] /\ i = [p \in Procs |-> 0]
    /\ port = [p \in Procs |-> Low] /\ tmp = [p \in Procs |-> 0]
    /\ first = [p \in Procs |-> 0] /\ rejected = [p \in Procs |-> {}]
    /\ seen = [p \in Procs |-> 0] /\ dest = [p \in Procs |-> 0]

-----------------------------------------------------------------------------
\* A search begins at low + off.
Begin(p, off) ==
    /\ begun < MaxSearches /\ begun' = begun + 1
    /\ pc[p] = "idle" /\ pc' = [pc EXCEPT ![p] = "scan"]
    /\ offset' = [offset EXCEPT ![p] = off] /\ first' = [first EXCEPT ![p] = off]
    /\ i' = [i EXCEPT ![p] = 0]
    /\ port' = [port EXCEPT ![p] = Low + off]
    /\ rejected' = [rejected EXCEPT ![p] = {}]
    /\ UNCHANGED <<table, changes>>

\* i += 2, port += 2: also what "continue" does.
Advance(p) ==
    /\ i' = [i EXCEPT ![p] = @ + 2]
    /\ port' = [port EXCEPT ![p] = @ + 2]
    /\ rejected' = [rejected EXCEPT ![p] = @ \cup {port[p]}]
    /\ UNCHANGED <<offset, first, pc>>

\* A function returns, and its locals are gone.
Return(p) ==
    /\ pc' = [pc EXCEPT ![p] = "idle"]
    /\ offset' = [offset EXCEPT ![p] = 0] /\ first' = [first EXCEPT ![p] = 0]
    /\ i' = [i EXCEPT ![p] = 0]
    /\ port' = [port EXCEPT ![p] = Low]
    /\ rejected' = [rejected EXCEPT ![p] = {}]

Scanning(p) == pc[p] = "scan" /\ i[p] < Span(p)
ScanDone(p) == pc[p] = "scan" /\ i[p] >= Span(p)

(* inet_csk_find_open_port() *)

\* Mutation of BindBegins: "offset |= 1U" is left out.
BindBeginsAnywhere(p) ==
    /\ \E rnd \in 0 .. Remaining - 1 : Begin(p, rnd)
    /\ UNCHANGED hintvars

\* offset = prandom_u32() % remaining; offset |= 1U
BindBegins(p) ==
    /\ \E rnd \in 0 .. Remaining - 1 : Begin(p, Odd(rnd))
    /\ UNCHANGED hintvars

\* No bucket for the port, or one without conflict: "goto success".
BindTakes(p) ==
    /\ Scanning(p) /\ port[p] \notin Reserved /\ table[port[p]] # "busy"
    /\ pc' = [pc EXCEPT ![p] = "found"]
    /\ UNCHANGED <<table, boundvars, hintvars, searchvars>>

\* Mutation of BindSkips: "continue" in a while loop, without the increments.
BindSkipsForever(p) ==
    /\ Scanning(p) /\ port[p] \in Reserved
    /\ UNCHANGED vars

\* A reserved port: "continue".
BindSkips(p) ==
    /\ Scanning(p) /\ port[p] \in Reserved
    /\ Advance(p)
    /\ UNCHANGED <<table, boundvars, hintvars>>

\* A conflict: "goto next_port".  The lock released there has never been taken
\* and so keeps nobody out; it is not part of the state.
BindPasses(p) ==
    /\ Scanning(p) /\ port[p] \notin Reserved /\ table[port[p]] = "busy"
    /\ Advance(p)
    /\ UNCHANGED <<table, boundvars, hintvars>>

\* offset--: once more with the other parity, then NULL.
OtherParity(p) ==
    /\ ScanDone(p)
    /\ offset' = [offset EXCEPT ![p] = (@ - 1) % U32]
    /\ IF offset'[p] % 2 = 0
       THEN /\ i' = [i EXCEPT ![p] = 0]
            /\ port' = [port EXCEPT ![p] = Low + offset'[p]]
            /\ UNCHANGED pc
       ELSE pc' = [pc EXCEPT ![p] = "none"] /\ UNCHANGED <<i, port>>
    /\ UNCHANGED <<table, boundvars, hintvars, first, rejected>>

\* The caller (external) gives the port to its socket, or fails.
BindReturns(p) ==
    /\ pc[p] \in {"found", "none"}
    /\ table' = IF pc[p] = "found" THEN [table EXCEPT ![port[p]] = "busy"] ELSE table
    /\ Return(p)
    /\ UNCHANGED <<boundvars, hintvars>>

(* __inet_hash_connect() *)

\* Where a search begins: offset = (hint + port_offset) % remaining; offset &= ~1U
StartOf(h, po) == Even(((h + po) % U32) % Even(Remaining))

ConnectBegins(p) ==
    \E po \in PortOffsets :
        /\ Begin(p, StartOf(hint, po))
        /\ seen' = [seen EXCEPT ![p] = hint] /\ dest' = [dest EXCEPT ![p] = po]
        /\ UNCHANGED <<hint, tmp>>

\* The chain of the port's slot: buckets of every port with the same hash.
Chain(q) == {x \in Ports : x % BhashSize = q % BhashSize /\ table[x] # "free"}

\* check_established() is asked once for every bucket of the chain; 0 is "ok".
ConnectTakes(p) ==
    /\ Scanning(p) /\ port[p] \notin Reserved
    /\ Chain(port[p]) # {} /\ table[port[p]] # "busy"
    /\ pc' = [pc EXCEPT ![p] = "ok"]
    /\ UNCHANGED <<table, boundvars, hintvars, searchvars>>

\* Reserved, an empty chain, or in use: the next port.
ConnectPasses(p) ==
    /\ Scanning(p)
    /\ port[p] \in Reserved \/ Chain(port[p]) = {} \/ table[port[p]] = "busy"
    /\ Advance(p)
    /\ UNCHANGED <<table, boundvars, hintvars>>

\* The loop runs out and falls through to "ok:".
ConnectRunsOut(p) ==
    /\ ScanDone(p)
    /\ pc' = [pc EXCEPT ![p] = "ok"]
    /\ UNCHANGED <<table, boundvars, hintvars, searchvars>>

\* hint += i + 2, unlocked: the load ...
LoadHint(p) ==
    /\ pc[p] = "ok"
    /\ tmp' = [tmp EXCEPT ![p] = hint]
    /\ pc' = [pc EXCEPT ![p] = "store"]
    /\ UNCHANGED <<table, boundvars, hint, seen, dest, searchvars>>

\* Mutation of StoreHint: "hint += i".
StoreHintHere(p) ==
    /\ pc[p] = "store"
    /\ hint' = (tmp[p] + i[p]) % U32
    /\ tmp' = [tmp EXCEPT ![p] = 0]
    /\ seen' = [seen EXCEPT ![p] = 0] /\ dest' = [dest EXCEPT ![p] = 0]
    /\ Return(p)
    /\ UNCHANGED <<table, boundvars>>

\* ... and the store.
StoreHint(p) ==
    /\ pc[p] = "store"
    /\ hint' = (tmp[p] + i[p] + 2) % U32
    /\ tmp' = [tmp EXCEPT ![p] = 0]
    /\ seen' = [seen EXCEPT ![p] = 0] /\ dest' = [dest EXCEPT ![p] = 0]
    /\ Return(p)
    /\ UNCHANGED <<table, boundvars>>

-----------------------------------------------------------------------------
\* Another socket is bound to a port, shares it or gives it up.
OtherSocket ==
    /\ changes < MaxChanges
    /\ changes' = changes + 1
    /\ \E q \in Ports, s \in Status : table' = [table EXCEPT ![q] = s]
    /\ UNCHANGED <<begun, hintvars, pc, searchvars>>

BindStep(p) == BindTakes(p) \/ BindSkips(p) \/ BindPasses(p) \/ OtherParity(p) \/ BindReturns(p)
ConnectStep(p) ==
    ConnectTakes(p) \/ ConnectPasses(p) \/ ConnectRunsOut(p) \/ LoadHint(p) \/ StoreHint(p)

Next ==
    \/ \E p \in Binders : BindBegins(p) \/ BindStep(p)
    \/ \E p \in Connectors : ConnectBegins(p) \/ ConnectStep(p)
    \/ OtherSocket

Spec == Init /\ [][Next]_vars

\* A search that has begun is run to its end.
FairSpec ==
    /\ Spec
    /\ \A p \in Binders : WF_vars(BindStep(p))
    /\ \A p \in Connectors : WF_vars(ConnectStep(p))

-----------------------------------------------------------------------------
HintTypeOK ==
    /\ hint \in 0 .. U32 - 1 /\ tmp \in [Procs -> 0 .. U32 - 1]
    /\ seen \in [Procs -> 0 .. U32 - 1] /\ dest \in [Procs -> 0 .. U32 - 1]

PortTypeOK ==
    /\ HintTypeOK
    /\ table \in [Ports -> Status]
    /\ changes \in 0 .. MaxChanges /\ begun \in 0 .. MaxSearches
    /\ pc \in [Procs -> {"idle", "scan", "found", "none", "ok", "store"}]
    /\ offset \in [Procs -> 0 .. U32 - 1] /\ first \in [Procs -> 0 .. Remaining]
    /\ i \in [Procs -> 0 .. Remaining + 1]
    /\ port \in [Procs -> Ports]
    /\ rejected \in [Procs -> SUBSET Ports]

\* A search never inspects a port further than one range above the range:
\* without a wrap-around at high, this is all that bounds it.
StrayBound == \A p \in Procs : Scanning(p) => port[p] <= High + Remaining

\* hint leads away from the port just tried: the next search for the same destination
\* begins right behind the port at which the last one stopped, so that it inspects that
\* port last of all.  It holds of the search that stored hint last, whatever others stored
\* between its load and its store (their advance is lost), unless another one stored
\* between its beginning and its load, or the sum passed 2^32 meanwhile.
NextBehind ==
    [][\A p \in Connectors :
          /\ pc[p] = "store" /\ pc'[p] = "idle"
          /\ tmp[p] = seen[p]
          /\ ((seen[p] + dest[p]) % U32) + i[p] + 2 < U32
          => StartOf(hint', dest[p]) = (first[p] + i[p] + 2) % Even(Remaining)]_vars

\* bind() leaves the ports of low's parity to connect() as long as it can: it
\* returns one only after it has inspected every port of the other parity from
\* its random start on, over the length of the range, and found none.
LowParityLast ==
    \A p \in Binders : pc[p] = "found" /\ (port[p] - Low) % 2 = 0 =>
        \A q \in Low + first[p] .. Low + first[p] + Remaining - 1 :
            (q - Low) % 2 = 1 => q \in rejected[p]

\* Every search ends, with a port or without.
SearchEnds == \A p \in Procs : (pc[p] = "scan") ~> (pc[p] # "scan")

-----------------------------------------------------------------------------
(* What the comments of the two files say. *)

\* The port bind() finds lies in the range, "[32768, 60999] -> [32768, 61000[".
InRange == \A p \in Binders : pc[p] = "found" => port[p] \in Low .. High

=============================================================================
