--------------------------- MODULE PortSearchProofs ---------------------------
(***************************************************************************)
(* The arithmetic of the two port searches, for every range of at least    *)
(* two ports, any number of concurrent searches and any other sockets.     *)
(***************************************************************************)
EXTENDS PortSearch, TLAPS

\* Ports of the parity bind() prefers, from the start of the search on.
Preferred(p, n) == {q \in Low + first[p] .. Low + first[p] + n - 1 : (q - Low) % 2 = 1}

\* Where a search stands: the port follows from offset and i; bind() scans the
\* odd offsets first and has rejected all it has passed.
BindInv ==
    \A p \in Binders : pc[p] \in {"scan", "found"} =>
        /\ port[p] = Low + offset[p] + i[p]
        /\ i[p] % 2 = 0 /\ first[p] % 2 = 1
        /\ \/ offset[p] = first[p] /\ Preferred(p, i[p]) \subseteq rejected[p]
           \/ offset[p] = first[p] - 1 /\ Preferred(p, Remaining) \subseteq rejected[p]
        /\ pc[p] = "found" => i[p] < Remaining

ConnectInv ==
    \A p \in Connectors : pc[p] \in {"scan", "ok", "store"} =>
        /\ port[p] = Low + offset[p] + i[p]
        /\ i[p] % 2 = 0 /\ offset[p] % 2 = 0
        /\ offset[p] < Remaining

\* bind() and connect() do not share program counters.
PcInv ==
    /\ \A p \in Binders : pc[p] \in {"idle", "scan", "found", "none"}
    /\ \A p \in Connectors : pc[p] \in {"idle", "scan", "ok", "store"}

Inv == PortTypeOK /\ BindInv /\ ConnectInv /\ PcInv

\* Clearing and setting the lowest bit.
LEMMA Bits ==
    ASSUME NEW x \in Nat
    PROVE  /\ Even(x) \in Nat /\ Even(x) % 2 = 0 /\ Even(x) <= x /\ x <= Even(x) + 1
           /\ Odd(x) \in Nat /\ Odd(x) % 2 = 1 /\ x <= Odd(x) /\ Odd(x) <= x + 1
BY DEF Even, Odd

\* The range has at least two ports.
LEMMA RangeFacts ==
    /\ Remaining \in Nat /\ Remaining >= 2 /\ Low \in Nat
    /\ Even(Remaining) \in Nat /\ Even(Remaining) >= 2 /\ Even(Remaining) % 2 = 0
    /\ Even(Remaining) <= Remaining
    /\ U32 \in Nat /\ U32 > 0 /\ U32 > Remaining + 2
BY PortSearchAssumption DEF Remaining, Even

\* Unsigned arithmetic stays in range.
LEMMA ModRange == ASSUME NEW x \in Int, NEW m \in Nat, m > 0 PROVE x % m \in 0 .. m - 1
OBVIOUS

LEMMA InitInv == Init => Inv
<1>. SUFFICES ASSUME Init PROVE Inv
  OBVIOUS
<1>. USE PortSearchAssumption, RangeFacts DEF Init
<1>1. PortTypeOK
  BY DEF PortTypeOK, HintTypeOK, Ports
<1>2. BindInv /\ ConnectInv /\ PcInv
  BY DEF BindInv, ConnectInv, PcInv, Procs
<1>. QED  BY <1>1, <1>2 DEF Inv

\* A search begins at an offset of its parity.
LEMMA BeginStep ==
    ASSUME Inv, NEW p \in Procs, NEW off \in Nat, Begin(p, off), HintTypeOK',
           p \in Binders => off % 2 = 1 /\ off <= Remaining,
           p \in Connectors => off % 2 = 0 /\ off < Remaining
    PROVE  Inv'
<1>. USE RangeFacts DEF Inv, Begin
<1>0. /\ p \in Binders \cup Connectors /\ off <= Remaining
      /\ begun' \in 0 .. MaxSearches
  BY PortSearchAssumption DEF Procs, PortTypeOK
<1>1. PortTypeOK'
  BY <1>0 DEF PortTypeOK, Ports
<1>2. /\ pc' = [pc EXCEPT ![p] = "scan"] /\ DOMAIN pc = Procs
      /\ offset' = [offset EXCEPT ![p] = off] /\ DOMAIN offset = Procs
      /\ first' = [first EXCEPT ![p] = off] /\ DOMAIN first = Procs
      /\ i' = [i EXCEPT ![p] = 0] /\ DOMAIN i = Procs
      /\ port' = [port EXCEPT ![p] = Low + off] /\ DOMAIN port = Procs
      /\ rejected' = [rejected EXCEPT ![p] = {}] /\ DOMAIN rejected = Procs
  BY DEF PortTypeOK
<1>3. BindInv'
  <2>. SUFFICES ASSUME NEW r \in Binders, pc'[r] \in {"scan", "found"}
                PROVE  /\ port'[r] = Low + offset'[r] + i'[r]
                       /\ i'[r] % 2 = 0 /\ first'[r] % 2 = 1
                       /\ \/ offset'[r] = first'[r] /\ Preferred(r, i[r])' \subseteq rejected'[r]
                          \/ /\ offset'[r] = first'[r] - 1
                             /\ Preferred(r, Remaining)' \subseteq rejected'[r]
                       /\ pc'[r] = "found" => i'[r] < Remaining
    BY DEF BindInv
  <2>1. CASE r = p
    <3>1. Preferred(r, i[r])' = {}
      BY <1>2, <2>1 DEF Preferred, Procs
    <3>. QED  BY <1>2, <2>1, <3>1 DEF Procs
  <2>2. CASE r # p
    BY <1>2, <2>2 DEF BindInv, Preferred, Procs
  <2>. QED  BY <2>1, <2>2
<1>4. ConnectInv'
  BY <1>2 DEF ConnectInv, Procs
<1>5. PcInv'
  BY <1>2 DEF PcInv, Procs
<1>. QED  BY <1>1, <1>3, <1>4, <1>5

\* Two ports further: the one passed joins the rejected ones.
LEMMA AdvanceStep ==
    ASSUME Inv, NEW p \in Procs, Scanning(p), Advance(p),
           UNCHANGED <<table, boundvars, hintvars>>
    PROVE  Inv'
<1>. USE RangeFacts DEF Inv, Advance
<1>0. /\ i' = [i EXCEPT ![p] = i[p] + 2] /\ DOMAIN i = Procs /\ i[p] \in Nat
      /\ port' = [port EXCEPT ![p] = port[p] + 2] /\ DOMAIN port = Procs
      /\ rejected' = [rejected EXCEPT ![p] = rejected[p] \cup {port[p]}]
      /\ DOMAIN rejected = Procs /\ offset[p] \in Nat /\ first[p] \in Nat /\ port[p] \in Nat
      /\ pc[p] = "scan" /\ i[p] < Remaining
      /\ p \in Connectors => p \notin Binders
      /\ first[p] <= Remaining
  BY PortSearchAssumption DEF PortTypeOK, Scanning, Span, Ports
<1>1. port[p] = Low + offset[p] + i[p] /\ offset[p] <= Remaining /\ i[p] % 2 = 0
  BY <1>0 DEF BindInv, ConnectInv, Procs
<1>2. PortTypeOK'
  <2>1. port[p] \in Ports /\ port[p] + 2 \in Ports /\ i[p] + 2 \in 0 .. Remaining + 1
    BY <1>0, <1>1 DEF Ports
  <2>2. /\ i' \in [Procs -> 0 .. Remaining + 1] /\ port' \in [Procs -> Ports]
        /\ rejected' \in [Procs -> SUBSET Ports]
    BY <1>0, <2>1 DEF PortTypeOK
  <2>. QED  BY <2>2 DEF PortTypeOK, HintTypeOK, boundvars, hintvars
<1>3. BindInv'
  <2>. SUFFICES ASSUME NEW r \in Binders, pc[r] \in {"scan", "found"}
                PROVE  /\ port'[r] = Low + offset[r] + i'[r]
                       /\ i'[r] % 2 = 0 /\ first[r] % 2 = 1
                       /\ \/ offset[r] = first[r] /\ Preferred(r, i'[r]) \subseteq rejected'[r]
                          \/ /\ offset[r] = first[r] - 1
                             /\ Preferred(r, Remaining) \subseteq rejected'[r]
                       /\ pc[r] = "found" => i'[r] < Remaining
    BY DEF BindInv, Preferred
  <2>1. CASE r = p
    <3>1. CASE offset[r] = first[r] /\ Preferred(r, i[r]) \subseteq rejected[r]
      <4>1. ASSUME NEW q \in Preferred(r, i[r] + 2)
            PROVE  q \in rejected[r] \cup {port[p]}
        <5>1. first[r] % 2 = 1 /\ i[r] % 2 = 0
          BY <2>1 DEF BindInv
        <5>2. q \in Int /\ q >= Low + first[r] /\ q <= Low + first[r] + i[r] + 1
              /\ (q - Low) % 2 = 1
          BY <1>0, <2>1 DEF Preferred
        <5>3. CASE q <= Low + first[r] + i[r] - 1
          BY <1>0, <2>1, <3>1, <5>2, <5>3 DEF Preferred
        <5>4. CASE q = Low + first[r] + i[r]
          BY <1>1, <2>1, <3>1, <5>4
        <5>5. CASE q = Low + first[r] + i[r] + 1
          BY <1>0, <2>1, <5>1, <5>2, <5>5
        <5>6. Low \in Nat /\ first[r] \in Nat /\ i[r] \in Nat
          BY <1>0, <2>1
        <5>7. \/ q <= Low + first[r] + i[r] - 1
              \/ q = Low + first[r] + i[r]
              \/ q = Low + first[r] + i[r] + 1
          BY ONLY <5>2, <5>6
        <5>. QED  BY ONLY <5>3, <5>4, <5>5, <5>7
      <4>. QED  BY <1>0, <1>1, <2>1, <3>1, <4>1 DEF BindInv
    <3>2. CASE offset[r] = first[r] - 1 /\ Preferred(r, Remaining) \subseteq rejected[r]
      BY <1>0, <1>1, <2>1, <3>2 DEF BindInv
    <3>. QED  BY <3>1, <3>2 DEF BindInv
  <2>2. CASE r # p
    BY <1>0, <2>2 DEF BindInv, Procs
  <2>. QED  BY <2>1, <2>2
<1>4. ConnectInv'
  <2>. SUFFICES ASSUME NEW r \in Connectors, pc[r] \in {"scan", "ok", "store"}
                PROVE  /\ port'[r] = Low + offset[r] + i'[r]
                       /\ i'[r] % 2 = 0 /\ offset[r] % 2 = 0 /\ offset[r] < Remaining
    BY DEF ConnectInv
  <2>1. CASE r = p
    BY <1>0, <1>1, <2>1 DEF ConnectInv
  <2>2. CASE r # p
    BY <1>0, <2>2 DEF ConnectInv, Procs
  <2>. QED  BY <2>1, <2>2
<1>5. PcInv'
  BY DEF PcInv
<1>. QED  BY <1>2, <1>3, <1>4, <1>5

\* bind()'s second scan starts one below the first, on the other parity.
LEMMA OtherParityStep == ASSUME Inv, NEW p \in Binders, OtherParity(p) PROVE Inv'
<1>. USE RangeFacts DEF Inv, OtherParity, boundvars, hintvars, HintTypeOK
<1>0. /\ p \in Procs /\ p \notin Connectors /\ pc[p] = "scan" /\ i[p] >= Remaining
      /\ first[p] \in Nat /\ first[p] <= Remaining /\ i[p] \in Nat
      /\ offset \in [Procs -> 0 .. U32 - 1] /\ offset[p] \in Nat
      /\ DOMAIN pc = Procs /\ DOMAIN i = Procs /\ DOMAIN port = Procs
  BY PortSearchAssumption DEF PortTypeOK, ScanDone, Span, Procs
<1>1. /\ first[p] % 2 = 1
      /\ offset[p] = first[p] \/ offset[p] = first[p] - 1
      /\ offset[p] = first[p] => Preferred(p, i[p]) \subseteq rejected[p]
  BY <1>0 DEF BindInv
<1>2. /\ offset'[p] = (offset[p] - 1) % U32 /\ offset'[p] \in 0 .. U32 - 1
      /\ offset' = [offset EXCEPT ![p] = offset'[p]]
  BY <1>0, ModRange
<1>3. CASE offset[p] = first[p]
  <2>1. offset'[p] = first[p] - 1 /\ offset'[p] % 2 = 0
    <3>1. first[p] - 1 \in 0 .. U32 - 1 /\ (first[p] - 1) % 2 = 0
      BY <1>0, <1>1
    <3>2. \A x \in 0 .. U32 - 1 : x % U32 = x
      OBVIOUS
    <3>. QED  BY <1>2, <1>3, <3>1, <3>2
  <2>2. /\ i' = [i EXCEPT ![p] = 0]
        /\ port' = [port EXCEPT ![p] = Low + offset'[p]] /\ UNCHANGED pc
    BY <2>1
  <2>3. PortTypeOK'
    <3>1. Low + offset'[p] \in Ports /\ 0 \in 0 .. Remaining + 1
      BY <1>0, <1>1, <2>1 DEF Ports
    <3>2. /\ i' \in [Procs -> 0 .. Remaining + 1] /\ port' \in [Procs -> Ports]
          /\ offset' \in [Procs -> 0 .. U32 - 1]
      BY <1>0, <1>2, <2>2, <3>1 DEF PortTypeOK
    <3>. QED  BY <2>2, <3>2 DEF PortTypeOK
  <2>4. Preferred(p, Remaining) \subseteq rejected[p]
    BY <1>0, <1>1, <1>3 DEF Preferred
  <2>5. BindInv'
    <3>. SUFFICES ASSUME NEW r \in Binders, pc[r] \in {"scan", "found"}
                  PROVE  /\ port'[r] = Low + offset'[r] + i'[r]
                         /\ i'[r] % 2 = 0 /\ first[r] % 2 = 1
                         /\ \/ offset'[r] = first[r] /\ Preferred(r, i'[r]) \subseteq rejected[r]
                            \/ /\ offset'[r] = first[r] - 1
                               /\ Preferred(r, Remaining) \subseteq rejected[r]
                         /\ pc[r] = "found" => i'[r] < Remaining
      BY <2>2 DEF BindInv, Preferred
    <3>1. CASE r = p
      BY <1>0, <1>1, <2>1, <2>2, <2>4, <3>1
    <3>2. CASE r # p
      BY <1>0, <1>2, <2>2, <3>2 DEF BindInv, Procs
    <3>. QED  BY <3>1, <3>2
  <2>6. ConnectInv' /\ PcInv'
    BY <1>0, <1>2, <2>2 DEF ConnectInv, PcInv, Procs
  <2>. QED  BY <2>3, <2>5, <2>6
<1>4. CASE offset[p] # first[p]
  <2>1. offset'[p] % 2 = 1
    <3>1. CASE offset[p] = 0
      <4>1. (0 - 1) % U32 = U32 - 1
        BY PortSearchAssumption
      <4>. QED  BY <1>2, <3>1, <4>1, PortSearchAssumption
    <3>2. CASE offset[p] > 0
      <4>1. offset[p] - 1 \in 0 .. U32 - 1 /\ (offset[p] - 1) % 2 = 1
        BY <1>0, <1>1, <1>4, <3>2
      <4>2. \A x \in 0 .. U32 - 1 : x % U32 = x
        OBVIOUS
      <4>. QED  BY <1>2, <4>1, <4>2
    <3>. QED  BY <1>0, <3>1, <3>2
  <2>2. pc' = [pc EXCEPT ![p] = "none"] /\ UNCHANGED <<i, port>>
    BY <2>1
  <2>3. PortTypeOK'
    BY <1>0, <1>2, <2>2 DEF PortTypeOK
  <2>4. BindInv' /\ ConnectInv' /\ PcInv'
    BY <1>0, <1>2, <2>2 DEF BindInv, ConnectInv, PcInv, Preferred, Procs
  <2>. QED  BY <2>3, <2>4
<1>. QED  BY <1>3, <1>4

\* Steps that leave the searches where they are, except that one of them goes
\* on to its result or ends.
LEMMA ResultStep ==
    ASSUME Inv, PortTypeOK', PcInv', UNCHANGED searchvars,
           \A p \in Procs : \/ pc'[p] = pc[p]
                            \/ pc'[p] = "idle"
                            \/ pc[p] = "scan" /\ pc'[p] = "found" /\ i[p] < Remaining
                            \/ pc[p] \in {"scan", "ok"} /\ pc'[p] \in {"ok", "store"}
    PROVE  Inv'
<1>1. BindInv'
  BY DEF Inv, BindInv, PcInv, Preferred, Procs, searchvars
<1>2. ConnectInv'
  BY DEF Inv, ConnectInv, PcInv, Procs, searchvars
<1>. QED  BY <1>1, <1>2 DEF Inv

\* A search is over and its locals are gone.
LEMMA ReturnStep ==
    ASSUME Inv, NEW p \in Procs, Return(p), UNCHANGED boundvars,
           table' \in [Ports -> Status], HintTypeOK'
    PROVE  Inv'
<1>. USE DEF Inv, Return, boundvars
<1>1. Low \in Ports /\ 0 \in 0 .. U32 - 1 /\ 0 \in 0 .. Remaining /\ 0 \in 0 .. Remaining + 1
  BY RangeFacts DEF Ports
<1>2. PortTypeOK'
  BY <1>1 DEF PortTypeOK
<1>3. \A r \in Procs : \/ r = p /\ pc'[r] = "idle"
                       \/ /\ pc'[r] = pc[r] /\ offset'[r] = offset[r] /\ first'[r] = first[r]
                          /\ i'[r] = i[r] /\ port'[r] = port[r] /\ rejected'[r] = rejected[r]
  BY DEF PortTypeOK
<1>4. BindInv'
  BY <1>3 DEF BindInv, Preferred, Procs
<1>5. ConnectInv' /\ PcInv'
  BY <1>3 DEF ConnectInv, PcInv, Procs
<1>. QED  BY <1>2, <1>4, <1>5

\* Inv holds of every reachable state.
LEMMA Invariance == Spec => []Inv
<1>1. Init => Inv
  BY InitInv
<1>2. Inv /\ [Next]_vars => Inv'
  <2>. SUFFICES ASSUME Inv, [Next]_vars PROVE Inv'
    OBVIOUS
  <2>. USE RangeFacts, PortSearchAssumption
  <2>1. ASSUME NEW p \in Binders, BindBegins(p) PROVE Inv'
    <3>1. PICK rnd \in 0 .. Remaining - 1 : Begin(p, Odd(rnd))
      BY <2>1 DEF BindBegins
    <3>3. HintTypeOK'
      BY <2>1 DEF BindBegins, Inv, PortTypeOK, HintTypeOK, hintvars
    <3>2. Odd(rnd) \in Nat /\ Odd(rnd) % 2 = 1 /\ Odd(rnd) <= Remaining
      <4>1. rnd \in Nat /\ rnd + 1 <= Remaining
        OBVIOUS
      <4>2. Odd(rnd) \in Nat /\ Odd(rnd) % 2 = 1 /\ Odd(rnd) <= rnd + 1
        BY <4>1, Bits
      <4>. QED  BY ONLY <4>1, <4>2, RangeFacts
    <3>. QED  BY <3>1, <3>2, <3>3, BeginStep DEF Procs
  <2>2. ASSUME NEW p \in Connectors, ConnectBegins(p) PROVE Inv'
    <3>1. PICK po \in PortOffsets :
            /\ Begin(p, Even(((hint + po) % U32) % Even(Remaining)))
            /\ seen' = [seen EXCEPT ![p] = hint] /\ dest' = [dest EXCEPT ![p] = po]
            /\ UNCHANGED <<hint, tmp>>
      BY <2>2 DEF ConnectBegins, StartOf
    <3>. DEFINE x == ((hint + po) % U32) % Even(Remaining)
    <3>0. hint + po \in Int
      BY DEF Inv, PortTypeOK, HintTypeOK
    <3>6. HintTypeOK'
      BY <3>1 DEF Inv, PortTypeOK, HintTypeOK
    <3>2. (hint + po) % U32 \in Int
      BY <3>0, ModRange
    <3>3. x \in 0 .. Even(Remaining) - 1
      BY <3>2, ModRange
    <3>. HIDE DEF x
    <3>4. Even(x) \in Nat /\ Even(x) % 2 = 0 /\ Even(x) < Remaining
      BY <3>3, Bits
    <3>5. Begin(p, Even(x))
      BY <3>1 DEF x
    <3>. QED  BY <3>4, <3>5, <3>6, BeginStep DEF Procs
  <2>3. ASSUME NEW p \in Binders, BindSkips(p) \/ BindPasses(p) PROVE Inv'
    BY <2>3, AdvanceStep DEF BindSkips, BindPasses, Procs
  <2>4. ASSUME NEW p \in Connectors, ConnectPasses(p) PROVE Inv'
    BY <2>4, AdvanceStep DEF ConnectPasses, Procs
  <2>5. ASSUME NEW p \in Binders, OtherParity(p) PROVE Inv'
    BY <2>5, OtherParityStep
  <2>6. ASSUME NEW p \in Binders, BindTakes(p) PROVE Inv'
    <3>1. pc' = [pc EXCEPT ![p] = "found"] /\ UNCHANGED searchvars
          /\ pc[p] = "scan" /\ i[p] < Remaining /\ DOMAIN pc = Procs
      BY <2>6 DEF BindTakes, Scanning, Span, Inv, PortTypeOK
    <3>2. PortTypeOK' /\ PcInv'
      BY <2>6, <3>1 DEF BindTakes, Inv, PortTypeOK, HintTypeOK, PcInv, searchvars, boundvars, hintvars, Procs
    <3>. QED  BY <3>1, <3>2, ResultStep
  <2>7. ASSUME NEW p \in Binders, BindReturns(p) PROVE Inv'
    <3>1. table' \in [Ports -> Status]
      BY <2>7 DEF BindReturns, Inv, PortTypeOK, Status
    <3>2. HintTypeOK'
      BY <2>7 DEF BindReturns, Inv, PortTypeOK, HintTypeOK, hintvars
    <3>. QED  BY <2>7, <3>1, <3>2, ReturnStep DEF BindReturns, Procs
  <2>8. ASSUME NEW p \in Connectors, ConnectTakes(p) \/ ConnectRunsOut(p) \/ LoadHint(p)
        PROVE  Inv'
    <3>1. /\ UNCHANGED <<searchvars, table, boundvars, hint>> /\ DOMAIN pc = Procs
          /\ \/ pc' = [pc EXCEPT ![p] = "ok"] /\ pc[p] = "scan"
             \/ pc' = [pc EXCEPT ![p] = "store"] /\ pc[p] = "ok"
      <4>1. DOMAIN pc = Procs
        BY DEF Inv, PortTypeOK
      <4>. QED  BY <2>8, <4>1 DEF ConnectTakes, ConnectRunsOut, LoadHint, Scanning, ScanDone, hintvars
    <3>2. HintTypeOK'
      BY <2>8 DEF ConnectTakes, ConnectRunsOut, LoadHint, Inv, PortTypeOK, HintTypeOK, hintvars, Procs
    <3>3. PortTypeOK' /\ PcInv'
      BY <3>1, <3>2 DEF Inv, PortTypeOK, PcInv, searchvars, boundvars, Procs
    <3>. QED  BY <3>1, <3>3, ResultStep
  <2>10. ASSUME NEW p \in Connectors, StoreHint(p) PROVE Inv'
    <3>1. tmp[p] \in Nat /\ i[p] \in Nat
      BY DEF Inv, PortTypeOK, HintTypeOK, Procs
    <3>2. (tmp[p] + i[p] + 2) % U32 \in 0 .. U32 - 1
      BY <3>1, ModRange
    <3>3. table' \in [Ports -> Status]
      BY <2>10 DEF StoreHint, Inv, PortTypeOK
    <3>4. HintTypeOK'
      <4>1. HintTypeOK /\ 0 \in 0 .. U32 - 1
        BY DEF Inv, PortTypeOK
      <4>. QED  BY <2>10, <3>2, <4>1 DEF StoreHint, HintTypeOK
    <3>. QED  BY <2>10, <3>3, <3>4, ReturnStep DEF StoreHint, Procs
  <2>9. CASE OtherSocket \/ UNCHANGED vars
    <3>1. UNCHANGED <<pc, searchvars>>
      BY <2>9 DEF OtherSocket, vars
    <3>2. PortTypeOK' /\ PcInv'
      BY <2>9, <3>1 DEF OtherSocket, Inv, PortTypeOK, HintTypeOK, PcInv, vars, searchvars,
                        boundvars, hintvars
    <3>. QED  BY <3>1, <3>2, ResultStep
  <2>. QED  BY <2>1, <2>2, <2>3, <2>4, <2>5, <2>6, <2>7, <2>8, <2>9, <2>10
               DEF Next, BindStep, ConnectStep
<1>. QED  BY <1>1, <1>2, PTL DEF Spec

-----------------------------------------------------------------------------
\* The variables of the searches keep their types, the unsigned ones included.
THEOREM PortTypeCorrect == Spec => []PortTypeOK
<1>1. Inv => PortTypeOK
  BY DEF Inv
<1>. QED  BY <1>1, Invariance, PTL

\* No search strays further than one range above the range.
THEOREM SearchesStayNear == Spec => []StrayBound
<1>1. Inv => StrayBound
  <2>. SUFFICES ASSUME Inv, NEW p \in Procs, Scanning(p) PROVE port[p] <= High + Remaining
    BY DEF StrayBound
  <2>1. /\ port[p] = Low + offset[p] + i[p] /\ offset[p] <= Remaining
        /\ offset[p] \in Nat /\ i[p] \in Nat /\ i[p] < Remaining
    BY RangeFacts DEF Inv, PortTypeOK, BindInv, ConnectInv, Scanning, Span, Procs
  <2>. QED  BY <2>1, PortSearchAssumption DEF Remaining
<1>. QED  BY <1>1, Invariance, PTL

\* bind() takes a port of low's parity only after a full scan of the others.
THEOREM BindSparesConnect == Spec => []LowParityLast
<1>1. Inv => LowParityLast
  <2>. SUFFICES ASSUME Inv, NEW p \in Binders, pc[p] = "found", (port[p] - Low) % 2 = 0,
                       NEW q \in Low + first[p] .. Low + first[p] + Remaining - 1,
                       (q - Low) % 2 = 1
                PROVE  q \in rejected[p]
    BY DEF LowParityLast
  <2>1. /\ first[p] \in Nat /\ i[p] \in Nat /\ offset[p] \in Nat
        /\ port[p] = Low + offset[p] + i[p] /\ i[p] % 2 = 0 /\ first[p] % 2 = 1
    BY RangeFacts DEF Inv, PortTypeOK, BindInv, Procs
  <2>2. offset[p] # first[p]
    BY <2>1, RangeFacts
  <2>3. Preferred(p, Remaining) \subseteq rejected[p]
    BY <2>2 DEF Inv, BindInv
  <2>. QED  BY <2>3 DEF Preferred
<1>. QED  BY <1>1, Invariance, PTL

-----------------------------------------------------------------------------
(* Where the next search of connect() begins: the arithmetic of hint. *)

\* Division with remainder is unique.
LEMMA Unique ==
    ASSUME NEW m \in Nat, m > 0, NEW k \in Int, NEW r \in Int, 0 <= r, r < m
    PROVE  (m * k + r) % m = r
<1>. DEFINE a == m * k + r
            q == a \div m
            s == a % m
<1>1. a \in Int /\ q \in Int /\ s \in Int /\ a = m * q + s /\ 0 <= s /\ s < m
  OBVIOUS
<1>2. m * k + r = m * q + s
  BY <1>1
<1>. HIDE DEF a, q, s
<1>3. k = q
  <2>1. CASE k > q
    <3>1. PICK e \in Nat : k = q + 1 + e
      <4>1. k - q - 1 \in Nat /\ k = q + 1 + (k - q - 1)
        BY <1>1, <2>1
      <4>. QED  BY <4>1
    <3>2. m * k = m * q + m + m * e /\ m * e >= 0
      BY <1>1, <3>1
    <3>. QED  BY <1>1, <1>2, <3>2
  <2>2. CASE k < q
    <3>1. PICK e \in Nat : q = k + 1 + e
      <4>1. q - k - 1 \in Nat /\ q = k + 1 + (q - k - 1)
        BY <1>1, <2>2
      <4>. QED  BY <4>1
    <3>2. m * q = m * k + m + m * e /\ m * e >= 0
      BY <1>1, <3>1
    <3>. QED  BY <1>1, <1>2, <3>2
  <2>. QED  BY <1>1, <2>1, <2>2
<1>4. s = r
  BY <1>1, <1>2, <1>3
<1>. QED  BY <1>4 DEF a, s

LEMMA ModPlus ==
    ASSUME NEW m \in Nat, m > 0, NEW x \in Nat, NEW d \in Nat
    PROVE  (x + d) % m = ((x % m) + d) % m
<1>. DEFINE q == x \div m
            r == x % m
            t == (r + d) \div m
            s == (r + d) % m
<1>1. q \in Int /\ r \in Int /\ x = m * q + r /\ 0 <= r /\ r < m
  OBVIOUS
<1>. HIDE DEF q, r
<1>2. t \in Int /\ s \in Int /\ r + d = m * t + s /\ 0 <= s /\ s < m
  BY <1>1
<1>. HIDE DEF t, s
<1>3. x + d = m * (q + t) + s
  <2>1. m * (q + t) = m * q + m * t
    BY <1>1, <1>2
  <2>. QED  BY <1>1, <1>2, <2>1
<1>4. (x + d) % m = s
  <2>1. q + t \in Int
    BY <1>1, <1>2
  <2>. QED  BY <1>2, <1>3, <2>1, Unique
<1>. QED  BY <1>4 DEF s, r

\* An even number leaves an even rest in an even modulus.
LEMMA EvenRest ==
    ASSUME NEW m \in Nat, m > 0, m % 2 = 0, NEW a \in Nat, a % 2 = 0
    PROVE  (a % m) \in Nat /\ (a % m) % 2 = 0
<1>. DEFINE q == a \div m
            s == a % m
<1>1. q \in Int /\ s \in Int /\ a = m * q + s /\ 0 <= s
  OBVIOUS
<1>. HIDE DEF q, s
<1>2. PICK h \in Int : m = 2 * h
  BY m % 2 = 0
<1>3. PICK g \in Int : a = 2 * g
  BY a % 2 = 0
<1>4. m * q = 2 * (h * q) /\ h * q \in Int
  BY <1>1, <1>2
<1>5. PICK z \in Int : z = h * q
  BY <1>4
<1>6. s = 2 * (g - z)
  BY <1>1, <1>3, <1>4, <1>5
<1>7. s % 2 = 0 /\ s \in Nat
  BY <1>1, <1>3, <1>5, <1>6
<1>. QED  BY <1>7 DEF s

\* Clearing the lowest bit of a rest and going on by an even number.
LEMMA EvenPlus ==
    ASSUME NEW m \in Nat, m > 0, m % 2 = 0, NEW x \in Nat, NEW d \in Nat, d % 2 = 0
    PROVE  Even((x + d) % m) = (Even(x % m) + d) % m
<1>. DEFINE r == x % m
            e == Even(r)
            t == (e + d) % m
<1>1. r \in Nat /\ r < m
  OBVIOUS
<1>2. (x + d) % m = (r + d) % m
  BY ModPlus
<1>. HIDE DEF r
<1>3. e \in Nat /\ e % 2 = 0 /\ (r = e \/ r = e + 1)
  BY <1>1 DEF Even
<1>. HIDE DEF e
<1>4. e + d \in Nat /\ (e + d) % 2 = 0
  BY <1>3
<1>5. t \in Nat /\ t % 2 = 0 /\ t < m
  BY <1>4, EvenRest
<1>6. (e + d + 1) % m = (t + 1) % m
  BY <1>4, ModPlus
<1>. HIDE DEF t
<1>7. t + 1 < m
  BY <1>5
<1>8. (t + 1) % m = t + 1
  BY <1>5, <1>7
<1>9. CASE r = e
  <2>1. (r + d) % m = t
    BY <1>9 DEF t
  <2>. QED  BY <1>2, <1>5, <2>1 DEF Even, t, e, r
<1>10. CASE r = e + 1
  <2>1. (r + d) % m = t + 1
    <3>1. r + d = e + d + 1
      BY <1>3, <1>10
    <3>. QED  BY <1>6, <1>8, <3>1
  <2>2. Even(t + 1) = t
    BY <1>5 DEF Even
  <2>. QED  BY <1>2, <2>1, <2>2 DEF t, e, r
<1>. QED  BY <1>3, <1>9, <1>10

\* The sum of two numbers is not changed by reducing one of them first.
LEMMA SumAgain ==
    ASSUME NEW u \in Nat, u > 0, NEW h \in Nat, NEW o \in Nat, NEW d \in Nat,
           ((h + o) % u) + d < u
    PROVE  (((h + d) % u) + o) % u = ((h + o) % u) + d
<1>1. ((h + d) + o) % u = (((h + d) % u) + o) % u
  <2>1. h + d \in Nat
    OBVIOUS
  <2>. QED  BY <2>1, ModPlus
<1>2. ((h + o) + d) % u = (((h + o) % u) + d) % u
  <2>1. h + o \in Nat
    OBVIOUS
  <2>. QED  BY <2>1, ModPlus
<1>3. PICK x \in Nat : x = (h + o) % u
  OBVIOUS
<1>4. (x + d) % u = x + d
  BY <1>3
<1>5. (h + d) + o = (h + o) + d
  OBVIOUS
<1>. QED  BY <1>1, <1>2, <1>3, <1>4, <1>5

\* hint advanced by an even number, and the sum below 2^32: the next start is as much
\* further on.
LEMMA StartAdvances ==
    ASSUME NEW h \in 0 .. U32 - 1, NEW po \in 0 .. U32 - 1, NEW d \in Nat, d % 2 = 0,
           ((h + po) % U32) + d < U32
    PROVE  StartOf((h + d) % U32, po) = (StartOf(h, po) + d) % Even(Remaining)
<1>1. U32 \in Nat /\ U32 > 0
      /\ Even(Remaining) \in Nat /\ Even(Remaining) > 0 /\ Even(Remaining) % 2 = 0
  BY RangeFacts
<1>2. (((h + d) % U32) + po) % U32 = ((h + po) % U32) + d
  BY <1>1, SumAgain
<1>3. (h + po) % U32 \in Nat
  BY <1>1
<1>. QED  BY <1>1, <1>2, <1>3, EvenPlus DEF StartOf

\* A search has begun where the hint it saw sends it.
HintInv == \A p \in Connectors : pc[p] # "idle" => first[p] = StartOf(seen[p], dest[p])

LEMMA HintInvariance == Spec => []HintInv
<1>1. Init => HintInv
  BY DEF Init, HintInv, Procs
<1>2. Inv /\ HintInv /\ [Next]_vars => HintInv'
  <2>. SUFFICES ASSUME Inv, HintInv, [Next]_vars, NEW r \in Connectors, pc'[r] # "idle"
                PROVE  first'[r] = StartOf(seen'[r], dest'[r])
    BY DEF HintInv
  <2>0. /\ DOMAIN pc = Procs /\ DOMAIN first = Procs /\ DOMAIN seen = Procs /\ DOMAIN dest = Procs
        /\ r \in Procs /\ \A p \in Binders : p \in Procs /\ p # r
        /\ \A p \in Connectors : p \in Procs
    BY PortSearchAssumption DEF Inv, PortTypeOK, HintTypeOK, Procs
  <2>1. pc[r] # "idle" => first[r] = StartOf(seen[r], dest[r])
    BY DEF HintInv
  <2>2. ASSUME UNCHANGED <<first, seen, dest>>, pc[r] # "idle"
        PROVE  first'[r] = StartOf(seen'[r], dest'[r])
    BY <2>1, <2>2
  <2>3. ASSUME NEW p \in Binders, BindBegins(p)
        PROVE  first'[r] = StartOf(seen'[r], dest'[r])
    <3>1. first'[r] = first[r] /\ pc'[r] = pc[r] /\ UNCHANGED <<seen, dest>>
      BY <2>0, <2>3 DEF BindBegins, Begin, hintvars
    <3>. QED  BY <2>1, <3>1
  <2>4. ASSUME NEW p \in Connectors, ConnectBegins(p)
        PROVE  first'[r] = StartOf(seen'[r], dest'[r])
    <3>1. PICK po \in PortOffsets :
            /\ Begin(p, StartOf(hint, po))
            /\ seen' = [seen EXCEPT ![p] = hint] /\ dest' = [dest EXCEPT ![p] = po]
      BY <2>4 DEF ConnectBegins
    <3>2. CASE r = p
      BY <2>0, <3>1, <3>2 DEF Begin
    <3>3. CASE r # p
      <4>1. /\ first'[r] = first[r] /\ pc'[r] = pc[r]
            /\ seen'[r] = seen[r] /\ dest'[r] = dest[r]
        BY <2>0, <3>1, <3>3 DEF Begin
      <4>. QED  BY <2>1, <4>1
    <3>. QED  BY <3>2, <3>3
  <2>5. ASSUME NEW p \in Binders, BindReturns(p)
        PROVE  first'[r] = StartOf(seen'[r], dest'[r])
    <3>1. first'[r] = first[r] /\ pc'[r] = pc[r] /\ UNCHANGED <<seen, dest>>
      BY <2>0, <2>5 DEF BindReturns, Return, hintvars
    <3>. QED  BY <2>1, <3>1
  <2>6. ASSUME NEW p \in Connectors, StoreHint(p)
        PROVE  first'[r] = StartOf(seen'[r], dest'[r])
    <3>1. r # p
      BY <2>0, <2>6 DEF StoreHint, Return
    <3>2. /\ first'[r] = first[r] /\ pc'[r] = pc[r]
          /\ seen'[r] = seen[r] /\ dest'[r] = dest[r]
      BY <2>0, <2>6, <3>1 DEF StoreHint, Return
    <3>. QED  BY <2>1, <3>2
  <2>7. ASSUME NEW p \in Binders, BindTakes(p) \/ BindSkips(p) \/ BindPasses(p) \/ OtherParity(p)
        PROVE  first'[r] = StartOf(seen'[r], dest'[r])
    <3>1. UNCHANGED <<first, seen, dest>>
      BY <2>7 DEF BindTakes, BindSkips, BindPasses, OtherParity, Advance, searchvars, hintvars
    <3>2. pc'[r] = pc[r]
      BY <2>0, <2>7 DEF BindTakes, BindSkips, BindPasses, OtherParity, Advance
    <3>. QED  BY <2>2, <3>1, <3>2
  <2>8. ASSUME NEW p \in Connectors,
               ConnectTakes(p) \/ ConnectPasses(p) \/ ConnectRunsOut(p) \/ LoadHint(p)
        PROVE  first'[r] = StartOf(seen'[r], dest'[r])
    <3>1. UNCHANGED <<first, seen, dest>>
      BY <2>8 DEF ConnectTakes, ConnectPasses, ConnectRunsOut, LoadHint, Advance, searchvars, hintvars
    <3>2. pc[p] # "idle" /\ (r # p => pc'[r] = pc[r])
      BY <2>0, <2>8 DEF ConnectTakes, ConnectPasses, ConnectRunsOut, LoadHint, Advance,
                        Scanning, ScanDone
    <3>. QED  BY <2>2, <3>1, <3>2
  <2>9. CASE OtherSocket \/ UNCHANGED vars
    BY <2>2, <2>9 DEF OtherSocket, vars, searchvars, hintvars
  <2>. QED  BY <2>3, <2>4, <2>5, <2>6, <2>7, <2>8, <2>9 DEF Next, BindStep, ConnectStep
<1>. QED  BY <1>1, <1>2, Invariance, PTL DEF Spec

\* After a search of connect() the next one for the same destination begins behind the
\* port it stopped at, under the conditions of NextBehind, for every range and any
\* number of searches that race on hint.
THEOREM HintLeadsOn == Spec => NextBehind
<1>. DEFINE Next1(p) ==
              /\ pc[p] = "store" /\ pc'[p] = "idle"
              /\ tmp[p] = seen[p]
              /\ ((seen[p] + dest[p]) % U32) + i[p] + 2 < U32
              => StartOf(hint', dest[p]) = (first[p] + i[p] + 2) % Even(Remaining)
<1>1. Inv /\ HintInv /\ [Next]_vars => [\A p \in Connectors : Next1(p)]_vars
  <2>. SUFFICES ASSUME Inv, HintInv, Next, NEW p \in Connectors,
                       pc[p] = "store", pc'[p] = "idle", tmp[p] = seen[p],
                       ((seen[p] + dest[p]) % U32) + i[p] + 2 < U32
                PROVE  StartOf(hint', dest[p]) = (first[p] + i[p] + 2) % Even(Remaining)
    BY DEF HintInv
  <2>0. /\ DOMAIN pc = Procs /\ p \in Procs
        /\ \A r \in Binders : r \in Procs /\ r # p
        /\ \A r \in Connectors : r \in Procs
    BY PortSearchAssumption DEF Inv, PortTypeOK, Procs
  <2>1. StoreHint(p)
    <3>1. \A r \in Binders : ~BindBegins(r) /\ ~BindStep(r)
      BY <2>0 DEF BindBegins, Begin, BindStep, BindTakes, BindSkips, BindPasses, OtherParity,
                  BindReturns, Advance, Return
    <3>2. \A r \in Connectors : ~ConnectBegins(r)
      BY <2>0 DEF ConnectBegins, Begin
    <3>3. \A r \in Connectors : ~ConnectTakes(r) /\ ~ConnectPasses(r) /\ ~ConnectRunsOut(r)
                                 /\ ~LoadHint(r)
      BY <2>0 DEF ConnectTakes, ConnectPasses, ConnectRunsOut, LoadHint, Advance
    <3>4. ~OtherSocket
      BY DEF OtherSocket
    <3>5. PICK r \in Connectors : StoreHint(r)
      BY <3>1, <3>2, <3>3, <3>4 DEF Next, ConnectStep
    <3>6. r = p
      BY <2>0, <3>5 DEF StoreHint, Return
    <3>. QED  BY <3>5, <3>6
  <2>2. /\ seen[p] \in 0 .. U32 - 1 /\ dest[p] \in 0 .. U32 - 1
        /\ i[p] \in Nat /\ i[p] % 2 = 0 /\ first[p] = StartOf(seen[p], dest[p])
        /\ first[p] \in Nat
    BY <2>0 DEF Inv, PortTypeOK, HintTypeOK, ConnectInv, HintInv
  <2>3. hint' = (seen[p] + i[p] + 2) % U32
    BY <2>1 DEF StoreHint
  <2>. DEFINE d == i[p] + 2
  <2>4. d \in Nat /\ d % 2 = 0
    BY <2>2
  <2>5. ((seen[p] + dest[p]) % U32) + i[p] + 2 = ((seen[p] + dest[p]) % U32) + d
    BY <2>2, RangeFacts
  <2>6. seen[p] + i[p] + 2 = seen[p] + d /\ first[p] + i[p] + 2 = first[p] + d
    BY <2>2
  <2>. HIDE DEF d
  <2>. QED  BY <2>2, <2>3, <2>4, <2>5, <2>6, StartAdvances
<1>. QED  BY <1>1, Invariance, HintInvariance, PTL DEF Spec, NextBehind

=============================================================================
