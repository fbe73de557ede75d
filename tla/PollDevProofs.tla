----------------------------- MODULE PollDevProofs -----------------------------
(***************************************************************************)
(* What the unlocked buffer of my_poll_dev still guarantees, for any       *)
(* number of readers and of messages.                                      *)
(***************************************************************************)
EXTENDS PollDev, FiniteSetTheorems, TLAPS

\* The buffer: a message is announced under its own length or not at all.
LengthInv ==
    /\ wpc = "print" => counter >= 1
    /\ readbuflen = 0 \/ readbuflen = MsgLen(Oldest)

\* A reader in the middle of read() has taken nothing newer than what is there
\* and nothing longer than what is announced.
CopyInv ==
    \A r \in Readers :
        /\ pc[r] \in {"copy", "result"} => clen[r] <= MsgLen(Oldest)
        /\ Reading(r) => from[r] <= Oldest
        /\ pc[r] \in {"result", "clear"} /\ clen[r] > 0 => to[r] <= counter

\* A reader that has copied from a message still being printed finds nothing
\* to read until that message is published.
AheadInv ==
    \A r \in Readers :
        /\ seen[r] <= counter
        /\ seen[r] > Oldest =>
            /\ readbuflen = 0 /\ times[r] <= 1
            /\ pc[r] \in {"closed", "poll", "check", "sleep"}

\* What can be delivered again has been delivered at most once.
AgainInv ==
    \A r \in Readers :
        /\ readbuflen > 0 /\ seen[r] = Oldest => times[r] <= 1
        /\ pc[r] = "copy" /\ clen[r] > 0 /\ from[r] = seen[r] => times[r] <= 1

\* The only reader: what POLLIN announced is still there, and what it is
\* copying is the current message unless a publication came in between.
AloneInv ==
    \A r \in Readers : Alone(r) =>
        /\ pc[r] \in {"read", "copy", "result"} => readbuflen > 0
        /\ Reading(r) /\ pc[r] # "clear" => clen[r] > 0
        /\ ~straddled /\ wpc # "print" /\ r \notin BadBuffers =>
            /\ pc[r] \in {"result", "clear"} => to[r] = counter
            /\ pc[r] = "clear" => clen[r] > 0

\* Who is at work has opened the device.
OpenInv == \A r \in Readers : pc[r] # "closed" => r \in opened

Inv ==
    /\ DevTypeOK /\ OpenInv /\ LengthInv /\ CopyInv /\ AheadInv /\ AgainInv /\ AloneInv
    /\ NoEmptyRead /\ LostOnlyIfStraddled /\ InOrder /\ AtMostTwice /\ ReturnCoversCopy

-----------------------------------------------------------------------------
\* A message is never empty, and a later message is never shorter.
LEMMA MsgLenType == ASSUME NEW c \in Nat PROVE MsgLen(c) \in Nat \ {0}
<1>. DEFINE D == {d \in 1 .. 9 : c >= Radix^d}
<1>0. 1 \in Int /\ 9 \in Int
  OBVIOUS
<1>1. IsFiniteSet(1 .. 9)
  BY <1>0, FS_Interval, Zenon
<1>2. IsFiniteSet(D)
  BY <1>1, FS_Subset, Zenon
<1>3. Cardinality(D) \in Nat
  BY <1>2, FS_CardinalityType
<1>. HIDE DEF D
<1>4. MsgLen(c) = Prefix + 1 + Cardinality(D)
  BY Zenon DEF MsgLen, D
<1>. QED  BY <1>3, <1>4, PollDevAssumption

LEMMA MsgLenMonotone ==
    ASSUME NEW c \in Nat, NEW e \in Nat, c <= e
    PROVE  MsgLen(c) <= MsgLen(e)
<1>. DEFINE D(x) == {d \in 1 .. 9 : x >= Radix^d}
<1>0. 1 \in Int /\ 9 \in Int
  OBVIOUS
<1>1. IsFiniteSet(1 .. 9)
  BY <1>0, FS_Interval, Zenon
<1>2. D(e) \subseteq 1 .. 9 /\ D(c) \subseteq 1 .. 9
  BY Zenon
<1>3. IsFiniteSet(D(e)) /\ IsFiniteSet(D(c))
  BY <1>1, <1>2, FS_Subset, Zenon
<1>4. D(c) \subseteq D(e)
  <2>1. ASSUME NEW x \in Int, c >= x PROVE e >= x
    BY <2>1
  <2>2. ASSUME NEW d \in 1 .. 9 PROVE Radix^d \in Int
    BY PollDevAssumption
  <2>. QED  BY <2>1, <2>2
<1>5. Cardinality(D(c)) <= Cardinality(D(e))
  BY <1>3, <1>4, FS_Subset
<1>6. Cardinality(D(c)) \in Nat /\ Cardinality(D(e)) \in Nat
  BY <1>3, FS_CardinalityType
<1>7. MsgLen(c) = Prefix + 1 + Cardinality(D(c)) /\ MsgLen(e) = Prefix + 1 + Cardinality(D(e))
  BY Zenon DEF MsgLen
<1>. HIDE DEF D
<1>. QED  BY <1>5, <1>6, <1>7, PollDevAssumption

\* Oldest is a message.
LEMMA OldestType ==
    ASSUME DevTypeOK, LengthInv
    PROVE  Oldest \in Nat /\ Oldest <= counter /\ MsgLen(Oldest) \in Nat \ {0}
<1>1. Oldest \in Nat /\ Oldest <= counter
  BY PollDevAssumption DEF DevTypeOK, LengthInv, Oldest
<1>. QED  BY <1>1, MsgLenType

\* Nothing is announced and nobody reads.
LEMMA InitInv == Init => Inv
<1>. SUFFICES ASSUME Init PROVE Inv
  OBVIOUS
<1>. USE PollDevAssumption DEF Init
<1>1. DevTypeOK
  <2>1. straddled \in BOOLEAN
    BY Zenon
  <2>. QED  BY <2>1 DEF DevTypeOK
<1>2. OpenInv /\ LengthInv /\ CopyInv /\ AheadInv /\ AgainInv /\ AloneInv
  BY DEF OpenInv, LengthInv, CopyInv, AheadInv, AgainInv, AloneInv, Oldest, Reading
<1>3. NoEmptyRead /\ LostOnlyIfStraddled /\ InOrder /\ AtMostTwice /\ ReturnCoversCopy
  BY DEF NoEmptyRead, LostOnlyIfStraddled, InOrder, AtMostTwice, ReturnCoversCopy
<1>. QED  BY <1>1, <1>2, <1>3 DEF Inv

\* Readers that are outside read().
Outside == {"closed", "poll", "check", "sleep"}

\* A step that neither prints nor reads, in which readers only move about
\* outside read(), preserves everything.
LEMMA QuietStep ==
    ASSUME Inv, DevTypeOK', OpenInv', opened \subseteq opened',
           UNCHANGED <<readbuflen, counter, straddled, copyvars, seen, times>>,
           wpc' = "print" <=> wpc = "print",
           \A r \in Readers : pc'[r] = pc[r] \/ pc'[r] \in Outside
    PROVE  Inv'
<1>. USE DEF Inv, Outside, copyvars
<1>0. \A r \in Readers : Alone(r)' => Alone(r)
  BY DEF Alone
<1>1. Oldest' = Oldest
  BY DEF Oldest
<1>2. LengthInv'
  BY <1>1 DEF LengthInv
<1>3. CopyInv'
  BY <1>1 DEF CopyInv, Reading
<1>4. AheadInv'
  BY <1>1 DEF AheadInv
<1>5. AgainInv' /\ InOrder' /\ AtMostTwice'
  BY <1>1 DEF AgainInv, InOrder, AtMostTwice
<1>6. AloneInv'
  BY <1>0 DEF AloneInv, Reading
<1>7. NoEmptyRead' /\ LostOnlyIfStraddled' /\ ReturnCoversCopy'
  BY <1>0 DEF NoEmptyRead, LostOnlyIfStraddled, ReturnCoversCopy
<1>. QED  BY <1>2, <1>3, <1>4, <1>5, <1>6, <1>7

\* When a reader takes a step, nobody else can be the only reader.
LEMMA ReaderStep ==
    ASSUME DevTypeOK, OpenInv, NEW r \in Readers, pc[r] # "closed", UNCHANGED opened,
           \E x : pc' = [pc EXCEPT ![r] = x]
    PROVE  OpenInv' /\ \A s \in Readers : Alone(s)' => s = r /\ Alone(s)
<1>1. r \in opened
  BY DEF OpenInv
<1>2. OpenInv'
  BY <1>1 DEF OpenInv, DevTypeOK
<1>. QED  BY <1>1, <1>2 DEF Alone

\* The thread begins to overwrite the last message, which is now the oldest.
LEMMA FormatStep == ASSUME Inv, Format PROVE Inv'
<1>. USE PollDevAssumption DEF Inv, Format, devvars, copyvars, seenvars
<1>1. DevTypeOK'
  BY DEF DevTypeOK
<1>2. Oldest' = Oldest /\ Oldest = counter /\ counter \in Nat
  BY DEF Oldest, DevTypeOK
<1>3. LengthInv'
  BY <1>2 DEF LengthInv, DevTypeOK
<1>4. CopyInv'
  BY <1>2 DEF CopyInv, Reading, DevTypeOK
<1>5. AheadInv'
  BY <1>2 DEF AheadInv, DevTypeOK
<1>6. AgainInv' /\ InOrder' /\ AtMostTwice'
  BY <1>2 DEF AgainInv, InOrder, AtMostTwice
<1>7. AloneInv'
  BY DEF AloneInv, Alone, Reading
<1>9. OpenInv'
  BY DEF OpenInv
<1>8. NoEmptyRead' /\ LostOnlyIfStraddled' /\ ReturnCoversCopy'
  BY DEF NoEmptyRead, LostOnlyIfStraddled, ReturnCoversCopy, Alone
<1>. QED  BY <1>1, <1>3, <1>4, <1>5, <1>6, <1>7, <1>8, <1>9

\* The new message is announced; it is at least as long as the old one.
LEMMA PublishStep == ASSUME Inv, Publish PROVE Inv'
<1>. USE PollDevAssumption DEF Inv, Publish, devvars, copyvars, seenvars
<1>0. /\ counter \in Nat /\ counter >= 1 /\ Oldest = counter - 1 /\ Oldest' = counter
      /\ MsgLen(counter) \in Nat \ {0} /\ MsgLen(Oldest) \in Nat
      /\ MsgLen(Oldest) <= MsgLen(counter)
  <2>1. counter \in Nat /\ counter >= 1 /\ Oldest = counter - 1 /\ Oldest' = counter
    BY DEF Oldest, LengthInv, DevTypeOK
  <2>. QED  BY <2>1, MsgLenType, MsgLenMonotone
<1>1. DevTypeOK'
  <2>1. straddled' \in BOOLEAN
    BY Zenon
  <2>. QED  BY <1>0, <2>1 DEF DevTypeOK
<1>2. LengthInv'
  BY <1>0 DEF LengthInv
<1>3. CopyInv'
  <2>. SUFFICES ASSUME NEW r \in Readers
                PROVE  /\ pc[r] \in {"copy", "result"} => clen[r] <= MsgLen(counter)
                       /\ Reading(r) => from[r] <= counter
                       /\ pc[r] \in {"result", "clear"} /\ clen[r] > 0 => to[r] <= counter
    BY <1>0 DEF CopyInv, Reading
  <2>1. clen[r] \in Nat /\ from[r] \in Nat
    BY DEF DevTypeOK
  <2>. QED  BY <1>0, <2>1 DEF CopyInv, Reading
<1>4. AheadInv'
  BY <1>0 DEF AheadInv, DevTypeOK
<1>5. AgainInv'
  <2>. SUFFICES ASSUME NEW r \in Readers, seen[r] = counter PROVE times[r] <= 1
    BY <1>0 DEF AgainInv
  <2>. QED  BY <1>0 DEF AheadInv
<1>6. InOrder' /\ AtMostTwice' /\ NoEmptyRead' /\ ReturnCoversCopy'
  BY DEF InOrder, AtMostTwice, NoEmptyRead, ReturnCoversCopy, Alone
<1>7. AloneInv'
  <2>. SUFFICES ASSUME NEW r \in Readers, Alone(r)
                PROVE  /\ Reading(r) /\ pc[r] # "clear" => clen[r] > 0
                       /\ ~straddled' => ~Reading(r)
    BY <1>0 DEF AloneInv, Alone, Reading
  <2>1. Reading(r) => straddled'
    OBVIOUS
  <2>. QED  BY <2>1 DEF AloneInv
<1>9. OpenInv'
  BY DEF OpenInv
<1>8. LostOnlyIfStraddled'
  BY <1>0 DEF LostOnlyIfStraddled
<1>. QED  BY <1>1, <1>2, <1>3, <1>4, <1>5, <1>6, <1>7, <1>8, <1>9

\* my_dev_poll() is asked: POLLIN only if something is announced.
LEMMA PollCheckStep == ASSUME Inv, NEW r \in Readers, PollCheck(r) PROVE Inv'
<1>1. CASE readbuflen > 0
  <2>. USE <1>1 DEF Inv, PollCheck, Goto, threadvars, copyvars, seenvars
  <2>0. pc' = [pc EXCEPT ![r] = "read"] /\ DOMAIN pc = Readers /\ pc[r] = "check"
    BY DEF DevTypeOK
  <2>a. OpenInv' /\ (\A s \in Readers : Alone(s)' => s = r /\ Alone(s))
    BY <2>0, ReaderStep
  <2>1. DevTypeOK'
    BY DEF DevTypeOK
  <2>2. Oldest' = Oldest
    BY DEF Oldest
  <2>3. LengthInv' /\ CopyInv'
    BY <2>0, <2>2 DEF LengthInv, CopyInv, Reading
  <2>4. AheadInv'
    BY <2>0, <2>2 DEF AheadInv, DevTypeOK
  <2>5. AgainInv' /\ InOrder' /\ AtMostTwice'
    BY <2>0, <2>2 DEF AgainInv, InOrder, AtMostTwice
  <2>6. AloneInv'
    BY <2>0, <2>a DEF AloneInv, Reading
  <2>7. NoEmptyRead' /\ LostOnlyIfStraddled' /\ ReturnCoversCopy'
    BY <2>0, <2>a DEF NoEmptyRead, LostOnlyIfStraddled, ReturnCoversCopy
  <2>. QED  BY <2>a, <2>1, <2>3, <2>4, <2>5, <2>6, <2>7
<1>2. CASE ~(readbuflen > 0)
  <2>1. DevTypeOK'
    BY <1>2 DEF Inv, DevTypeOK, PollCheck, Goto, threadvars, copyvars, seenvars
  <2>2. pc' = [pc EXCEPT ![r] = "sleep"] /\ pc[r] = "check" /\ DOMAIN pc = Readers
        /\ UNCHANGED <<threadvars, readbuflen, copyvars, seenvars>>
    BY <1>2 DEF Inv, DevTypeOK, PollCheck, Goto
  <2>3. OpenInv' /\ opened \subseteq opened' /\ UNCHANGED <<seen, times>>
    BY <2>2, ReaderStep DEF Inv, seenvars
  <2>. QED  BY <2>1, <2>2, <2>3, QuietStep DEF Outside, threadvars
<1>. QED  BY <1>1, <1>2

\* The copy begins: it cannot be older than what the reader has seen.
LEMMA CopyBeginsStep == ASSUME Inv, NEW r \in Readers, CopyBegins(r) PROVE Inv'
<1>. USE DEF Inv, CopyBegins, Goto, devvars, threadvars, seenvars
<1>0. /\ pc' = [pc EXCEPT ![r] = "copy"] /\ DOMAIN pc = Readers /\ pc[r] = "read"
      /\ clen' = [clen EXCEPT ![r] = readbuflen] /\ clen \in [Readers -> Nat]
      /\ from' = [from EXCEPT ![r] = Oldest] /\ from \in [Readers -> Nat]
  BY PollDevAssumption DEF DevTypeOK
<1>a. OpenInv' /\ (\A s \in Readers : Alone(s)' => s = r /\ Alone(s))
  BY <1>0, ReaderStep
<1>1. Oldest \in Nat /\ Oldest <= counter /\ MsgLen(Oldest) \in Nat /\ Oldest' = Oldest
  BY OldestType DEF Oldest
<1>2. DevTypeOK'
  BY <1>1, PollDevAssumption DEF DevTypeOK
<1>3. LengthInv'
  BY <1>1 DEF LengthInv
<1>4. CopyInv'
  <2>. SUFFICES ASSUME NEW s \in Readers
                PROVE  /\ pc'[s] \in {"copy", "result"} => clen'[s] <= MsgLen(Oldest)
                       /\ Reading(s)' => from'[s] <= Oldest
                       /\ pc'[s] \in {"result", "clear"} /\ clen'[s] > 0 => to[s] <= counter
    BY <1>1 DEF CopyInv
  <2>1. CASE s = r
    BY <1>0, <1>1, <2>1 DEF LengthInv
  <2>2. CASE s # r
    BY <1>0, <2>2 DEF CopyInv, Reading
  <2>. QED  BY <2>1, <2>2
<1>5. AheadInv'
  BY <1>0, <1>1 DEF AheadInv
<1>6. seen[r] <= Oldest /\ (readbuflen > 0 /\ Oldest = seen[r] => times[r] <= 1)
  BY <1>0, <1>1 DEF AheadInv, AgainInv, DevTypeOK
<1>7. AgainInv' /\ InOrder' /\ AtMostTwice'
  BY <1>0, <1>1, <1>6 DEF AgainInv, InOrder, AtMostTwice
<1>8. AloneInv'
  BY <1>0, <1>a DEF AloneInv, Reading
<1>9. NoEmptyRead' /\ LostOnlyIfStraddled' /\ ReturnCoversCopy'
  BY <1>0, <1>a DEF NoEmptyRead, LostOnlyIfStraddled, ReturnCoversCopy
<1>. QED  BY <1>a, <1>2, <1>3, <1>4, <1>5, <1>7, <1>8, <1>9

\* The copy ends: it holds nothing newer than the current message.
LEMMA CopyEndsStep == ASSUME Inv, NEW r \in Readers, CopyEnds(r) PROVE Inv'
<1>. USE DEF Inv, CopyEnds, Goto, Newest, devvars, threadvars, seenvars
<1>0. /\ pc' = [pc EXCEPT ![r] = "result"] /\ DOMAIN pc = Readers /\ pc[r] = "copy"
      /\ to' = [to EXCEPT ![r] = counter] /\ to \in [Readers -> Nat]
      /\ counter \in Nat /\ from[r] \in Nat
  BY PollDevAssumption DEF DevTypeOK
<1>a. OpenInv' /\ (\A s \in Readers : Alone(s)' => s = r /\ Alone(s))
  BY <1>0, ReaderStep
<1>1. Oldest' = Oldest /\ Oldest \in Nat /\ Oldest <= counter
  BY OldestType DEF Oldest
<1>2. DevTypeOK'
  BY DEF DevTypeOK
<1>3. LengthInv' /\ CopyInv'
  BY <1>0, <1>1 DEF LengthInv, CopyInv, Reading
<1>4. AheadInv'
  BY <1>0, <1>1 DEF AheadInv
<1>5. AgainInv' /\ AtMostTwice'
  BY <1>0, <1>1 DEF AgainInv, AtMostTwice
<1>6. InOrder'
  <2>1. from[r] <= counter
    BY <1>0, <1>1 DEF CopyInv, Reading
  <2>. QED  BY <1>0, <2>1 DEF InOrder
<1>7. AloneInv'
  BY <1>0, <1>a DEF AloneInv, Reading
<1>8. NoEmptyRead' /\ LostOnlyIfStraddled' /\ ReturnCoversCopy'
  BY <1>0, <1>a DEF NoEmptyRead, LostOnlyIfStraddled, ReturnCoversCopy
<1>. QED  BY <1>a, <1>2, <1>3, <1>4, <1>5, <1>6, <1>7, <1>8

\* copy_to_user() fails: nothing counts as copied.
LEMMA CopyFailsStep == ASSUME Inv, NEW r \in Readers, CopyFails(r) PROVE Inv'
<1>. USE DEF Inv, CopyFails, Goto, devvars, threadvars, seenvars
<1>0. /\ pc' = [pc EXCEPT ![r] = "clear"] /\ DOMAIN pc = Readers /\ pc[r] = "copy"
      /\ clen' = [clen EXCEPT ![r] = 0] /\ clen \in [Readers -> Nat]
      /\ ret' = [ret EXCEPT ![r] = -1] /\ ret \in [Readers -> Nat \cup {-1}]
      /\ r \in BadBuffers
  BY DEF DevTypeOK
<1>a. OpenInv' /\ (\A s \in Readers : Alone(s)' => s = r /\ Alone(s))
  BY <1>0, ReaderStep
<1>1. Oldest' = Oldest
  BY DEF Oldest
<1>2. DevTypeOK'
  BY DEF DevTypeOK
<1>3. LengthInv' /\ CopyInv'
  BY <1>0, <1>1 DEF LengthInv, CopyInv, Reading
<1>4. AheadInv'
  BY <1>0, <1>1 DEF AheadInv
<1>5. AgainInv' /\ InOrder' /\ AtMostTwice'
  BY <1>0, <1>1 DEF AgainInv, InOrder, AtMostTwice
<1>6. AloneInv'
  BY <1>0, <1>a DEF AloneInv, Reading
<1>7. NoEmptyRead' /\ LostOnlyIfStraddled' /\ ReturnCoversCopy'
  BY <1>0, <1>a DEF NoEmptyRead, LostOnlyIfStraddled, ReturnCoversCopy
<1>. QED  BY <1>a, <1>2, <1>3, <1>4, <1>5, <1>6, <1>7

\* read() takes its result: the announced length covers the copy, and for the
\* only reader it is not 0.
LEMMA ResultStep == ASSUME Inv, NEW r \in Readers, Result(r) PROVE Inv'
<1>. USE DEF Inv, Result, Goto, devvars, threadvars, seenvars
<1>0. /\ pc' = [pc EXCEPT ![r] = "clear"] /\ DOMAIN pc = Readers /\ pc[r] = "result"
      /\ ret' = [ret EXCEPT ![r] = readbuflen] /\ ret \in [Readers -> Nat \cup {-1}]
  BY DEF DevTypeOK
<1>a. OpenInv' /\ (\A s \in Readers : Alone(s)' => s = r /\ Alone(s))
  BY <1>0, ReaderStep
<1>1. Oldest' = Oldest
  BY DEF Oldest
<1>2. DevTypeOK'
  BY DEF DevTypeOK
<1>3. LengthInv' /\ CopyInv'
  BY <1>0, <1>1 DEF LengthInv, CopyInv, Reading
<1>4. AheadInv'
  BY <1>0, <1>1 DEF AheadInv
<1>5. AgainInv' /\ InOrder' /\ AtMostTwice'
  BY <1>0, <1>1 DEF AgainInv, InOrder, AtMostTwice
<1>6. AloneInv'
  BY <1>0, <1>a DEF AloneInv, Reading
<1>7. ReturnCoversCopy'
  <2>1. readbuflen = 0 \/ readbuflen >= clen[r]
    BY <1>0 DEF LengthInv, CopyInv, DevTypeOK
  <2>. QED  BY <1>0, <2>1 DEF ReturnCoversCopy
<1>8. NoEmptyRead' /\ LostOnlyIfStraddled'
  BY <1>0, <1>a DEF NoEmptyRead, LostOnlyIfStraddled, AloneInv
<1>. QED  BY <1>a, <1>2, <1>3, <1>4, <1>5, <1>6, <1>7, <1>8

\* read() clears readbuflen and returns: the copy counts as delivered.
LEMMA ClearStep == ASSUME Inv, NEW r \in Readers, Clear(r) PROVE Inv'
<1>. USE DEF Inv, Clear, Goto, devvars, threadvars, copyvars, seenvars
<1>0. /\ pc' = [pc EXCEPT ![r] = "poll"] /\ DOMAIN pc = Readers /\ pc[r] = "clear"
      /\ readbuflen' = 0 /\ clen[r] \in Nat /\ to[r] \in Nat /\ from[r] \in Nat
      /\ seen \in [Readers -> Nat] /\ times \in [Readers -> Nat] /\ counter \in Nat
  BY PollDevAssumption DEF DevTypeOK
<1>a. OpenInv' /\ (\A s \in Readers : Alone(s)' => s = r /\ Alone(s))
  BY <1>0, ReaderStep DEF Deliver
<1>1. Oldest' = Oldest /\ Oldest \in Nat /\ Oldest <= counter
  BY OldestType DEF Oldest
<1>2. \/ clen[r] = 0 /\ seen' = seen /\ times' = times
      \/ /\ clen[r] > 0
         /\ seen' = [seen EXCEPT ![r] = to[r]]
         /\ times' = [times EXCEPT ![r] = IF to[r] = seen[r] THEN times[r] + 1 ELSE 1]
  BY <1>0 DEF Deliver
<1>3. DevTypeOK'
  <2>1. opened' = opened
    BY DEF Deliver
  <2>2. seen' \in [Readers -> 0 .. MaxCounter] /\ times' \in [Readers -> Nat]
    BY <1>0, <1>2 DEF DevTypeOK
  <2>. QED  BY <1>0, <2>1, <2>2 DEF DevTypeOK
<1>4. LengthInv' /\ CopyInv'
  BY <1>0, <1>1 DEF LengthInv, CopyInv, Reading
<1>5. /\ clen[r] > 0 => seen[r] <= from[r] /\ from[r] <= to[r] /\ to[r] <= counter
      /\ from[r] <= Oldest
      /\ clen[r] > 0 /\ from[r] = seen[r] => times[r] <= 1
  BY <1>0 DEF InOrder, CopyInv, AtMostTwice, Reading
<1>6. AheadInv'
  <2>. SUFFICES ASSUME NEW s \in Readers
                PROVE  /\ seen'[s] <= counter
                       /\ seen'[s] > Oldest => times'[s] <= 1 /\ pc'[s] \in Outside
    BY <1>0, <1>1 DEF AheadInv, Outside
  <2>1. CASE s = r /\ clen[r] > 0
    BY <1>0, <1>1, <1>2, <1>5, <2>1 DEF Outside
  <2>2. CASE s # r \/ clen[r] = 0
    BY <1>0, <1>1, <1>2, <2>2 DEF AheadInv, Outside
  <2>. QED  BY <1>0, <2>1, <2>2
<1>7. times'[r] <= 2
  BY <1>0, <1>2, <1>5 DEF AtMostTwice
<1>8. AgainInv' /\ AtMostTwice'
  BY <1>0, <1>1, <1>2, <1>7 DEF AgainInv, AtMostTwice
<1>9. InOrder' /\ ReturnCoversCopy' /\ NoEmptyRead'
  BY <1>0, <1>2, <1>a DEF InOrder, ReturnCoversCopy, NoEmptyRead
<1>10. AloneInv'
  BY <1>0, <1>a DEF AloneInv, Reading
<1>11. LostOnlyIfStraddled'
  BY <1>0, <1>2, <1>a DEF LostOnlyIfStraddled, AloneInv
<1>. QED  BY <1>a, <1>3, <1>4, <1>6, <1>8, <1>9, <1>10, <1>11

\* Inv holds of every reachable state.
LEMMA Invariance == Spec => []Inv
<1>1. Init => Inv
  BY InitInv
<1>2. Inv /\ [Next]_vars => Inv'
  <2>. SUFFICES ASSUME Inv, [Next]_vars PROVE Inv'
    OBVIOUS
  <2>. USE DEF Inv, devvars, threadvars
  <2>1. CASE MyInit \/ MyExit \/ Stopped \/ Leave \/ WakeUp
    <3>1. DevTypeOK'
      BY <2>1 DEF DevTypeOK, MyInit, MyExit, Stopped, Leave, WakeUp, copyvars, seenvars
    <3>2. UNCHANGED <<readbuflen, counter, straddled, pc, copyvars, seenvars>>
      BY <2>1 DEF MyInit, MyExit, Stopped, Leave, WakeUp
    <3>3. wpc' # wpc => wpc \in {"none", "top", "wake"} /\ wpc' \in {"top", "exit"}
      BY <2>1 DEF MyInit, MyExit, Stopped, Leave, WakeUp, DevTypeOK
    <3>4. wpc' = "print" <=> wpc = "print"
      BY <3>3
    <3>5. OpenInv' /\ UNCHANGED <<seen, times, opened>>
      BY <3>2 DEF OpenInv, seenvars
    <3>. QED  BY <3>1, <3>2, <3>4, <3>5, QuietStep
  <2>2. CASE Format
    BY <2>2, FormatStep
  <2>3. CASE Publish
    BY <2>3, PublishStep
  <2>4. ASSUME NEW r \in Readers, Open(r) \/ PollWait(r) \/ Woken(r) \/ Close(r)
        PROVE  Inv'
    <3>1. \E p \in Outside : pc' = [pc EXCEPT ![r] = p]
      BY <2>4 DEF Open, PollWait, Woken, Close, Goto, Outside
    <3>2. DevTypeOK'
      BY <2>4, <3>1
         DEF DevTypeOK, Open, PollWait, Woken, Close, Outside, copyvars, seenvars
    <3>3. \A q \in Readers : pc'[q] = pc[q] \/ pc'[q] \in Outside
      BY <3>1 DEF DevTypeOK
    <3>4. /\ UNCHANGED <<threadvars, readbuflen, copyvars, seen, times>>
          /\ opened \subseteq opened'
          /\ pc'[r] # "closed" => r \in opened'
      BY <2>4 DEF Open, PollWait, Woken, Close, Goto, seenvars, OpenInv, DevTypeOK
    <3>5. OpenInv'
      BY <3>1, <3>4 DEF OpenInv, DevTypeOK
    <3>. QED  BY <3>2, <3>3, <3>4, <3>5, QuietStep
  <2>5. ASSUME NEW r \in Readers, PollCheck(r) \/ Reads(r)
        PROVE  Inv'
    BY <2>5, PollCheckStep, CopyBeginsStep, CopyEndsStep, CopyFailsStep, ResultStep, ClearStep
       DEF Reads
  <2>6. CASE UNCHANGED vars
    <3>1. DevTypeOK'
      BY <2>6 DEF DevTypeOK, vars, copyvars, seenvars
    <3>2. OpenInv' /\ UNCHANGED <<pc, seen, times, opened>>
      BY <2>6 DEF vars, seenvars, OpenInv
    <3>. QED  BY <2>6, <3>1, <3>2, QuietStep DEF vars
  <2>. QED  BY <2>1, <2>2, <2>3, <2>4, <2>5, <2>6 DEF Next, Thread, Reader, Polls
<1>. QED  BY <1>1, <1>2, PTL DEF Spec

-----------------------------------------------------------------------------
\* The device, the thread and the readers keep their types.
THEOREM DevTypeCorrect == Spec => []DevTypeOK
<1>1. Inv => DevTypeOK
  BY DEF Inv
<1>. QED  BY <1>1, Invariance, PTL

\* A single reader's read() after POLLIN always returns something.
THEOREM PollinIsKept == Spec => []NoEmptyRead
<1>1. Inv => NoEmptyRead
  BY DEF Inv
<1>. QED  BY <1>1, Invariance, PTL

\* A single reader misses the current message only if its publication fell
\* into a read() that was clearing the one before.
THEOREM LossNeedsARace == Spec => []LostOnlyIfStraddled
<1>1. Inv => LostOnlyIfStraddled
  BY DEF Inv
<1>. QED  BY <1>1, Invariance, PTL

\* No reader ever copies an older message after a newer one.
THEOREM MessagesInOrder == Spec => []InOrder
<1>1. Inv => InOrder
  BY DEF Inv
<1>. QED  BY <1>1, Invariance, PTL

\* No reader gets parts of one message more than twice.
THEOREM DeliveredAtMostTwice == Spec => []AtMostTwice
<1>1. Inv => AtMostTwice
  BY DEF Inv
<1>. QED  BY <1>1, Invariance, PTL

\* The result of read() covers what it copied, is 0 or is an error.
THEOREM ResultCoversCopy == Spec => []ReturnCoversCopy
<1>1. Inv => ReturnCoversCopy
  BY DEF Inv
<1>. QED  BY <1>1, Invariance, PTL

=============================================================================
