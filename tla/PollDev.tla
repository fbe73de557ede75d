-------------------------------- MODULE PollDev --------------------------------
(***************************************************************************)
(* The character device of live/epoll/my_poll_dev/my_poll_dev.c and the    *)
(* programs that poll and read it, live/epoll/my_poll_dev_test.c.          *)
(*                                                                         *)
(* A kernel thread prints "hello, <counter>" into readbuf and sets         *)
(* readbuflen; read() copies readbuflen bytes out and clears it.  Nothing  *)
(* is locked, so a print and a copy each have a beginning and an end, and  *)
(* read() loads readbuflen twice: for the copy and for its result.         *)
(*                                                                         *)
(* poll(2) and the wait queue are the kernel's (external): a poller puts   *)
(* itself on the queue, asks my_dev_poll(), sleeps unless it has been      *)
(* triggered since, and asks again.                                        *)
(***************************************************************************)
EXTENDS Integers, FiniteSets

CONSTANTS
    Readers,     \* processes running the test program
    BadBuffers,  \* those whose buffer copy_to_user() cannot write to
    Radix,       \* base in which the counter is printed: 10
    Prefix,      \* length of "hello, ": 7
    MaxCounter   \* bound on the messages the thread prints

ASSUME PollDevAssumption ==
    /\ BadBuffers \subseteq Readers
    /\ Radix \in Nat \ {0, 1} /\ Prefix \in Nat /\ MaxCounter \in Nat

VARIABLES
    dev,         \* "none", "loaded", "unloading" or "gone"
    readbuflen,
    counter,     \* the thread's counter
    wpc,         \* the thread: "none", "top", "print", "wake" or "exit"
    queue,       \* pollers on waitqueue
    triggered,   \* pollers woken since they last looked
    pc,          \* per reader, see Readers' actions
    clen,        \* per reader: readbuflen when copy_to_user() was called
    ret,         \* per reader: what read() returns; -1 for -EFAULT
    \* Accounting of what has been delivered, not in the code.
    from, to,    \* per reader: oldest and newest message the copy may mix
    seen,        \* per reader: newest message of its last copy
    times,       \* per reader: copies in a row that contained seen
    straddled,   \* a read() was under way when the last message came out
    opened       \* readers that have ever opened the device

devvars    == <<dev, queue, triggered>>
threadvars == <<counter, wpc, straddled>>
copyvars   == <<clen, ret, from, to>>
seenvars   == <<seen, times, opened>>
vars == <<devvars, threadvars, readbuflen, pc, copyvars, seenvars>>

Init ==
    /\ dev = "none" /\ readbuflen = 0
    /\ counter = 0 /\ wpc = "none" /\ straddled = FALSE
    /\ queue = {} /\ triggered = {}
    /\ pc = [r \in Readers |-> "closed"]
    /\ clen = [r \in Readers |-> 0] /\ ret = [r \in Readers |-> 0]
    /\ from = [r \in Readers |-> 0] /\ to = [r \in Readers |-> 0]
    /\ seen = [r \in Readers |-> 0] /\ times = [r \in Readers |-> 0]
    /\ opened = {}

\* The length snprintf() returns for "hello, %i".
MsgLen(c) == Prefix + 1 + Cardinality({d \in 1 .. 9 : c >= Radix^d})

\* What readbuf holds: while a message is printed its bytes are mixed with
\* those of the one before.
Oldest == IF wpc = "print" THEN counter - 1 ELSE counter
Newest == counter

-----------------------------------------------------------------------------
(* The module. *)

\* myinit(): the device appears, the thread is created and woken.
MyInit ==
    /\ dev = "none"
    /\ dev' = "loaded" /\ wpc' = "top"
    /\ UNCHANGED <<readbuflen, counter, straddled, queue, triggered, pc, copyvars, seenvars>>

\* myexit(), which the kernel calls only when no process has the device open,
\* up to kthread_stop() ...
MyExit ==
    /\ dev = "loaded"
    /\ \A r \in Readers : pc[r] = "closed"
    /\ dev' = "unloading"
    /\ UNCHANGED <<threadvars, readbuflen, queue, triggered, pc, copyvars, seenvars>>

\* ... which returns when the thread has.
Stopped ==
    /\ dev = "unloading" /\ wpc = "exit"
    /\ dev' = "gone"
    /\ UNCHANGED <<threadvars, readbuflen, queue, triggered, pc, copyvars, seenvars>>

-----------------------------------------------------------------------------
(* The thread, kthread_func(). *)

\* kthread_should_stop()
Leave ==
    /\ wpc = "top" /\ dev = "unloading"
    /\ wpc' = "exit"
    /\ UNCHANGED <<devvars, counter, straddled, readbuflen, pc, copyvars, seenvars>>

\* Mutation of Format: the counter is declared inside the loop.
FormatRestarts ==
    /\ wpc = "top" /\ dev # "unloading" /\ counter < MaxCounter
    /\ counter' = 1
    /\ wpc' = "print"
    /\ UNCHANGED <<devvars, straddled, readbuflen, pc, copyvars, seenvars>>

\* ++counter, and snprintf() begins to overwrite readbuf.
Format ==
    /\ wpc = "top" /\ dev # "unloading" /\ counter < MaxCounter
    /\ counter' = counter + 1
    /\ wpc' = "print"
    /\ UNCHANGED <<devvars, straddled, readbuflen, pc, copyvars, seenvars>>

\* A reader between the load of readbuflen for its copy and the clearing.
Reading(r) == pc[r] \in {"copy", "result", "clear"}

\* snprintf() is done and its result is assigned.
Publish ==
    /\ wpc = "print"
    /\ readbuflen' = MsgLen(counter)
    /\ wpc' = "wake"
    /\ straddled' = \E r \in Readers : Reading(r)
    /\ UNCHANGED <<devvars, counter, pc, copyvars, seenvars>>

\* Mutations of WakeUp: the message expires with it, or it is forgotten.
WakeUpClears ==
    /\ wpc = "wake"
    /\ triggered' = triggered \cup queue
    /\ wpc' = "top"
    /\ readbuflen' = 0
    /\ UNCHANGED <<dev, queue, counter, straddled, pc, copyvars, seenvars>>

NoWakeUp ==
    /\ wpc = "wake"
    /\ wpc' = "top"
    /\ UNCHANGED <<devvars, counter, straddled, readbuflen, pc, copyvars, seenvars>>

\* A second later, wake_up().
WakeUp ==
    /\ wpc = "wake"
    /\ triggered' = triggered \cup queue
    /\ wpc' = "top"
    /\ UNCHANGED <<dev, queue, counter, straddled, readbuflen, pc, copyvars, seenvars>>

Thread == Leave \/ Format \/ Publish \/ WakeUp

-----------------------------------------------------------------------------
(* A reader. *)

Goto(r, from_, to_) == pc[r] = from_ /\ pc' = [pc EXCEPT ![r] = to_]

Open(r) ==
    /\ dev = "loaded"
    /\ Goto(r, "closed", "poll")
    /\ opened' = opened \cup {r}
    /\ UNCHANGED <<devvars, threadvars, readbuflen, copyvars, seen, times>>

\* my_dev_poll(): poll_wait() ...
PollWait(r) ==
    /\ Goto(r, "poll", "check")
    /\ queue' = queue \cup {r}
    /\ UNCHANGED <<dev, triggered, threadvars, readbuflen, copyvars, seenvars>>

\* Mutation of PollCheck: "readbuflen >= 0", always true of a size_t.
PollCheckAlways(r) ==
    /\ Goto(r, "check", "read")
    /\ queue' = queue \ {r} /\ triggered' = triggered \ {r}
    /\ UNCHANGED <<dev, threadvars, readbuflen, copyvars, seenvars>>

\* ... and the test of readbuflen.  POLLIN: poll(2) leaves the queue and
\* returns; 0: it sleeps.
PollCheck(r) ==
    /\ IF readbuflen > 0
       THEN /\ Goto(r, "check", "read")
            /\ queue' = queue \ {r} /\ triggered' = triggered \ {r}
       ELSE Goto(r, "check", "sleep") /\ UNCHANGED <<queue, triggered>>
    /\ UNCHANGED <<dev, threadvars, readbuflen, copyvars, seenvars>>

\* Woken, poll(2) calls my_dev_poll() again.
Woken(r) ==
    /\ r \in triggered
    /\ Goto(r, "sleep", "check")
    /\ triggered' = triggered \ {r}
    /\ UNCHANGED <<dev, queue, threadvars, readbuflen, copyvars, seenvars>>

\* read(): copy_to_user(buf, readbuf, readbuflen) begins ...
CopyBegins(r) ==
    /\ Goto(r, "read", "copy")
    /\ clen' = [clen EXCEPT ![r] = readbuflen]
    /\ from' = [from EXCEPT ![r] = Oldest]
    /\ UNCHANGED <<devvars, threadvars, readbuflen, ret, to, seenvars>>

\* ... and ends, or fails.
CopyEnds(r) ==
    /\ clen[r] = 0 \/ r \notin BadBuffers
    /\ Goto(r, "copy", "result")
    /\ to' = [to EXCEPT ![r] = Newest]
    /\ UNCHANGED <<devvars, threadvars, readbuflen, clen, ret, from, seenvars>>

\* ret = -EFAULT; nothing counts as copied.
CopyFails(r) ==
    /\ clen[r] > 0 /\ r \in BadBuffers
    /\ Goto(r, "copy", "clear")
    /\ ret' = [ret EXCEPT ![r] = -1]
    /\ clen' = [clen EXCEPT ![r] = 0]
    /\ UNCHANGED <<devvars, threadvars, readbuflen, from, to, seenvars>>

\* ret = readbuflen
Result(r) ==
    /\ Goto(r, "result", "clear")
    /\ ret' = [ret EXCEPT ![r] = readbuflen]
    /\ UNCHANGED <<devvars, threadvars, readbuflen, clen, from, to, seenvars>>

\* What the copy that is now complete adds to the accounting.
Deliver(r) ==
    IF clen[r] = 0
    THEN UNCHANGED seenvars
    ELSE /\ seen' = [seen EXCEPT ![r] = to[r]]
         /\ times' = [times EXCEPT ![r] = IF to[r] = seen[r] THEN @ + 1 ELSE 1]
         /\ UNCHANGED opened

\* Mutation of Clear: readbuflen is left alone.
NoClear(r) ==
    /\ Goto(r, "clear", "poll")
    /\ Deliver(r)
    /\ UNCHANGED <<devvars, threadvars, readbuflen, copyvars>>

\* readbuflen = 0; read() returns and the program prints what it got.
Clear(r) ==
    /\ Goto(r, "clear", "poll")
    /\ readbuflen' = 0
    /\ Deliver(r)
    /\ UNCHANGED <<devvars, threadvars, copyvars>>

\* The program ends: poll() failed, assert(0), or it is killed while it runs in
\* user space or sleeps.
Close(r) ==
    /\ \E p \in {"poll", "sleep", "read"} : Goto(r, p, "closed")
    /\ queue' = queue \ {r} /\ triggered' = triggered \ {r}
    /\ UNCHANGED <<dev, threadvars, readbuflen, copyvars, seenvars>>

Polls(r) == PollWait(r) \/ PollCheck(r) \/ Woken(r)
Reads(r) == CopyBegins(r) \/ CopyEnds(r) \/ CopyFails(r) \/ Result(r) \/ Clear(r)
Reader(r) == Open(r) \/ Polls(r) \/ Reads(r) \/ Close(r)

Next == MyInit \/ MyExit \/ Stopped \/ Thread \/ \E r \in Readers : Reader(r)

Spec == Init /\ [][Next]_vars

\* The scheduler runs the thread and every process that is not asleep; nobody
\* has to open or close the device or to unload the module.
FairSpec ==
    /\ Spec
    /\ WF_vars(Thread) /\ WF_vars(Stopped)
    /\ \A r \in Readers : WF_vars(Polls(r)) /\ WF_vars(Reads(r))

-----------------------------------------------------------------------------
DevTypeOK ==
    /\ dev \in {"none", "loaded", "unloading", "gone"}
    /\ readbuflen \in Nat /\ counter \in 0 .. MaxCounter
    /\ wpc \in {"none", "top", "print", "wake", "exit"}
    /\ dev = "none" => wpc = "none"
    /\ straddled \in BOOLEAN
    /\ queue \subseteq Readers /\ triggered \subseteq Readers
    /\ pc \in [Readers -> {"closed", "poll", "check", "sleep", "read",
                           "copy", "result", "clear"}]
    /\ clen \in [Readers -> Nat] /\ ret \in [Readers -> Nat \cup {-1}]
    /\ from \in [Readers -> 0 .. MaxCounter] /\ to \in [Readers -> 0 .. MaxCounter]
    /\ seen \in [Readers -> 0 .. MaxCounter] /\ times \in [Readers -> Nat]
    /\ opened \subseteq Readers

\* Nobody else has ever opened the device.
Alone(r) == opened \subseteq {r}

\* POLLIN is kept: the read() a reader that is alone makes after POLLIN never
\* returns 0.  (Two readers take the message from each other.)
NoEmptyRead == \A r \in Readers : Alone(r) /\ pc[r] = "clear" => ret[r] # 0

\* A message that is no longer announced has been delivered to the only reader,
\* unless a read() was under way when it came out or the buffer was bad: the
\* unlocked "readbuflen = 0" loses nothing else.
LostOnlyIfStraddled ==
    \A r \in Readers \ BadBuffers :
        Alone(r) /\ ~straddled /\ wpc # "print" /\ readbuflen = 0 => seen[r] = counter

\* What a reader copies is never older than what it copied before, even if a
\* print overtakes the copy: the newest message in the last copy is at most
\* the oldest in this one.
InOrder ==
    \A r \in Readers :
        /\ pc[r] = "copy" => seen[r] <= from[r]
        /\ pc[r] \in {"result", "clear"} /\ clen[r] > 0 => seen[r] <= from[r] /\ from[r] <= to[r]

\* A reader gets (parts of) one message at most twice: once while it is being
\* printed, under the length of the one before, and once when it is complete.
AtMostTwice ==
    \A r \in Readers :
        /\ times[r] <= 2
        /\ pc[r] \in {"result", "clear"} /\ clen[r] > 0 /\ from[r] = seen[r] => times[r] <= 1

\* read() never claims less than it copied, although it loads readbuflen a
\* second time for its result, unless another read() has cleared it.
ReturnCoversCopy ==
    \A r \in Readers : pc[r] = "clear" => ret[r] = 0 \/ ret[r] = -1 \/ ret[r] >= clen[r]

\* A reader that sleeps in poll() while there is something to read is woken,
\* or somebody else reads it.
SleeperWoken ==
    \A r \in Readers :
        (pc[r] = "sleep" /\ readbuflen > 0) ~> ~(pc[r] = "sleep" /\ readbuflen > 0)

=============================================================================
