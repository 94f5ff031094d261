------------------------------ MODULE JvsPort -------------------------------
(***************************************************************************)
(* The asynchronous half of the JVS board: the COM port the game reads and *)
(* writes with ReadFileEx and WriteFileEx (jvs.c, and the handlers of      *)
(* hle_callback.c that forward to it).                                     *)
(*                                                                         *)
(* Two kinds of thread share one JvsPort under its lock: the game's own    *)
(* threads, and the ticker, which every ten milliseconds looks whether a   *)
(* posted read can end.  A read ends with an APC queued to the thread that *)
(* posted it, which runs the guest's completion routine at that thread's   *)
(* next alertable wait.  The region a thread runs under the lock is one    *)
(* step; WriteFileEx is two, because its own completion is queued after    *)
(* the lock was released.                                                  *)
(*                                                                         *)
(* What a reply says is JvsNode's subject.  Here a byte of a reply is the  *)
(* write that asked for it.                                                *)
(***************************************************************************)
EXTENDS Integers, Sequences, SequencesExt

CONSTANTS
    Thread,      \* the game threads that use the port
    Read,        \* the reads they post, each once
    Write,       \* the writes they make, each once
    Silent,      \* the reads and writes made without a completion routine
    MayFail,     \* the calls malloc or DuplicateHandle may fail for
    MayExit,     \* the threads that may end
    Length,      \* the lengths asked for
    MaxReply,    \* the most bytes one write is answered with
    Capacity,    \* what the ring to the game holds: FIFO_SIZE - 1
    Timeouts,    \* the COMMTIMEOUTS the game sets
    Modulus,     \* 2^32, the width of the arithmetic on them
    Fallback,    \* the 250 ms of read_deadline_for()
    None

ASSUME PortAssumption ==
    /\ Read \cap Write = {} /\ None \notin Read \cup Write \cup Thread
    /\ Silent \subseteq Read \cup Write /\ MayFail \subseteq Read \cup Write
    /\ MayExit \subseteq Thread
    /\ Length \subseteq Nat /\ MaxReply \in Nat /\ Capacity \in Nat
    /\ Modulus \in Nat \ {0} /\ Fallback \in Nat
    /\ Timeouts \subseteq [interval : Nat, mult : Nat, const : Nat]

Op == Read \cup Write

VARIABLES
    out,           \* the bytes waiting for the game, each the write it answers
    pending,       \* the posted read, or None: read_pending
    read_len,      \* how much it asked for
    read_thread,   \* the handle of the thread that posted it; None is NULL
    left,          \* the ticks left until read_deadline; 0 is expired
    timeouts,      \* to_interval, to_rd_mult and to_rd_const
    apc,           \* the completions queued to each thread, in order
    alive,         \* the threads that have not ended
    inWrite,       \* the WriteFileEx each thread is in the middle of
    owner,         \* the thread that made each call
    status,        \* what became of each read
    bytes,         \* what each read was given
    called,        \* the operations whose completion routine has run
    failed,        \* the calls whose completion Windows had no room for
    age,           \* the ticks counted since the last read was posted
    terms,         \* the timeouts in force when it was
    accepted,      \* every byte the ring took, in order
    taken          \* every byte a read took, in order

clockVars == <<left, age, terms>>
portVars == <<out, pending, read_len, read_thread, timeouts, clockVars>>
opVars   == <<owner, status, bytes, called, failed, accepted, taken>>
vars     == <<portVars, opVars, apc, alive, inWrite>>

NoTimeouts == [interval |-> 0, mult |-> 0, const |-> 0]

Init == /\ out = << >>
        /\ pending = None /\ read_len = 0 /\ read_thread = None /\ left = 0
        /\ timeouts = NoTimeouts
        /\ apc = [t \in Thread |-> << >>]
        /\ alive = Thread
        /\ inWrite = [t \in Thread |-> None]
        /\ owner = [o \in Op |-> None]
        /\ status = [r \in Read |-> "new"]
        /\ bytes = [r \in Read |-> << >>]
        /\ called = {} /\ failed = {}
        /\ age = 0 /\ terms = NoTimeouts
        /\ accepted = << >> /\ taken = << >>
-----------------------------------------------------------------------------
Least(m, n) == IF m <= n THEN m ELSE n

\* What if the total were compared with zero before it is cut to 32 bits?
DeadlineUncut(n) ==
    LET total == timeouts.mult * n + timeouts.const
    IN  IF /\ timeouts.interval = Modulus - 1
           /\ timeouts.mult = 0 /\ timeouts.const = 0
        THEN 0
        ELSE IF total = 0 THEN Fallback ELSE total % Modulus

\* read_deadline_for(): the ticks a read of n bytes may take.  No timeout at
\* all is replaced by Fallback.
Deadline(n) ==
    LET total == (timeouts.mult * n + timeouts.const) % Modulus
    IN  IF /\ timeouts.interval = Modulus - 1
           /\ timeouts.mult = 0 /\ timeouts.const = 0
        THEN 0
        ELSE IF total = 0 THEN Fallback ELSE total

\* QueueUserAPC(deliver, ...): there is nothing to queue when the caller gave
\* no routine; it fails for a thread that has ended and for no handle at all,
\* and is not reached when malloc() fails.  f is what had failed before.
Queue(t, o, f) ==
    \/ /\ o \notin Silent /\ t \in alive
       /\ apc' = [apc EXCEPT ![t] = Append(@, o)]
       /\ failed' = f
    \/ /\ o \in Silent \/ t \notin alive
       /\ apc' = apc /\ failed' = f
    \/ /\ o \in MayFail \ Silent
       /\ apc' = apc /\ failed' = f \cup {o}

\* out_take() into the buffer of a read or of the caller.
TakeFrom(o, n) == SubSeq(o, 1, Least(n, Len(o)))
LeaveOf(o, n)  == SubSeq(o, Least(n, Len(o)) + 1, Len(o))

Finishes(r, n, o, l) == r # None /\ (Len(o) >= n \/ l = 0)

\* What if a read that ended stayed pending?
FinishKeepingPending(r, n, t, o, l, st, f) ==
    \/ /\ Finishes(r, n, o, l)
       /\ pending' = r
       /\ out' = LeaveOf(o, n)
       /\ taken' = taken \o TakeFrom(o, n)
       /\ bytes' = [bytes EXCEPT ![r] = TakeFrom(o, n)]
       /\ status' = [st EXCEPT ![r] = "filled"]
       /\ Queue(t, r, f)
    \/ /\ ~Finishes(r, n, o, l)
       /\ pending' = r /\ out' = o /\ status' = st /\ failed' = f
       /\ UNCHANGED <<taken, bytes, apc>>

\* finish_read() on a port that holds read r of n bytes by thread t, the ring
\* o and l ticks left; st is the status of the reads when it is reached and f
\* the calls that failed.
FinishRead(r, n, t, o, l, st, f) ==
    \/ /\ Finishes(r, n, o, l)
       /\ pending' = None
       /\ out' = LeaveOf(o, n)
       /\ taken' = taken \o TakeFrom(o, n)
       /\ bytes' = [bytes EXCEPT ![r] = TakeFrom(o, n)]
       /\ status' = [st EXCEPT ![r] = "filled"]
       /\ Queue(t, r, f)
    \/ /\ ~Finishes(r, n, o, l)
       /\ pending' = r /\ out' = o /\ status' = st /\ failed' = f
       /\ UNCHANGED <<taken, bytes, apc>>
-----------------------------------------------------------------------------
\* A thread that can make a call: it is not inside another one.
Runs(t) == t \in alive /\ inWrite[t] = None

\* Posting read r forgets the one that was pending.
Posted(r) == [p \in Read |-> IF p = r THEN "posted"
                             ELSE IF p = pending THEN "replaced" ELSE status[p]]

\* What if es3_jvs_post_read() kept the handle of the thread it already had?
PostKeepingThread(t, r, n) ==
    /\ Runs(t) /\ status[r] = "new"
    /\ read_thread' = IF read_thread = None THEN t ELSE read_thread
    /\ read_len' = n /\ left' = Deadline(n) /\ age' = 0 /\ terms' = timeouts
    /\ owner' = [owner EXCEPT ![r] = t]
    /\ FinishRead(r, n, read_thread', out, left', Posted(r), failed)
    /\ UNCHANGED <<timeouts, alive, inWrite, called, accepted>>

\* What if a read posted over a pending one kept its deadline?
PostKeepingDeadline(t, r, n) ==
    /\ Runs(t) /\ status[r] = "new"
    /\ read_thread' = t /\ read_len' = n
    /\ left' = (IF pending = None THEN Deadline(n) ELSE left)
    /\ age' = 0 /\ terms' = timeouts
    /\ owner' = [owner EXCEPT ![r] = t]
    /\ FinishRead(r, n, t, out, left', Posted(r), failed)
    /\ UNCHANGED <<timeouts, alive, inWrite, called, accepted>>

\* hle_read_file_ex(), es3_jvs_post_read().  A read that is still pending is
\* overwritten: nothing will ever complete it.  The old handle is closed
\* whether or not DuplicateHandle() makes a new one.
PostRead(t, r, n) ==
    /\ Runs(t) /\ status[r] = "new"
    /\ read_len' = n /\ left' = Deadline(n) /\ age' = 0 /\ terms' = timeouts
    /\ owner' = [owner EXCEPT ![r] = t]
    /\ \/ /\ read_thread' = t
          /\ FinishRead(r, n, t, out, left', Posted(r), failed)
       \/ /\ r \in MayFail /\ read_thread' = None
          /\ FinishRead(r, n, None, out, left', Posted(r), failed \cup {r})
    /\ UNCHANGED <<timeouts, alive, inWrite, called, accepted>>

\* hle_write_file_ex() up to the end of es3_jvs_write(): the board answers
\* with k bytes, of which the ring drops what it has no room for.
StartWrite(t, w, k) ==
    LET reply == [i \in 1 .. Least(k, Capacity - Len(out)) |-> w]
    IN  /\ Runs(t) /\ owner[w] = None
        /\ owner' = [owner EXCEPT ![w] = t]
        /\ inWrite' = [inWrite EXCEPT ![t] = w]
        /\ accepted' = accepted \o reply
        /\ FinishRead(pending, read_len, read_thread, out \o reply, left, status, failed)
        /\ UNCHANGED <<read_len, read_thread, clockVars, timeouts, alive, called>>

\* What if the completion of the write were queued to the reading thread?
EndWriteOnReader(t) ==
    /\ inWrite[t] # None
    /\ inWrite' = [inWrite EXCEPT ![t] = None]
    /\ Queue(IF read_thread = None THEN t ELSE read_thread, inWrite[t], failed)
    /\ UNCHANGED <<portVars, owner, status, bytes, called, accepted, taken, alive>>

\* es3_jvs_complete_write(): its completion goes to the writer's own queue,
\* if malloc() and DuplicateHandle() succeed.
EndWrite(t) ==
    /\ inWrite[t] # None
    /\ inWrite' = [inWrite EXCEPT ![t] = None]
    /\ Queue(t, inWrite[t], failed)
    /\ UNCHANGED <<portVars, owner, status, bytes, called, accepted, taken, alive>>

\* What if es3_jvs_read() left the bytes it copied in the ring?
ReadWithoutTaking(t, n) ==
    /\ Runs(t) /\ out # << >>
    /\ taken' = taken \o TakeFrom(out, n)
    /\ UNCHANGED <<portVars, owner, status, bytes, called, failed, accepted,
                   apc, alive, inWrite>>

\* hle_read_file(), es3_jvs_read(): never waits, whatever is there is taken.
ReadNow(t, n) ==
    /\ Runs(t) /\ out # << >>
    /\ out' = LeaveOf(out, n)
    /\ taken' = taken \o TakeFrom(out, n)
    /\ UNCHANGED <<pending, read_len, read_thread, clockVars, timeouts, owner,
                   status, bytes, called, failed, accepted, apc, alive, inWrite>>

\* hle_cancel_io_ex(), es3_jvs_cancel(): the read is forgotten, with no
\* completion.
Cancel(t) ==
    /\ Runs(t) /\ pending # None
    /\ pending' = None
    /\ status' = [status EXCEPT ![pending] = "cancelled"]
    /\ UNCHANGED <<out, read_len, read_thread, clockVars, timeouts, owner, bytes,
                   called, failed, accepted, taken, apc, alive, inWrite>>

\* hle_set_comm_timeouts(), es3_jvs_set_timeouts(): for the reads to come.
SetTimeouts(t, to) ==
    /\ Runs(t) /\ timeouts # to
    /\ timeouts' = to
    /\ UNCHANGED <<out, pending, read_len, read_thread, clockVars, opVars, apc, alive,
                   inWrite>>

\* An alertable wait runs deliver() for the oldest completion queued.
AlertableWait(t) ==
    /\ Runs(t) /\ apc[t] # << >>
    /\ called' = called \cup {Head(apc[t])}
    /\ apc' = [apc EXCEPT ![t] = Tail(@)]
    /\ UNCHANGED <<portVars, owner, status, bytes, failed, accepted, taken, alive,
                   inWrite>>

\* A thread ends and its queue with it.
ThreadExit(t) ==
    /\ Runs(t) /\ t \in MayExit
    /\ alive' = alive \ {t}
    /\ apc' = [apc EXCEPT ![t] = << >>]
    /\ UNCHANGED <<portVars, opVars, inWrite>>

\* What if the ticker only looked at a read that has all its bytes?
TickerWithoutDeadline ==
    /\ Len(out) >= read_len
    /\ FinishRead(pending, read_len, read_thread, out, left, status, failed)
    /\ UNCHANGED <<read_len, read_thread, clockVars, timeouts, owner, called, accepted,
                   alive, inWrite>>

\* jvs_ticker(): finish_read() every ten milliseconds.
Ticker ==
    /\ FinishRead(pending, read_len, read_thread, out, left, status, failed)
    /\ UNCHANGED <<read_len, read_thread, clockVars, timeouts, owner, called, accepted,
                   alive, inWrite>>

\* GetTickCount64() moves on; it is not counted past a deadline.
Elapse ==
    /\ pending # None /\ left > 0
    /\ left' = left - 1 /\ age' = age + 1
    /\ UNCHANGED <<out, pending, read_len, read_thread, timeouts, terms, opVars, apc,
                   alive, inWrite>>

GameStep(t) ==
    \/ \E r \in Read, n \in Length : PostRead(t, r, n)
    \/ \E w \in Write, k \in 0 .. MaxReply : StartWrite(t, w, k)
    \/ EndWrite(t)
    \/ \E n \in Length : ReadNow(t, n)
    \/ Cancel(t)
    \/ \E to \in Timeouts : SetTimeouts(t, to)
    \/ AlertableWait(t)
    \/ ThreadExit(t)

Next == (\E t \in Thread : GameStep(t)) \/ Ticker \/ Elapse

Spec == Init /\ [][Next]_vars

\* The ticker never stops and time passes.
BoardFairness == WF_vars(Ticker) /\ WF_vars(Elapse)
-----------------------------------------------------------------------------
MaxLeft == IF Fallback >= Modulus THEN Fallback ELSE Modulus - 1

(***************************************************************************)
(* Type invariant of the port (jvs.c JvsPort) and of the calls on it.      *)
(***************************************************************************)
TypeOK ==
    /\ out \in Seq(Write)
    /\ pending \in Read \cup {None}
    /\ read_len \in Nat
    /\ read_thread \in Thread \cup {None}
    /\ left \in 0 .. MaxLeft
    /\ timeouts \in [interval : Nat, mult : Nat, const : Nat]
    /\ apc \in [Thread -> Seq(Op)]
    /\ alive \in SUBSET Thread
    /\ inWrite \in [Thread -> Write \cup {None}]
    /\ owner \in [Op -> Thread \cup {None}]
    /\ status \in [Read -> {"new", "posted", "filled", "replaced", "cancelled"}]
    /\ bytes \in [Read -> Seq(Write)]
    /\ called \in SUBSET Op /\ failed \in SUBSET Op
    /\ age \in Nat /\ terms \in [interval : Nat, mult : Nat, const : Nat]
    /\ accepted \in Seq(Write) /\ taken \in Seq(Write)

Queued(o) == \E t \in Thread : o \in ToSet(apc[t])

(***************************************************************************)
(* finish_read() queues the completion, it does not call it: a completion  *)
(* routine only ever runs on the thread that made the call, whichever      *)
(* thread's write or tick ended it (jvs.c, comment in finish_read).        *)
(***************************************************************************)
CompletedOnItsThread == \A t \in Thread : \A o \in ToSet(apc[t]) : owner[o] = t

(***************************************************************************)
(* No routine is called twice for one call: an operation is in one queue   *)
(* at most, at one place, and not any more once its routine has run;       *)
(* and only a read that was filled, or a write that is over, completes.    *)
(***************************************************************************)
CompletedOnce ==
    /\ \A t, u \in Thread : \A i \in DOMAIN apc[t], j \in DOMAIN apc[u] :
         apc[t][i] = apc[u][j] => t = u /\ i = j
    /\ \A o \in called : ~Queued(o)
    /\ \A r \in Read : (Queued(r) \/ r \in called) => status[r] = "filled"
    /\ \A t \in Thread : inWrite[t] # None => ~Queued(inWrite[t])
                                              /\ inWrite[t] \notin called

(***************************************************************************)
(* Code that counts completions gets them all: a read that was filled, and *)
(* a write that is over, has its routine called or queued.  It is lost     *)
(* only with the thread that asked, or to a malloc() or DuplicateHandle()  *)
(* that failed for this very call: no other call's failure, thread or      *)
(* handle takes it away (finish_read, es3_jvs_post_read,                   *)
(* es3_jvs_complete_write).                                                *)
(***************************************************************************)
NoCompletionLost ==
    \A o \in Op \ Silent :
        LET over == IF o \in Read THEN status[o] = "filled"
                    ELSE owner[o] # None /\ inWrite[owner[o]] # o
        IN  over => \/ o \in called \/ Queued(o)
                    \/ owner[o] \notin alive \/ o \in failed

(***************************************************************************)
(* One stream: posted reads, reads that do not wait, timeouts and          *)
(* cancellations in any order hand the game the board's bytes once each    *)
(* and in the order the board produced them (out_take and its callers).    *)
(***************************************************************************)
BytesInOrder == taken \o out = accepted

\* How long a read of n bytes under the timeouts to is to wait: not at all
\* for the one setting that says so, the multiplier for each byte and the
\* constant in 32 bits otherwise, and the fallback when that leaves nothing.
OwnWait(to, n) ==
    LET total == (to.mult * n + to.const) % Modulus
    IN  CASE to = [interval |-> Modulus - 1, mult |-> 0, const |-> 0] -> 0
          [] to # [interval |-> Modulus - 1, mult |-> 0, const |-> 0]
             /\ total = 0 -> Fallback
          [] OTHER -> total

(***************************************************************************)
(* A read that ends with fewer bytes than it asked for has waited as long  *)
(* as the timeouts in force when it was posted give its own length,        *)
(* counted from its own post: nothing of a read it replaced, of a write or *)
(* of timeouts set meanwhile shortens or lengthens that                    *)
(* (read_deadline_for, es3_jvs_post_read).                                 *)
(***************************************************************************)
ShortAfterOwnWait ==
    [][\A r \in Read :
         /\ status[r] # "filled" /\ status'[r] = "filled"
         /\ Len(bytes'[r]) < read_len'
         => age' = OwnWait(terms', read_len')]_vars

(***************************************************************************)
(* "A read that nothing satisfies still ends": the game need not write for *)
(* a posted read to come back, which is the deadlock the ticker breaks.    *)
(***************************************************************************)
ReadEnds == \A r \in Read : status[r] = "posted" ~> status[r] # "posted"

=============================================================================
