------------------------------- MODULE Monitor -------------------------------
(***************************************************************************)
(* The lock of a Java object: the lock word, thin locks, monitors, their   *)
(* inflation and deflation, Object.wait and notify and the identity hash:  *)
(* runtime/monitor.cc, lock_word.h and Object::IdentityHashCode.           *)
(*                                                                         *)
(* One object.  Reads and writes of its lock word are steps of their own:  *)
(* only Runnable threads take them, and that a thread stays suspended, or  *)
(* the world stopped, is what the code relies on when it changes a thin    *)
(* lock it does not own.  Suspension is the one ThreadList implements: a   *)
(* thread is suspended at a safepoint and stays there until it is resumed. *)
(* A critical section of monitor_lock_ or of a thread's wait_mutex_ in     *)
(* which it does not block is one step.  A monitor that Install has not    *)
(* published is private to its creator and left out, as is lock profiling. *)
(***************************************************************************)
EXTENDS Integers, Sequences, FiniteSets

CONSTANTS
    Thread,             \* the threads
    NoThread,           \* stands for nullptr
    HashCode,           \* the identity hash codes that can be generated
    kThinLockMaxCount,  \* the largest recursion count of a thin lock
    MaxDepth,           \* bounds how often a thread enters
    Moving,             \* whether collections move objects
    Calls               \* the operations the threads call

\* What the module assumes of its constants.
MonitorAssumption ==
    /\ IsFiniteSet(Thread) /\ NoThread \notin Thread
    /\ HashCode \subseteq Nat \ {0}
    /\ kThinLockMaxCount \in Nat /\ MaxDepth \in Nat

VARIABLES
    lock_word,      \* the object's lock word
    owner_,         \* the monitor's fields, while the word is fat
    lock_count_,
    num_waiters_,
    hash_code_,     \* 0: none yet
    wait_set_,
    contenders,     \* the threads asleep on monitor_contenders_
    wait_monitor_,  \* the threads whose wait_monitor_ is set
    interrupted_,   \* the threads that are interrupted
    suspended,      \* who has suspended each thread
    pc,             \* where each thread is
    op,             \* the operation it is in
    word,           \* its copy of the lock word
    saved,          \* prev_lock_count of its wait
    bailing,        \* was_interrupted of its wait
    stale,          \* the threads whose call has an old address of the object
    hashes          \* the identity hash codes returned so far

monitorVars == <<owner_, lock_count_, num_waiters_, hash_code_, wait_set_, contenders>>
waitVars == <<wait_monitor_, interrupted_, saved, bailing>>
locals == <<op, word, stale>>
vars == <<lock_word, monitorVars, waitVars, suspended, pc, locals, hashes>>

Unlocked == [state |-> "kUnlocked"]
Thin(t, n) == [state |-> "kThinLocked", owner |-> t, count |-> n]
Hashed(h) == [state |-> "kHashCode", hash |-> h]
Fat == [state |-> "kFatLocked"]

LockWord ==
    {Unlocked, Fat} \cup {Thin(t, n) : t \in Thread, n \in 0..kThinLockMaxCount}
    \cup {Hashed(h) : h \in HashCode}

\* At these points a thread is in a safepoint or not Runnable: it can be
\* suspended, and the world can be stopped.
Safepoint == {"run", "suspend", "check", "blocked", "contend", "woken", "waiting", "notified", "leave"}

\* In Monitor::Wait after it has let go of the monitor.
WaitPC == {"waiting", "notified", "leave", "restore"}
LockPC == {"lock", "blocked", "contend", "woken"}
PC == Safepoint \cup LockPC \cup WaitPC \cup {"load", "act", "install", "resume", "return"}

TypeOK ==
    /\ lock_word \in LockWord
    /\ owner_ \in Thread \cup {NoThread}
    /\ lock_count_ \in Nat /\ num_waiters_ \in Nat
    /\ hash_code_ \in HashCode \cup {0}
    /\ wait_set_ \in Seq(Thread)
    /\ contenders \in SUBSET Thread
    /\ wait_monitor_ \in SUBSET Thread /\ interrupted_ \in SUBSET Thread /\ bailing \in SUBSET Thread
    /\ suspended \in [Thread -> SUBSET Thread]
    /\ pc \in [Thread -> PC]
    /\ op \in [Thread -> {"none", "enter", "exit", "wait", "notify", "notifyAll", "hash"}]
    /\ word \in [Thread -> LockWord]
    /\ saved \in [Thread -> Nat]
    /\ stale \in SUBSET Thread
    /\ hashes \in SUBSET HashCode

Init ==
    /\ lock_word = Unlocked
    /\ owner_ = NoThread /\ lock_count_ = 0 /\ num_waiters_ = 0 /\ hash_code_ = 0
    /\ wait_set_ = <<>> /\ contenders = {}
    /\ wait_monitor_ = {} /\ interrupted_ = {} /\ bailing = {}
    /\ suspended = [t \in Thread |-> {}]
    /\ pc = [t \in Thread |-> "run"]
    /\ op = [t \in Thread |-> "none"]
    /\ word = [t \in Thread |-> Unlocked]
    /\ saved = [t \in Thread |-> 0]
    /\ stale = {} /\ hashes = {}

Goto(t, from, to) == pc[t] = from /\ pc' = [pc EXCEPT ![t] = to]

\* A thread becomes Runnable only when nobody has suspended it.
MayRun(t) == suspended[t] = {}

\* The thread that owns the monitor, and how deep t is in it.
InWait(t) == pc[t] \in WaitPC \/ (op[t] = "wait" /\ pc[t] \in LockPC)
Depth(t) ==
    IF InWait(t) THEN saved[t] + 1
    ELSE IF lock_word.state = "kThinLocked" /\ lock_word.owner = t THEN lock_word.count + 1
    ELSE IF lock_word = Fat /\ owner_ = t THEN lock_count_ + 1
    ELSE 0

-----------------------------------------------------------------------------
\* An operation ends, its locals with it, or it starts over.
Leave(t) ==
    /\ op' = [op EXCEPT ![t] = "none"]
    /\ word' = [word EXCEPT ![t] = Unlocked]
    /\ stale' = stale \ {t}
Finish(t) == Goto(t, "act", "run") /\ Leave(t)
Again(t) == Goto(t, "act", "load") /\ UNCHANGED locals

Call(t, o) ==
    /\ MayRun(t)
    /\ o = "enter" => Depth(t) < MaxDepth
    /\ Goto(t, "run", "load")
    /\ op' = [op EXCEPT ![t] = o]
    /\ UNCHANGED <<lock_word, monitorVars, waitVars, suspended, word, stale, hashes>>

LoadWord(t) ==
    /\ Goto(t, "load", "act")
    /\ word' = [word EXCEPT ![t] = lock_word]
    /\ UNCHANGED <<lock_word, monitorVars, waitVars, suspended, op, stale, hashes>>

Acts(t, o, s) == pc[t] = "act" /\ op[t] = o /\ word[t].state = s
OwnsThin(t) == word[t].state = "kThinLocked" /\ word[t].owner = t

(***************************************************************************)
(* MonitorEnter and MonitorExit                                            *)
(***************************************************************************)
\* The compare-exchange may also fail spuriously.
EnterUnlocked(t) ==
    /\ Acts(t, "enter", "kUnlocked")
    /\ \/ lock_word = word[t] /\ lock_word' = Thin(t, 0) /\ Finish(t)
       \/ Again(t) /\ UNCHANGED lock_word
    /\ UNCHANGED <<monitorVars, waitVars, suspended, hashes>>

\* A plain store: nobody else may have changed the word.
EnterRecursive(t) ==
    /\ Acts(t, "enter", "kThinLocked") /\ OwnsThin(t)
    /\ word[t].count + 1 <= kThinLockMaxCount
    /\ lock_word' = Thin(t, word[t].count + 1)
    /\ Finish(t)
    /\ UNCHANGED <<monitorVars, waitVars, suspended, hashes>>

EnterFat(t) ==
    /\ Acts(t, "enter", "kFatLocked")
    /\ Goto(t, "act", "lock")
    /\ UNCHANGED <<lock_word, monitorVars, waitVars, suspended, locals, hashes>>

\* Spin, or go to kBlocked to suspend the owner (InflateThinLocked).
Contended(t) ==
    /\ Acts(t, "enter", "kThinLocked") \/ Acts(t, "hash", "kThinLocked")
    /\ ~OwnsThin(t)
    /\ \/ op[t] = "enter" /\ Again(t)
       \/ Goto(t, "act", "suspend") /\ UNCHANGED locals
    /\ UNCHANGED <<lock_word, monitorVars, waitVars, suspended, hashes>>

\* A thin lock of our own is inflated when its count is full, for wait and for
\* the hash code; a word with a hash code to be entered.
InflateOwn(t) ==
    /\ \/ Acts(t, "enter", "kThinLocked") /\ OwnsThin(t) /\ word[t].count = kThinLockMaxCount
       \/ Acts(t, "wait", "kThinLocked") /\ OwnsThin(t)
       \/ Acts(t, "hash", "kThinLocked") /\ OwnsThin(t)
       \/ Acts(t, "enter", "kHashCode")
    /\ Goto(t, "act", "install")
    /\ UNCHANGED <<lock_word, monitorVars, waitVars, suspended, locals, hashes>>

ExitThin(t) ==
    /\ Acts(t, "exit", "kThinLocked") /\ OwnsThin(t)
    /\ lock_word' = IF word[t].count # 0 THEN Thin(t, word[t].count - 1) ELSE Unlocked
    /\ Finish(t)
    /\ UNCHANGED <<monitorVars, waitVars, suspended, hashes>>

\* IllegalMonitorStateException; or notify of a thin lock, which has no waiters.
NothingToDo(t) ==
    /\ op[t] \in {"exit", "wait", "notify", "notifyAll"}
    /\ \/ word[t].state \in {"kUnlocked", "kHashCode"}
       \/ word[t].state = "kThinLocked" /\ (OwnsThin(t) => op[t] \in {"notify", "notifyAll"})
       \/ word[t] = Fat /\ owner_ # t
    /\ Finish(t)
    /\ UNCHANGED <<lock_word, monitorVars, waitVars, suspended, hashes>>

(***************************************************************************)
(* Inflation                                                               *)
(***************************************************************************)
\* Mutant of SuspendOwner: the owner is not waited for.
SuspendLater(t) ==
    /\ pc[t] = "suspend" /\ MayRun(t)
    /\ \/ /\ suspended' = [suspended EXCEPT ![word[t].owner] = @ \cup {t}]
          /\ Goto(t, "suspend", "check")
       \/ Goto(t, "suspend", "load") /\ UNCHANGED suspended
    /\ UNCHANGED <<lock_word, monitorVars, waitVars, locals, hashes>>

\* SuspendThreadByThreadId, which times out or finds the thread gone, or
\* returns it suspended.
SuspendOwner(t) ==
    /\ pc[t] = "suspend" /\ MayRun(t)
    /\ \/ /\ pc[word[t].owner] \in Safepoint
          /\ suspended' = [suspended EXCEPT ![word[t].owner] = @ \cup {t}]
          /\ Goto(t, "suspend", "check")
       \/ Goto(t, "suspend", "load") /\ UNCHANGED suspended
    /\ UNCHANGED <<lock_word, monitorVars, waitVars, locals, hashes>>

\* "check the lock's status didn't change".
CheckOwner(t) ==
    /\ pc[t] = "check" /\ MayRun(t)
    /\ IF lock_word.state = "kThinLocked" /\ lock_word.owner = word[t].owner
       THEN Goto(t, "check", "install")
       ELSE Goto(t, "check", "resume")
    /\ UNCHANGED <<lock_word, monitorVars, waitVars, suspended, locals, hashes>>

\* Inflate: the new monitor takes the owner it was created for, the count or
\* the hash code of the lock word, and is published by a compare-exchange,
\* which fails when the word is fat already, or spuriously.
Install(t) ==
    /\ Goto(t, "install", IF word[t].state = "kThinLocked" /\ ~OwnsThin(t) THEN "resume" ELSE "load")
    /\ \/ /\ lock_word.state \in {"kThinLocked", "kHashCode"}
          /\ lock_word' = Fat
          /\ owner_' = IF word[t].state = "kThinLocked" THEN word[t].owner ELSE NoThread
          /\ lock_count_' = IF lock_word.state = "kThinLocked" THEN lock_word.count ELSE 0
          /\ \/ op[t] = "hash" /\ hash_code_' \in HashCode
             \/ op[t] # "hash" /\ hash_code_' = IF word[t].state = "kHashCode" THEN word[t].hash ELSE 0
       \/ UNCHANGED <<lock_word, owner_, lock_count_, hash_code_>>
    /\ UNCHANGED <<num_waiters_, wait_set_, contenders, waitVars, suspended, locals, hashes>>

ResumeOwner(t) ==
    /\ Goto(t, "resume", "load")
    /\ suspended' = [suspended EXCEPT ![word[t].owner] = @ \ {t}]
    /\ UNCHANGED <<lock_word, monitorVars, waitVars, locals, hashes>>

(***************************************************************************)
(* Monitor::Lock and Unlock                                                *)
(***************************************************************************)
\* monitor_contenders_.Signal.
SignalContender ==
    \/ contenders = {} /\ UNCHANGED contenders
    \/ \E u \in contenders : contenders' = contenders \ {u}

\* The loop of Lock from where monitor_lock_ is taken: a thread that comes
\* back from being contended is no longer a waiter.
Lock(t) ==
    /\ pc[t] = "lock" \/ (pc[t] = "woken" /\ MayRun(t))
    /\ LET waiters == IF pc[t] = "woken" THEN num_waiters_ - 1 ELSE num_waiters_
       IN  IF owner_ \in {NoThread, t}
           THEN /\ owner_' = t
                /\ lock_count_' = IF owner_ = t THEN lock_count_ + 1 ELSE lock_count_
                /\ num_waiters_' = waiters
                /\ IF op[t] = "wait"
                   THEN pc' = [pc EXCEPT ![t] = "restore"] /\ UNCHANGED locals
                   ELSE pc' = [pc EXCEPT ![t] = "run"] /\ Leave(t)
           ELSE /\ num_waiters_' = waiters + 1
                /\ pc' = [pc EXCEPT ![t] = "blocked"]
                /\ UNCHANGED <<owner_, lock_count_, locals>>
    /\ UNCHANGED <<lock_word, hash_code_, wait_set_, contenders, waitVars, suspended, hashes>>

\* In kBlocked, under monitor_lock_ again: "Did the owner_ give the lock up?"
AwaitOwner(t) ==
    /\ IF owner_ # NoThread
       THEN Goto(t, "blocked", "contend") /\ contenders' = contenders \cup {t}
       ELSE Goto(t, "blocked", "woken") /\ UNCHANGED contenders
    /\ UNCHANGED <<lock_word, owner_, lock_count_, num_waiters_, hash_code_, wait_set_, waitVars,
                   suspended, locals, hashes>>

\* Signalled, or woken spuriously.
ContenderWakes(t) ==
    /\ Goto(t, "contend", "woken")
    /\ contenders' = contenders \ {t}
    /\ UNCHANGED <<lock_word, owner_, lock_count_, num_waiters_, hash_code_, wait_set_, waitVars,
                   suspended, locals, hashes>>

\* Mutant of Unlock: no contender is woken.
UnlockQuietly(t) ==
    /\ Acts(t, "exit", "kFatLocked") /\ owner_ = t
    /\ IF lock_count_ = 0
       THEN owner_' = NoThread /\ UNCHANGED lock_count_
       ELSE lock_count_' = lock_count_ - 1 /\ UNCHANGED owner_
    /\ Finish(t)
    /\ UNCHANGED <<lock_word, num_waiters_, hash_code_, wait_set_, contenders, waitVars, suspended, hashes>>

Unlock(t) ==
    /\ Acts(t, "exit", "kFatLocked") /\ owner_ = t
    /\ IF lock_count_ = 0
       THEN owner_' = NoThread /\ SignalContender /\ UNCHANGED lock_count_
       ELSE lock_count_' = lock_count_ - 1 /\ UNCHANGED <<owner_, contenders>>
    /\ Finish(t)
    /\ UNCHANGED <<lock_word, num_waiters_, hash_code_, wait_set_, waitVars, suspended, hashes>>

(***************************************************************************)
(* Wait, Notify and Interrupt                                              *)
(***************************************************************************)
\* All of Wait up to the sleep: wait_mutex_ is held from before monitor_lock_
\* is released.  Who is interrupted already does not sleep.
Wait(t) ==
    /\ Acts(t, "wait", "kFatLocked") /\ owner_ = t
    /\ wait_set_' = Append(wait_set_, t)
    /\ num_waiters_' = num_waiters_ + 1
    /\ saved' = [saved EXCEPT ![t] = lock_count_]
    /\ lock_count_' = 0
    /\ owner_' = NoThread
    /\ SignalContender
    /\ wait_monitor_' = wait_monitor_ \cup {t}
    /\ IF t \in interrupted_
       THEN Goto(t, "act", "leave") /\ bailing' = bailing \cup {t}
       ELSE Goto(t, "act", "waiting") /\ bailing' = bailing \ {t}
    /\ UNCHANGED <<lock_word, hash_code_, interrupted_, suspended, locals, hashes>>

\* A time-out or a spurious wake-up.
WaitEnds(t) ==
    /\ Goto(t, "waiting", "notified")
    /\ UNCHANGED <<lock_word, monitorVars, waitVars, suspended, locals, hashes>>

WaitWakes(t) ==
    /\ Goto(t, "notified", "leave")
    /\ bailing' = IF t \in interrupted_ THEN bailing \cup {t} ELSE bailing
    /\ interrupted_' = interrupted_ \ {t}
    /\ UNCHANGED <<lock_word, monitorVars, wait_monitor_, saved, suspended, locals, hashes>>

\* Runnable again, wait_monitor_ is reset and the monitor locked.
LeaveWait(t) ==
    /\ MayRun(t)
    /\ Goto(t, "leave", "lock")
    /\ wait_monitor_' = wait_monitor_ \ {t}
    /\ UNCHANGED <<lock_word, monitorVars, interrupted_, saved, bailing, suspended, locals, hashes>>

\* Mutant of Restore: the lock is taken back only once.
RestoreOnce(t) ==
    /\ Goto(t, "restore", "return")
    /\ owner_' = t
    /\ lock_count_' = 0
    /\ num_waiters_' = num_waiters_ - 1
    /\ wait_set_' = SelectSeq(wait_set_, LAMBDA u : u # t)
    /\ UNCHANGED <<lock_word, hash_code_, contenders, waitVars, suspended, locals, hashes>>

Restore(t) ==
    /\ Goto(t, "restore", "return")
    /\ owner_' = t
    /\ lock_count_' = saved[t]
    /\ num_waiters_' = num_waiters_ - 1
    /\ wait_set_' = SelectSeq(wait_set_, LAMBDA u : u # t)
    /\ UNCHANGED <<lock_word, hash_code_, contenders, waitVars, suspended, locals, hashes>>

\* InterruptedException is thrown, which clears the interrupt.
WaitReturns(t) ==
    /\ Goto(t, "return", "run")
    /\ Leave(t)
    /\ saved' = [saved EXCEPT ![t] = 0]
    /\ bailing' = bailing \ {t}
    /\ interrupted_' = IF t \in bailing THEN interrupted_ \ {t} ELSE interrupted_
    /\ UNCHANGED <<lock_word, monitorVars, wait_monitor_, suspended, hashes>>

\* wait_cond_->Signal of the threads in S, by a thread t that ends its call.
SignalWaiters(t, S) ==
    /\ pc[t] = "act"
    /\ pc' = [u \in Thread |-> IF u = t THEN "run"
                               ELSE IF u \in S /\ pc[u] = "waiting" THEN "notified" ELSE pc[u]]
    /\ Leave(t)

\* The first in the wait set whose wait_monitor_ is set gets the signal; those
\* before it are dropped.
Notify(t) ==
    /\ Acts(t, "notify", "kFatLocked") /\ owner_ = t
    /\ LET still == {i \in DOMAIN wait_set_ : wait_set_[i] \in wait_monitor_}
       IN  \/ still = {} /\ wait_set_' = <<>> /\ SignalWaiters(t, {})
           \/ \E i \in still :
                 /\ \A j \in still : i <= j
                 /\ wait_set_' = SubSeq(wait_set_, i + 1, Len(wait_set_))
                 /\ SignalWaiters(t, {wait_set_[i]})
    /\ UNCHANGED <<lock_word, owner_, lock_count_, num_waiters_, hash_code_, contenders, waitVars,
                   suspended, hashes>>

NotifyAll(t) ==
    /\ Acts(t, "notifyAll", "kFatLocked") /\ owner_ = t
    /\ wait_set_' = <<>>
    /\ SignalWaiters(t, {wait_set_[i] : i \in DOMAIN wait_set_} \cap wait_monitor_)
    /\ UNCHANGED <<lock_word, owner_, lock_count_, num_waiters_, hash_code_, contenders, waitVars,
                   suspended, hashes>>

\* Thread::Interrupt of t by any thread.
Interrupt(t) ==
    /\ t \notin interrupted_
    /\ interrupted_' = interrupted_ \cup {t}
    /\ pc' = IF t \in wait_monitor_ /\ pc[t] = "waiting" THEN [pc EXCEPT ![t] = "notified"] ELSE pc
    /\ UNCHANGED <<lock_word, monitorVars, wait_monitor_, saved, bailing, suspended, locals, hashes>>

\* Thread::Interrupted.
Interrupted(t) ==
    /\ pc[t] = "run" /\ MayRun(t)
    /\ interrupted_' = interrupted_ \ {t}
    /\ UNCHANGED <<lock_word, monitorVars, wait_monitor_, saved, bailing, suspended, pc, locals, hashes>>

(***************************************************************************)
(* IdentityHashCode and Deflate                                            *)
(***************************************************************************)
\* The compare-exchange is on this, not on current_this: when the object has
\* moved since the call, it is on whatever is now at the old address.
HashUnlocked(t) ==
    /\ Acts(t, "hash", "kUnlocked")
    /\ \/ \E h \in HashCode :
             /\ IF t \in stale THEN UNCHANGED lock_word
                               ELSE lock_word = word[t] /\ lock_word' = Hashed(h)
             /\ hashes' = hashes \cup {h}
             /\ Finish(t)
       \/ Again(t) /\ UNCHANGED <<lock_word, hashes>>
    /\ UNCHANGED <<monitorVars, waitVars, suspended>>

HashOfWord(t) ==
    /\ Acts(t, "hash", "kHashCode")
    /\ hashes' = hashes \cup {word[t].hash}
    /\ Finish(t)
    /\ UNCHANGED <<lock_word, monitorVars, waitVars, suspended>>

\* Monitor::GetHashCode.
HashOfMonitor(t) ==
    /\ Acts(t, "hash", "kFatLocked")
    /\ hash_code_' \in IF hash_code_ = 0 THEN HashCode ELSE {hash_code_}
    /\ hashes' = hashes \cup {hash_code_'}
    /\ Finish(t)
    /\ UNCHANGED <<lock_word, owner_, lock_count_, num_waiters_, wait_set_, contenders, waitVars,
                   suspended>>

\* A moving collection, with the world stopped: references in handles follow
\* the object, and this in IdentityHashCode does not.
MoveObject ==
    /\ Moving
    /\ \A t \in Thread : pc[t] \in Safepoint
    /\ stale' = stale \cup {t \in Thread : op[t] = "hash"}
    /\ UNCHANGED <<lock_word, monitorVars, waitVars, suspended, pc, op, word, hashes>>

\* With the world stopped.  The monitor goes back to the pool.
Deflate ==
    /\ \A t \in Thread : pc[t] \in Safepoint
    /\ lock_word = Fat /\ num_waiters_ = 0
    /\ owner_ # NoThread => hash_code_ = 0 /\ lock_count_ <= kThinLockMaxCount
    /\ lock_word' = IF owner_ # NoThread THEN Thin(owner_, lock_count_)
                    ELSE IF hash_code_ # 0 THEN Hashed(hash_code_) ELSE Unlocked
    /\ owner_' = NoThread /\ lock_count_' = 0 /\ hash_code_' = 0
    /\ UNCHANGED <<num_waiters_, wait_set_, contenders, waitVars, suspended, pc, locals, hashes>>

-----------------------------------------------------------------------------
WordStep(t) ==
    \/ LoadWord(t) \/ EnterUnlocked(t) \/ EnterRecursive(t) \/ EnterFat(t) \/ Contended(t)
    \/ InflateOwn(t) \/ ExitThin(t) \/ NothingToDo(t)
InflateStep(t) == SuspendOwner(t) \/ CheckOwner(t) \/ Install(t) \/ ResumeOwner(t)
LockStep(t) == Lock(t) \/ AwaitOwner(t) \/ ContenderWakes(t) \/ Unlock(t)
WaitStep(t) ==
    \/ Wait(t) \/ WaitEnds(t) \/ WaitWakes(t) \/ LeaveWait(t) \/ Restore(t) \/ WaitReturns(t)
    \/ Notify(t) \/ NotifyAll(t)
HashStep(t) == HashUnlocked(t) \/ HashOfWord(t) \/ HashOfMonitor(t)

Next ==
    \/ \E t \in Thread :
          \/ \E o \in Calls \ {"interrupt"} : Call(t, o)
          \/ WordStep(t) \/ InflateStep(t) \/ LockStep(t) \/ WaitStep(t) \/ HashStep(t)
          \/ "interrupt" \in Calls /\ (Interrupt(t) \/ Interrupted(t))
    \/ Deflate
    \/ MoveObject

Spec == Init /\ [][Next]_vars
-----------------------------------------------------------------------------
\* The lock of an object is a monitor for its clients, whether it is thin, fat
\* or changing from one to the other under them: it has one owner, which left
\* it as often as it entered it, and a wait gives it up and restores it.
AM == INSTANCE AbstractMonitor WITH
          depth <- [t \in Thread |-> Depth(t)],
          waiting <- {t \in Thread : InWait(t)}
ImplementsMonitor == AM!Spec

\* A thread that uses a monitor uses the one in the lock word: it is not
\* deflated and returned to the pool under a thread that blocks in Lock, waits,
\* or has just read its address.  And Install finds the lock word as it was
\* when the monitor was created, or fat (its CHECKs and LOG(FATAL)s).
NoStaleMonitor ==
    \A t \in Thread :
        /\ pc[t] \in LockPC \cup WaitPC \/ (pc[t] = "act" /\ word[t] = Fat) => lock_word = Fat
        /\ pc[t] = "install" /\ lock_word # Fat =>
               /\ lock_word.state = word[t].state
               /\ lock_word.state = "kThinLocked" => lock_word.owner = word[t].owner
               /\ lock_word.state = "kHashCode" => lock_word.hash = word[t].hash

\* Whoever asks gets the same identity hash code, through inflation, deflation
\* and threads that generate one at the same time.
HashStable == Cardinality(hashes) <= 1

\* A thread asleep on monitor_contenders_ while nobody owns the monitor has
\* another one awake that will take it: Unlock and Wait signal only one.
ContenderNotLost ==
    owner_ = NoThread /\ contenders # {} =>
        \E t \in Thread : pc[t] \in {"blocked", "woken"} \/ (pc[t] = "contend" /\ t \notin contenders)

\* "Once a lock has been inflated it remains in the fat state indefinitely"
\* (monitor.cc:51): not since Deflate.
FatForever == [][lock_word = Fat => lock_word' = Fat]_vars

\* Notify signals "the first waiting thread", after it has made sure that it is
\* "still waiting" (monitor.cc:579-585): when somebody sleeps in the wait set,
\* one who sleeps is woken.  But a waiter whose time is up, or who has been
\* interrupted, has its wait_monitor_ set until it is Runnable again.
NotifyWakesWaiter ==
    [][\A t \in Thread :
          Notify(t) /\ (\E i \in DOMAIN wait_set_ : pc[wait_set_[i]] = "waiting") =>
              \E u \in Thread : pc[u] = "waiting" /\ pc'[u] = "notified"]_vars
=============================================================================
