------------------------------ MODULE ClassInit ------------------------------
(***************************************************************************)
(* Verification and initialization of resolved classes                     *)
(* (runtime/class_linker.cc: EnsureInitialized, InitializeClass,           *)
(* VerifyClass, WaitForInitializeClass), at run time.                      *)
(*                                                                         *)
(* Threads synchronise through the status and the monitor of the class;    *)
(* <clinit> runs without the monitor, while the status says that the class *)
(* is being initialized and by whom.  A <clinit> initializes the classes   *)
(* it uses, one after the other, and may throw.                            *)
(***************************************************************************)
EXTENDS Naturals, Sequences

CONSTANTS
    Thread, Class, Null,
    Super,              \* superclass of each class, or Null
    Uses,               \* classes whose initialization the <clinit> of each class causes, in order
    MayFail             \* what can fail: "verify", "validate", "clinit"

\* What the module assumes of its constants.
ClassAssumption ==
    /\ Super \in [Class -> Class \cup {Null}] /\ Uses \in [Class -> Seq(Class)]
    /\ MayFail \subseteq {"verify", "validate", "clinit"}

VARIABLES
    status, clinit_thread_id,
    monitor,            \* owner and recursion count of the monitor of each class
    waiting,            \* threads that wait on each class and have not been notified
    frames,             \* calls each thread is in, innermost first
    ran,                \* history: how often the <clinit> of each class was entered
    aborted             \* a CHECK has failed

vars == <<status, clinit_thread_id, monitor, waiting, frames, ran, aborted>>

\* Erroneous classes aside, statuses are ordered.
IsVerified(c) == status[c] \in {"Verified", "Initializing", "Initialized"}
IsErroneous(c) == status[c] = "Error"
IsInitialized(c) == status[c] = "Initialized"

Init ==
    /\ status = [c \in Class |-> "Resolved"]
    /\ clinit_thread_id = [c \in Class |-> Null]
    /\ monitor = [c \in Class |-> [owner |-> Null, count |-> 0]]
    /\ waiting = [c \in Class |-> {}]
    /\ frames = [t \in Thread |-> <<>>]
    /\ ran = [c \in Class |-> 0]
    /\ aborted = FALSE

(***************************************************************************)
(* Monitors and calls.                                                     *)
(***************************************************************************)
CanEnter(t, c) == monitor[c].owner \in {Null, t}
Enter(m, t) == [owner |-> t, count |-> m.count + 1]
Exit(m) == [owner |-> IF m.count = 1 THEN Null ELSE m.owner, count |-> m.count - 1]

\* SetStatus of a class that is resolved notifies all who wait on it.
SetStatus(c, s) ==
    /\ status' = [status EXCEPT ![c] = s]
    /\ waiting' = [waiting EXCEPT ![c] = {}]

\* A call of InitializeClass or VerifyClass for c, with the number of the next class <clinit> uses.
Call(pc, c) == [pc |-> pc, class |-> c, next |-> 1, ok |-> TRUE]

Top(t) == frames[t][1]
At(t, pc) == frames[t] # <<>> /\ Top(t).pc = pc /\ ~aborted
Goto(t, pc) == frames' = [frames EXCEPT ![t][1].pc = pc]
Push(t, f, pc) == frames' = [frames EXCEPT ![t] = <<f, [Top(t) EXCEPT !.pc = pc]>> \o Tail(@)]

\* The innermost call returns ok to its caller.
Return(t, ok) ==
    frames' = [frames EXCEPT ![t] =
        IF Len(@) = 1 THEN <<>> ELSE <<[@[2] EXCEPT !.ok = ok]>> \o SubSeq(@, 3, Len(@))]

EnsureInitialized(t) ==
    /\ frames[t] = <<>> /\ ~aborted
    /\ \E c \in Class : frames' = [frames EXCEPT ![t] = <<Call("InitializeClass", c)>>]
    /\ UNCHANGED <<status, clinit_thread_id, monitor, waiting, ran, aborted>>

(***************************************************************************)
(* VerifyClass.  The caller holds the monitor of the class; the monitor of *)
(* the superclass is taken on top of it.                                   *)
(***************************************************************************)
VerifyClass(t) ==
    /\ At(t, "VerifyClass") /\ CanEnter(t, Top(t).class)
    /\ LET c == Top(t).class IN
        IF IsVerified(c) \/ IsErroneous(c)
        THEN Return(t, TRUE) /\ UNCHANGED <<status, waiting, monitor>>
        ELSE /\ SetStatus(c, "Verifying")
             /\ monitor' = [monitor EXCEPT ![c] = Enter(@, t)]
             /\ Goto(t, IF Super[c] = Null THEN "verifyMethods" ELSE "verifySuper")
    /\ UNCHANGED <<clinit_thread_id, ran, aborted>>

VerifySuper(t) ==
    /\ At(t, "verifySuper")
    /\ LET s == Super[Top(t).class] IN
        /\ CanEnter(t, s)
        /\ monitor' = [monitor EXCEPT ![s] = Enter(@, t)]
        /\ IF IsVerified(s) \/ IsErroneous(s) THEN Goto(t, "superVerified")
                                              ELSE Push(t, Call("VerifyClass", s), "superVerified")
    /\ UNCHANGED <<status, clinit_thread_id, waiting, ran, aborted>>

\* A class is rejected with its superclass; the monitor of the latter is released.
SuperVerified(t) ==
    /\ At(t, "superVerified")
    /\ LET c == Top(t).class
           s == Super[c]
       IN IF IsVerified(s)
          THEN /\ monitor' = [monitor EXCEPT ![s] = Exit(@)]
               /\ Goto(t, "verifyMethods")
               /\ UNCHANGED <<status, waiting>>
          ELSE /\ SetStatus(c, "Error")
               /\ monitor' = [monitor EXCEPT ![s] = Exit(@), ![c] = Exit(@)]
               /\ Return(t, TRUE)
    /\ UNCHANGED <<clinit_thread_id, ran, aborted>>

\* The verifier, or the oat file, accepts the class, accepts it softly, or rejects it.
VerifyMethods(t) ==
    /\ At(t, "verifyMethods")
    /\ LET c == Top(t).class IN
        \/ /\ Super[c] # Null => IsVerified(Super[c])
           /\ SetStatus(c, "Verified")
           /\ monitor' = [monitor EXCEPT ![c] = Exit(@)] /\ Return(t, TRUE) /\ UNCHANGED aborted
        \/ /\ ~(Super[c] # Null => IsVerified(Super[c]))    \* CHECK_EQ(super->GetStatus(), ...)
           /\ aborted' = TRUE /\ UNCHANGED <<status, waiting, monitor, frames>>
        \/ /\ "verify" \in MayFail
           /\ \E s \in {"Verified", "Error"} : SetStatus(c, s)
           /\ monitor' = [monitor EXCEPT ![c] = Exit(@)] /\ Return(t, TRUE) /\ UNCHANGED aborted
    /\ UNCHANGED <<clinit_thread_id, ran>>

(***************************************************************************)
(* InitializeClass.                                                        *)
(***************************************************************************)
InitializeClass(t) ==
    /\ At(t, "InitializeClass")
    /\ IF IsInitialized(Top(t).class) THEN Return(t, TRUE) ELSE Goto(t, "lock")
    /\ UNCHANGED <<status, clinit_thread_id, monitor, waiting, ran, aborted>>

\* With the monitor: the tests again, then verification.
LockClass(t) ==
    /\ At(t, "lock") /\ CanEnter(t, Top(t).class)
    /\ LET c == Top(t).class IN
        IF IsInitialized(c) \/ IsErroneous(c)
        THEN Return(t, IsInitialized(c)) /\ UNCHANGED monitor
        ELSE /\ monitor' = [monitor EXCEPT ![c] = Enter(@, t)]
             /\ IF IsVerified(c) THEN Goto(t, "verified") ELSE Push(t, Call("VerifyClass", c), "verified")
    /\ UNCHANGED <<status, clinit_thread_id, waiting, ran, aborted>>

\* The thread gives up the monitor and sleeps; nobody waits with the monitor held twice.
WaitForInitializeClass(t, c) ==
    /\ monitor' = [monitor EXCEPT ![c] = Exit(@)]
    /\ waiting' = [waiting EXCEPT ![c] = @ \cup {t}]
    /\ Goto(t, "wait")

BeginInitializing(t) ==
    /\ At(t, "verified")
    /\ LET c == Top(t).class IN
        \/ /\ IsErroneous(c) \/ (status[c] = "Initializing" /\ clinit_thread_id[c] = t)
           /\ monitor' = [monitor EXCEPT ![c] = Exit(@)]
           /\ Return(t, ~IsErroneous(c))
           /\ UNCHANGED <<status, clinit_thread_id, waiting>>
        \/ /\ status[c] = "Initializing" /\ clinit_thread_id[c] # t
           /\ WaitForInitializeClass(t, c)
           /\ UNCHANGED <<status, clinit_thread_id>>
        \/ /\ status[c] = "Verified" /\ "validate" \in MayFail
           /\ SetStatus(c, "Error")
           /\ monitor' = [monitor EXCEPT ![c] = Exit(@)]
           /\ Return(t, FALSE)
           /\ UNCHANGED clinit_thread_id
        \/ /\ status[c] = "Verified"
           /\ SetStatus(c, "Initializing")
           /\ clinit_thread_id' = [clinit_thread_id EXCEPT ![c] = t]
           /\ monitor' = [monitor EXCEPT ![c] = Exit(@)]
           /\ Goto(t, "super")
    /\ UNCHANGED <<ran, aborted>>

\* A waiter, notified or woken by nothing, takes the monitor again.
WakeUp(t) ==
    /\ At(t, "wait") /\ monitor[Top(t).class].owner = Null
    /\ LET c == Top(t).class IN
        IF status[c] = "Initializing"
        THEN waiting' = [waiting EXCEPT ![c] = @ \cup {t}] /\ UNCHANGED frames
        ELSE waiting' = [waiting EXCEPT ![c] = @ \ {t}] /\ Return(t, IsInitialized(c))
    /\ UNCHANGED <<status, clinit_thread_id, monitor, ran, aborted>>

EnterClinit(t) ==
    /\ ran' = [ran EXCEPT ![Top(t).class] = @ + 1]
    /\ Goto(t, "clinit")

\* Mutant: a superclass that another thread is initializing is as good as initialized.
InitializeSuperNoWait(t) ==
    /\ At(t, "super")
    /\ IF Super[Top(t).class] = Null THEN EnterClinit(t)
       ELSE IF status[Super[Top(t).class]] \in {"Initializing", "Initialized"} THEN EnterClinit(t)
       ELSE Push(t, Call("InitializeClass", Super[Top(t).class]), "superInitialized") /\ UNCHANGED ran
    /\ UNCHANGED <<status, clinit_thread_id, monitor, waiting, aborted>>

InitializeSuper(t) ==
    /\ At(t, "super")
    /\ IF Super[Top(t).class] = Null THEN EnterClinit(t)
       ELSE IF IsInitialized(Super[Top(t).class]) THEN EnterClinit(t)
       ELSE Push(t, Call("InitializeClass", Super[Top(t).class]), "superInitialized") /\ UNCHANGED ran
    /\ UNCHANGED <<status, clinit_thread_id, monitor, waiting, aborted>>

\* A class is erroneous with its superclass.
SuperInitialized(t) ==
    /\ At(t, "superInitialized")
    /\ IF Top(t).ok
       THEN EnterClinit(t) /\ UNCHANGED <<status, waiting, aborted>>
       ELSE IF ~IsErroneous(Super[Top(t).class])
       THEN aborted' = TRUE /\ UNCHANGED <<status, waiting, frames, ran>>
       ELSE /\ CanEnter(t, Top(t).class)
            /\ SetStatus(Top(t).class, "Error")
            /\ Return(t, FALSE)
            /\ UNCHANGED <<ran, aborted>>
    /\ UNCHANGED <<clinit_thread_id, monitor>>

\* <clinit> causes the initialization of the next class it uses; a failure is an exception.
Clinit(t) ==
    /\ At(t, "clinit") /\ Top(t).ok /\ Top(t).next <= Len(Uses[Top(t).class])
    /\ frames' = [frames EXCEPT ![t] =
           <<Call("InitializeClass", Uses[Top(t).class][Top(t).next]),
             [Top(t) EXCEPT !.next = @ + 1]>> \o Tail(@)]
    /\ UNCHANGED <<status, clinit_thread_id, monitor, waiting, ran, aborted>>

\* Mutant: the outcome is recorded without a notification.
EndInitializingSilently(t) ==
    /\ At(t, "clinit") /\ CanEnter(t, Top(t).class)
    /\ LET c == Top(t).class
           Throws == ~Top(t).ok
       IN \/ /\ ~Throws /\ Top(t).next > Len(Uses[c])
             /\ status' = [status EXCEPT ![c] = "Initialized"] /\ UNCHANGED waiting /\ Return(t, TRUE)
          \/ /\ Throws \/ "clinit" \in MayFail
             /\ status' = [status EXCEPT ![c] = "Error"] /\ UNCHANGED waiting /\ Return(t, FALSE)
    /\ UNCHANGED <<clinit_thread_id, monitor, ran, aborted>>

EndInitializing(t) ==
    /\ At(t, "clinit") /\ CanEnter(t, Top(t).class)
    /\ LET c == Top(t).class
           Throws == ~Top(t).ok
       IN \/ /\ ~Throws /\ Top(t).next > Len(Uses[c])
             /\ SetStatus(c, "Initialized") /\ Return(t, TRUE)
          \/ /\ Throws \/ "clinit" \in MayFail
             /\ SetStatus(c, "Error") /\ Return(t, FALSE)
    /\ UNCHANGED <<clinit_thread_id, monitor, ran, aborted>>

Step(t) ==
    \/ VerifyClass(t) \/ VerifySuper(t) \/ SuperVerified(t) \/ VerifyMethods(t)
    \/ InitializeClass(t) \/ LockClass(t) \/ BeginInitializing(t)
    \/ InitializeSuper(t) \/ SuperInitialized(t) \/ Clinit(t) \/ EndInitializing(t)

\* A step of a thread that is not blocked: a waiter has been notified.
Run(t) == Step(t) \/ (At(t, "wait") /\ t \notin waiting[Top(t).class] /\ WakeUp(t))

Next == \E t \in Thread : EnsureInitialized(t) \/ Step(t) \/ WakeUp(t)

Spec == Init /\ [][Next]_vars

\* A thread that can run does; nothing is assumed of spurious wake-ups.
FairSpec == Spec /\ \A t \in Thread : WF_vars(Run(t))

(***************************************************************************)
(* Properties.                                                             *)
(***************************************************************************)
\* What InitializeClass promises thread t when it returns true.
Usable(t, c) ==
    IsInitialized(c) \/ (status[c] = "Initializing" /\ clinit_thread_id[c] = t)

\* The <clinit> of a class runs once, in the thread that is recorded, and while it runs its
\* superclass and each class it has asked for are initialized, or are being initialized by this very
\* thread: the protocol of InitializeClass hands no other class out half initialized.
InitializedBeforeUse ==
    /\ \A c \in Class : ran[c] <= 1
    /\ \A t \in Thread : \A i \in 1..Len(frames[t]) :
        LET f == frames[t][i] IN
        (f.pc = "clinit" /\ (i = 1 => f.ok)) =>
            /\ status[f.class] = "Initializing" /\ clinit_thread_id[f.class] = t
            /\ Super[f.class] # Null => Usable(t, Super[f.class])
            /\ \A j \in 1..(f.next - (IF i = 1 THEN 1 ELSE 2)) : Usable(t, Uses[f.class][j])

WaitsFor(t, u) ==
    /\ At(t, "wait") /\ status[Top(t).class] = "Initializing"
    /\ clinit_thread_id[Top(t).class] = u

\* Threads that each run a <clinit> and wait for another of them, as Java has it for initializers
\* that use each other's classes.
WaitInARing ==
    \E S \in SUBSET Thread : S # {} /\ \A t \in S : \E u \in S \ {t} : WaitsFor(t, u)

\* Every call of EnsureInitialized returns, unless initializers that use each other's classes wait
\* in a ring: the threads do not block each other on the monitors of a class and its superclass,
\* wait for what they do themselves, or sleep through the end of the initialization
\* (WaitForInitializeClass, SetStatus).
EnsureInitializedReturns ==
    \A t \in Thread : frames[t] # <<>> ~> frames[t] = <<>> \/ aborted \/ WaitInARing

\* VerifyClass takes the superclass, once it has found it verified, to stay so, or to need another
\* verification: the CHECK_EQ after the verifier has run holds.
SuperStaysVerified == ~aborted
=============================================================================
