---------------------------- MODULE ClassLoading ----------------------------
(***************************************************************************)
(* FindClass, DefineClass, LinkClass and EnsureResolved                    *)
(* (runtime/class_linker.cc): threads look up, define and wait for the     *)
(* same classes.                                                           *)
(*                                                                         *)
(* An instantiable class is defined as a temporary object, which linking   *)
(* retires and replaces by a copy of the right size; abstract classes and  *)
(* interfaces keep their object.  Threads synchronise through the status   *)
(* and the monitor of the class object, and through the class table.  The  *)
(* monitors are those of AbstractMonitor, with atomic operations.          *)
(*                                                                         *)
(* Classes come from the boot class path: FindClass with the boot class    *)
(* loader.  Not modelled are array classes, the classes of a boot image    *)
(* (which are resolved when the runtime starts), the class path of the     *)
(* compiler, and other class loaders, which end in DefineClass, or call    *)
(* Java code that does.                                                    *)
(***************************************************************************)
EXTENDS Integers, Sequences, FiniteSets

CONSTANTS
    Thread, Name, Null,
    Hierarchy,          \* sets of dex files: superclass and interfaces of each class, in order
    Interface, Abstract,
    Asked,              \* bound: the names the program asks for
    MayFail             \* what can fail: "load", "link", "initialize"

ASSUME HierarchyAssumption ==
    /\ \A h \in Hierarchy : h \in [Name -> Seq(Name)]
    /\ Interface \subseteq Name /\ Abstract \subseteq Name /\ Asked \subseteq Name
    /\ MayFail \subseteq {"load", "link", "initialize"}

kStatusRetired == -2
kStatusError == -1
kStatusNotReady == 0
kStatusIdx == 1
kStatusLoaded == 2
kStatusResolving == 3
kStatusResolved == 4

VARIABLES
    parents,            \* what the dex files say; never changes
    class_table,
    resolved_types,     \* the dex cache
    status,
    monitor,            \* owner, recursion count and wait set of the monitor of each class object
    frames,             \* calls each thread is in, innermost first
    found,              \* history: class objects FindClass has returned for each name
    aborted             \* a CHECK has failed

vars == <<parents, class_table, resolved_types, status, monitor, frames, found, aborted>>

\* A class object: which class, the thread that defined it (clinit_thread_id_), and whether it is
\* the copy that LinkClass makes.
Klass == [name : Name, clinit_thread_id : Thread, copy : BOOLEAN]

Free == [owner |-> Null, count |-> 0, waiting |-> {}]

Init ==
    /\ parents \in Hierarchy
    /\ class_table = [n \in Name |-> Null]
    /\ resolved_types = [n \in Name |-> Null]
    /\ status = [k \in Klass |-> kStatusNotReady]
    /\ monitor = [k \in Klass |-> Free]
    /\ frames = [t \in Thread |-> <<>>]
    /\ found = [n \in Name |-> {}]
    /\ aborted = FALSE

(***************************************************************************)
(* Class objects.                                                          *)
(***************************************************************************)
IsErroneous(k) == status[k] = kStatusError
IsRetired(k) == status[k] = kStatusRetired
IsResolved(k) == status[k] >= kStatusResolved
IsInstantiable(k) == k.name \notin Interface \cup Abstract
IsTemp(k, s) == s < kStatusResolving /\ IsInstantiable(k)

\* SetStatus wakes the waiters of a temporary class when it is retired or fails, those of any
\* other when it is, or was, resolved.
Notifies(k, s) ==
    IF IsTemp(k, s) THEN s \in {kStatusRetired, kStatusError}
    ELSE status[k] >= kStatusResolved \/ s >= kStatusResolved

NotifyAll(m) == [m EXCEPT !.waiting = {}]
MonitorEnter(m, t) == [m EXCEPT !.owner = t, !.count = @ + 1]
MonitorExit(m) == [m EXCEPT !.owner = IF m.count = 1 THEN Null ELSE @, !.count = @ - 1]
CanEnter(t, k) == monitor[k].owner \in {Null, t}

(***************************************************************************)
(* Calls.  The innermost frame of a thread holds the class name, the place *)
(* in the code, the class object at hand, the next parent to load and the  *)
(* recursion count a wait gives back.                                      *)
(***************************************************************************)
Call(n) == [name |-> n, pc |-> "FindClass", klass |-> Null, parent |-> 1, saved |-> 0]

Top(t) == frames[t][1]
At(t, pc) == frames[t] # <<>> /\ Top(t).pc = pc /\ ~aborted

SetTop(t, f) == frames' = [frames EXCEPT ![t][1] = f]
Goto(t, pc) == SetTop(t, [Top(t) EXCEPT !.pc = pc])

\* FindClass returns k; the caller, if it is DefineClass, takes it for a parent.
Return(t, k) ==
    /\ frames' = [frames EXCEPT ![t] =
           IF Len(@) = 1 THEN <<>>
           ELSE <<[@[2] EXCEPT !.pc = IF k = Null THEN "failed" ELSE "parent"]>> \o SubSeq(@, 3, Len(@))]
    /\ found' = [found EXCEPT ![Top(t).name] = IF k = Null THEN @ ELSE @ \cup {k}]
    /\ resolved_types' =
           IF Len(frames[t]) > 1 /\ k # Null THEN [resolved_types EXCEPT ![Top(t).name] = k]
           ELSE resolved_types

FindClass(t) ==
    /\ frames[t] = <<>> /\ ~aborted
    /\ \E n \in Asked : frames' = [frames EXCEPT ![t] = <<Call(n)>>]
    /\ UNCHANGED <<parents, class_table, resolved_types, status, monitor, found, aborted>>

LookupClass(t) ==
    /\ At(t, "FindClass")
    /\ LET k == class_table[Top(t).name] IN
        SetTop(t, [Top(t) EXCEPT !.klass = k, !.pc = IF k = Null THEN "DefineClass" ELSE "EnsureResolved"])
    /\ UNCHANGED <<parents, class_table, resolved_types, status, monitor, found, aborted>>

(***************************************************************************)
(* DefineClass.  From InsertClass to the end of the call the thread holds  *)
(* the monitor of the class object.                                        *)
(***************************************************************************)
DefineClassFails(t) ==
    /\ At(t, "DefineClass") /\ "load" \in MayFail
    /\ Return(t, Null)
    /\ UNCHANGED <<parents, class_table, status, monitor, aborted>>

\* Mutant: InsertClass does not look for an existing entry.
DefineClassAlways(t) ==
    /\ At(t, "DefineClass")
    /\ LET n == Top(t).name
           k == [name |-> n, clinit_thread_id |-> t, copy |-> FALSE]
       IN /\ class_table' = [class_table EXCEPT ![n] = k]
          /\ status' = [status EXCEPT ![k] = kStatusIdx]
          /\ monitor' = [monitor EXCEPT ![k] = MonitorEnter(@, t)]
          /\ SetTop(t, [Top(t) EXCEPT !.klass = k, !.pc = "LoadParents"])
    /\ UNCHANGED <<parents, resolved_types, found, aborted>>

DefineClass(t) ==
    /\ At(t, "DefineClass")
    /\ LET n == Top(t).name
           k == [name |-> n, clinit_thread_id |-> t, copy |-> FALSE]
           existing == class_table[n]
       IN IF existing # Null
          THEN /\ SetTop(t, [Top(t) EXCEPT !.klass = existing, !.pc = "EnsureResolved"])
               /\ UNCHANGED <<parents, class_table, status, monitor>>
          ELSE /\ class_table' = [class_table EXCEPT ![n] = k]
               /\ status' = [status EXCEPT ![k] = kStatusIdx]
               /\ monitor' = [monitor EXCEPT ![k] = MonitorEnter(@, t)]
               /\ SetTop(t, [Top(t) EXCEPT !.klass = k, !.pc = "LoadParents"])
    /\ UNCHANGED <<parents, resolved_types, found, aborted>>

\* LoadSuperAndInterfaces: ResolveType of the next parent asks the dex cache first.
LoadSuperAndInterfaces(t) ==
    /\ At(t, "LoadParents")
    /\ LET f == Top(t) IN
        IF f.parent > Len(parents[f.name])
        THEN /\ status' = [status EXCEPT ![f.klass] = kStatusLoaded]
             /\ Goto(t, "LinkClass")
        ELSE /\ IF resolved_types[parents[f.name][f.parent]] # Null
                THEN Goto(t, "parent")
                ELSE frames' = [frames EXCEPT ![t] = <<Call(parents[f.name][f.parent])>> \o @]
             /\ UNCHANGED status
    /\ UNCHANGED <<parents, class_table, resolved_types, monitor, found, aborted>>

\* The parent is at hand: a superclass has to be resolved (CHECK), and both must be accessible.
CheckParent(t) ==
    /\ At(t, "parent")
    /\ LET f == Top(t)
           p == parents[f.name][f.parent]
       IN IF p \notin Interface /\ ~IsResolved(resolved_types[p])
          THEN aborted' = TRUE /\ UNCHANGED frames
          ELSE /\ aborted' = FALSE
               /\ \/ SetTop(t, [f EXCEPT !.pc = "LoadParents", !.parent = @ + 1])
                  \/ "link" \in MayFail /\ Goto(t, "failed")
    /\ UNCHANGED <<parents, class_table, resolved_types, status, monitor, found>>

\* Mutant: a class that fails to load or to link keeps its status.
DefinitionFailedSilently(t) ==
    /\ At(t, "failed")
    /\ monitor' = [monitor EXCEPT ![Top(t).klass] = MonitorExit(@)]
    /\ Return(t, Null)
    /\ UNCHANGED <<parents, class_table, status, aborted>>

\* Loading or linking has failed: the class becomes erroneous, if it is not yet.
DefinitionFailed(t) ==
    /\ At(t, "failed")
    /\ LET k == Top(t).klass IN
        /\ status' = [status EXCEPT ![k] = kStatusError]
        /\ monitor' = [monitor EXCEPT ![k] =
               MonitorExit(IF ~IsErroneous(k) /\ Notifies(k, kStatusError) THEN NotifyAll(@) ELSE @)]
    /\ Return(t, Null)
    /\ UNCHANGED <<parents, class_table, aborted>>

LinkClassFails(t) ==
    /\ At(t, "LinkClass") /\ "link" \in MayFail
    /\ Goto(t, "failed")
    /\ UNCHANGED <<parents, class_table, resolved_types, status, monitor, found, aborted>>

\* A class that needs no copy is resolved; DefineClass returns it.
LinkClass(t) ==
    /\ At(t, "LinkClass") /\ ~IsTemp(Top(t).klass, status[Top(t).klass])
    /\ LET k == Top(t).klass IN
        /\ status' = [status EXCEPT ![k] = kStatusResolved]
        /\ monitor' = [monitor EXCEPT ![k] = MonitorExit(NotifyAll(@))]
        /\ Return(t, k)
    /\ UNCHANGED <<parents, class_table, aborted>>

Copy(k) == [k EXCEPT !.copy = TRUE]

\* CopyOf and UpdateClass: the copy replaces the temporary class in the table, locked.
LinkClassCopy(t) ==
    /\ At(t, "LinkClass") /\ IsTemp(Top(t).klass, status[Top(t).klass])
    /\ LET k == Top(t).klass IN
        /\ status' = [status EXCEPT ![Copy(k)] = kStatusResolving]
        /\ monitor' = [monitor EXCEPT ![Copy(k)] = MonitorEnter(@, t)]
        /\ class_table' = [class_table EXCEPT ![k.name] = Copy(k)]
    /\ Goto(t, "retire")
    /\ UNCHANGED <<parents, resolved_types, found, aborted>>

RetireClass(t) ==
    /\ At(t, "retire")
    /\ LET k == Top(t).klass IN
        /\ status' = [status EXCEPT ![k] = kStatusRetired]
        /\ monitor' = [monitor EXCEPT ![k] = NotifyAll(@)]
    /\ Goto(t, "resolve")
    /\ UNCHANGED <<parents, class_table, resolved_types, found, aborted>>

\* The copy is resolved and unlocked, then the temporary class is unlocked.
ResolveCopy(t) ==
    /\ At(t, "resolve")
    /\ LET k == Top(t).klass IN
        /\ status' = [status EXCEPT ![Copy(k)] = kStatusResolved]
        /\ monitor' = [monitor EXCEPT ![Copy(k)] = MonitorExit(NotifyAll(@)), ![k] = MonitorExit(@)]
        /\ Return(t, Copy(k))
    /\ UNCHANGED <<parents, class_table, aborted>>

(***************************************************************************)
(* EnsureResolved.                                                         *)
(***************************************************************************)

\* The thread gives up the monitor, however often it holds it, and sleeps.
Wait(t, k, pc) ==
    /\ monitor' = [monitor EXCEPT ![k] = [Free EXCEPT !.waiting = monitor[k].waiting \cup {t}]]
    /\ SetTop(t, [Top(t) EXCEPT !.pc = pc, !.saved = monitor[k].count])

\* A waiter, notified or woken by nothing, takes the monitor again, and makes its test again.
Wake(t) ==
    /\ \E loop \in {<<"retireWait", "retired?">>, <<"resolveWait", "unresolved">>} :
        At(t, loop[1]) /\ Goto(t, loop[2])
    /\ LET k == Top(t).klass IN
        /\ monitor[k].owner = Null
        /\ monitor' = [monitor EXCEPT ![k] = [owner |-> IF Top(t).saved = 0 THEN Null ELSE t,
                                              count |-> Top(t).saved,
                                              waiting |-> @.waiting \ {t}]]
    /\ UNCHANGED <<parents, class_table, resolved_types, status, found, aborted>>

EnsureResolved(t) ==
    /\ At(t, "EnsureResolved")
    /\ LET k == Top(t).klass IN
        IF ~IsTemp(k, status[k])
        THEN Goto(t, "resolved?") /\ UNCHANGED <<resolved_types, found>>
        ELSE IF IsErroneous(k) THEN Return(t, Null)
        ELSE Goto(t, "retired?") /\ UNCHANGED <<resolved_types, found>>
    /\ UNCHANGED <<parents, class_table, status, monitor, aborted>>

\* With the monitor of a temporary class: wait until it is retired, then look up its successor.
AwaitRetirement(t) ==
    /\ At(t, "retired?") /\ CanEnter(t, Top(t).klass)
    /\ LET k == Top(t).klass IN
        \/ /\ IsErroneous(k) /\ Return(t, Null) /\ UNCHANGED monitor
        \/ /\ IsRetired(k)
           /\ SetTop(t, [Top(t) EXCEPT !.klass = class_table[k.name], !.pc = "resolved?"])
           /\ UNCHANGED <<resolved_types, found, monitor>>
        \/ /\ ~IsErroneous(k) /\ ~IsRetired(k)
           /\ Wait(t, k, "retireWait") /\ UNCHANGED <<resolved_types, found>>
    /\ UNCHANGED <<parents, class_table, status, aborted>>

\* Without the monitor: is there anything to wait for?
TestResolved(t) ==
    /\ At(t, "resolved?")
    /\ LET k == Top(t).klass IN
        Goto(t, IF IsResolved(k) \/ IsErroneous(k) THEN "return" ELSE "unresolved")
    /\ UNCHANGED <<parents, class_table, resolved_types, status, monitor, found, aborted>>

\* With the monitor: a thread that meets a class it is itself defining has found a circularity.
AwaitResolution(t) ==
    /\ At(t, "unresolved") /\ CanEnter(t, Top(t).klass)
    /\ LET k == Top(t).klass IN
        IF ~IsResolved(k) /\ k.clinit_thread_id = t
        THEN /\ status' = [status EXCEPT ![k] = kStatusError]
             /\ monitor' = [monitor EXCEPT ![k] = IF Notifies(k, kStatusError) THEN NotifyAll(@) ELSE @]
             /\ Return(t, Null)
        ELSE /\ IF IsResolved(k) \/ IsErroneous(k) THEN Goto(t, "return") /\ UNCHANGED monitor
                ELSE Wait(t, k, "resolveWait")
             /\ UNCHANGED <<resolved_types, status, found>>
    /\ UNCHANGED <<parents, class_table, aborted>>

EnsureResolvedReturns(t) ==
    /\ At(t, "return")
    /\ LET k == Top(t).klass IN Return(t, IF IsErroneous(k) THEN Null ELSE k)
    /\ UNCHANGED <<parents, class_table, status, monitor, aborted>>

\* Verification or initialization of a resolved class fails.
InitializationFails(k) ==
    /\ "initialize" \in MayFail /\ ~aborted
    /\ IsResolved(k) /\ monitor[k].owner = Null
    /\ status' = [status EXCEPT ![k] = kStatusError]
    /\ monitor' = [monitor EXCEPT ![k] = NotifyAll(@)]
    /\ UNCHANGED <<parents, class_table, resolved_types, frames, found, aborted>>

Step(t) ==
    \/ LookupClass(t) \/ DefineClass(t) \/ DefineClassFails(t)
    \/ LoadSuperAndInterfaces(t) \/ CheckParent(t) \/ DefinitionFailed(t)
    \/ LinkClass(t) \/ LinkClassFails(t) \/ LinkClassCopy(t) \/ RetireClass(t) \/ ResolveCopy(t)
    \/ EnsureResolved(t) \/ AwaitRetirement(t) \/ TestResolved(t) \/ AwaitResolution(t)
    \/ EnsureResolvedReturns(t)

\* A step of a thread that is not blocked: a waiter has been woken by NotifyAll.
Run(t) == Step(t) \/ (Wake(t) /\ t \notin monitor[Top(t).klass].waiting)

Next ==
    \/ \E t \in Thread : FindClass(t) \/ Step(t) \/ Wake(t)
    \/ \E k \in Klass : InitializationFails(k)

\* Threads that can run are scheduled; nobody counts on spurious wake-ups.
Spec == Init /\ [][Next]_vars /\ \A t \in Thread : WF_vars(Run(t))

(***************************************************************************)
(* Properties.                                                             *)
(***************************************************************************)

\* However threads race to define a class, FindClass has only ever returned one class object for
\* its name, and it is the one in the class table: nobody keeps a temporary or a loser's class.
OneClassPerName ==
    \A n \in Name : found[n] \subseteq {class_table[n]}

Circular ==
    LET Up(S) == UNION {{parents[n][i] : i \in 1..Len(parents[n])} : n \in S}
        Ancestors[i \in 0..Cardinality(Name), n \in Name] ==
            IF i = 0 THEN Up({n}) ELSE Ancestors[i - 1, n] \cup Up(Ancestors[i - 1, n])
    IN \E n \in Name : n \in Ancestors[Cardinality(Name), n]

Returns(t) == frames[t] = <<>> \/ aborted

\* Thread t waits for u to define a class, at its monitor or notified by it.
WaitsFor(t, u) ==
    \/ (At(t, "retireWait") \/ At(t, "resolveWait")) /\ Top(t).klass.clinit_thread_id = u
    \/ (At(t, "retired?") \/ At(t, "unresolved")) /\ monitor[Top(t).klass].owner = u

WaitInARing == \E S \in SUBSET Thread : S # {} /\ \A t \in S : \E u \in S : WaitsFor(t, u)

\* Every FindClass returns, whatever fails to load or to link on the way: nobody waits for a class
\* that nobody is defining, and threads that define classes wait for each other, or for themselves,
\* only if some class is its own ancestor.
FindClassReturns ==
    \A t \in Thread : frames[t] # <<>> ~> Returns(t) \/ (WaitInARing /\ Circular)

\* EnsureResolved checks for circular dependencies between classes, so FindClass returns also when
\* there is one.
CircularityIsDetected == \A t \in Thread : frames[t] # <<>> ~> Returns(t)

\* The assertion of LoadSuperAndInterfaces: the superclass that ResolveType returns is resolved.
SuperClassIsResolved == ~aborted
=============================================================================
