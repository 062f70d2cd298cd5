--------------------------- MODULE RegistryProofs ---------------------------
(***************************************************************************)
(* Theorems about Registry, for any number of connections, places and      *)
(* SIGHUPs: what the semaphore says, and for whom terminate() waits.       *)
(***************************************************************************)
EXTENDS Registry, FiniteSetTheorems, TLAPS

-----------------------------------------------------------------------------
\* What the variables hold.

Waiting == {"regwait", "regback"}
Serving == {"read", "write", "unreg"}
Idle == {"none", "start", "done"}

\* The threads of the clients that are counted.
Served == {t \in Thread : tpc[t] \in Serving}

\* A client has a place from creg_register to creg_unregister.
Placed == registered = {t \in Thread : tpc[t] \in Waiting \cup Serving}

\* The mutex is held by the thread inside a critical section, if there is one.
Locked == \A t \in Thread : tpc[t] \in Waiting \cup {"unlock"} <=> holder = t

\* len counts; and it is zero while somebody waits for the semaphore.
Counted == len = Cardinality(Served)
WaitAtZero == \A t \in Thread : tpc[t] \in Waiting => len = 0

Control == Placed /\ Locked /\ Counted /\ WaitAtZero

\* The semaphore; and who left it for an interrupt.
SemRight == ~early => sem + One(mpc = "repost") = One(len = 0)
Interrupted == \A t \in Thread : tpc[t] = "regback" => early

\* A connection without a thread, and the memory of the registry.
NewThread == newfd \in Thread => tpc[newfd] = "none"
FreedLast == freed <=> mpc \in {"exit", "exited"}

\* Who waits for the semaphore together with the main thread came late; and
\* who is registered after the wait did.
LateWait == mpc = "wait" => \A t \in Thread : tpc[t] \in Waiting => t \in late
OnlyLate == mpc \in {"repost", "fini", "exit", "exited"} /\ ~early
              => registered \subseteq late

Ending == SemRight /\ Interrupted /\ NewThread /\ FreedLast /\ LateWait /\ OnlyLate

Inv == TypeOK /\ Control /\ Ending

-----------------------------------------------------------------------------
\* Counting.

LEMMA ServedFinite ==
    /\ IsFiniteSet(Served) /\ Cardinality(Served) \in Nat
    /\ (Cardinality(Served) = 0 <=> Served = {})
<1>1. IsFiniteSet(Served)
  BY FS_Subset, ThreadAssumption DEF Served
<1> QED
  BY <1>1, FS_CardinalityType, FS_EmptySet

\* A thread that becomes one of the served, or is no longer.
LEMMA ServedMore ==
    ASSUME NEW t \in Thread, t \notin Served, Served' = Served \cup {t}
    PROVE  Cardinality(Served') = Cardinality(Served) + 1
BY ServedFinite, FS_AddElement

LEMMA ServedLess ==
    ASSUME NEW t \in Served, Served' = Served \ {t}
    PROVE  Cardinality(Served') = Cardinality(Served) - 1
BY ServedFinite, FS_RemoveElement

LEMMA LenPositive ==
    ASSUME Counted, NEW t \in Served
    PROVE  len \in Nat /\ len >= 1
BY ServedFinite DEF Counted

-----------------------------------------------------------------------------
\* Steps that leave the places alone.

LEMMA MovedOne ==
    ASSUME TypeOK, NEW t \in Thread, NEW p, tpc' = [tpc EXCEPT ![t] = p]
    PROVE  \A u \in Thread : tpc'[u] = IF u = t THEN p ELSE tpc[u]
BY DEF TypeOK

LEMMA ControlKept ==
    ASSUME Control, UNCHANGED <<registered, len, holder>>,
           \A t \in Thread : \/ tpc'[t] = tpc[t]
                             \/ tpc[t] \in Waiting /\ tpc'[t] \in Waiting
                             \/ tpc[t] \in Serving /\ tpc'[t] \in Serving
                             \/ tpc[t] \in Idle /\ tpc'[t] \in Idle
    PROVE  Control'
<1>1. Served' = Served
  BY DEF Served, Waiting, Serving, Idle
<1>2. Placed'
  BY DEF Control, Placed, Waiting, Serving, Idle
<1>3. Locked'
  BY DEF Control, Locked, Waiting, Serving, Idle
<1>4. Counted'
  BY <1>1 DEF Control, Counted
<1>5. WaitAtZero'
  BY DEF Control, WaitAtZero, Waiting, Serving, Idle
<1> QED
  BY <1>2, <1>3, <1>4, <1>5 DEF Control

\* The main thread where it is, and no thread newly at the registry.
LEMMA EndingKept ==
    ASSUME Inv, UNCHANGED <<registered, len, sem, freed, mpc, early, late>>,
           newfd' = newfd \/ newfd' = NoThread,
           \A t \in Thread : \/ tpc'[t] = tpc[t]
                             \/ tpc[t] # "none" /\ tpc'[t] \notin Waiting
    PROVE  Ending'
<1>1. SemRight' /\ FreedLast' /\ OnlyLate'
  BY DEF Inv, Ending, SemRight, FreedLast, OnlyLate, One
<1>2. Interrupted' /\ LateWait'
  BY DEF Inv, Ending, Interrupted, LateWait, Waiting
<1>3. NewThread'
  BY ThreadAssumption DEF Inv, Ending, NewThread
<1> QED
  BY <1>1, <1>2, <1>3 DEF Ending

-----------------------------------------------------------------------------
\* The main thread.

LEMMA InitInv == Init => Inv
<1> SUFFICES ASSUME Init PROVE Inv
  OBVIOUS
<1>1. TypeOK
  <2>1. hups \in 0 .. MaxHups /\ asked \in 0 .. MaxRequests
    BY BoundAssumption DEF Init
  <2>2. /\ tpc \in [Thread -> ThreadPc]
        /\ to \in [Thread -> Thread \cup {NoThread}]
        /\ conn \in [Thread -> {"none", "open", "shut", "gone", "closed"}]
    BY DEF Init, ThreadPc
  <2> QED
    BY <2>1, <2>2 DEF Init, TypeOK, MainPc
<1>2. Served = {}
  BY DEF Init, Served, Serving
<1>3. Control
  BY <1>2, ServedFinite, ThreadAssumption
  DEF Init, Control, Placed, Locked, Counted, WaitAtZero, Waiting, Serving
<1>4. Ending
  BY ThreadAssumption
  DEF Init, Ending, SemRight, Interrupted, NewThread, FreedLast, LateWait,
      OnlyLate, One
<1> QED
  BY <1>1, <1>3, <1>4 DEF Inv

LEMMA StepBoot == Inv /\ Boot => Inv'
<1> SUFFICES ASSUME Inv, Boot PROVE Inv'
  OBVIOUS
<1> USE DEF Boot, MainAt, MainGoto, registry, threads, links, history
<1>1. TypeOK'
  BY DEF Inv, TypeOK, MainPc
<1>2. Control'
  BY ControlKept DEF Inv
<1>3. Ending'
  BY DEF Inv, Ending, SemRight, Interrupted, NewThread, FreedLast, LateWait,
         OnlyLate, One
<1> QED
  BY <1>1, <1>2, <1>3 DEF Inv

LEMMA StepLoop == Inv /\ Loop => Inv'
<1> SUFFICES ASSUME Inv, Loop PROVE Inv'
  OBVIOUS
<1> USE DEF Loop, MainAt, MainGoto, registry, threads, links, history
<1>1. TypeOK'
  BY DEF Inv, TypeOK, MainPc
<1>2. Control'
  BY ControlKept DEF Inv
<1>3. Ending'
  BY DEF Inv, Ending, SemRight, Interrupted, NewThread, FreedLast, LateWait,
         OnlyLate, One
<1> QED
  BY <1>1, <1>2, <1>3 DEF Inv

LEMMA StepAccept == Inv /\ Accept => Inv'
<1> SUFFICES ASSUME Inv, Accept PROVE Inv'
  OBVIOUS
<1> USE DEF Accept, MainAt, MainGoto, registry, threads, history
<1>1. newfd' \in Thread /\ tpc[newfd'] = "none"
  OBVIOUS
<1>2. TypeOK'
  BY <1>1 DEF Inv, TypeOK, MainPc
<1>3. Control'
  BY ControlKept DEF Inv
<1>4. Ending'
  BY <1>1 DEF Inv, Ending, SemRight, Interrupted, NewThread, FreedLast, LateWait,
              OnlyLate, One
<1> QED
  BY <1>2, <1>3, <1>4 DEF Inv

LEMMA StepAccepted == Inv /\ Accepted => Inv'
<1> SUFFICES ASSUME Inv, Accepted PROVE Inv'
  OBVIOUS
<1> USE DEF Accepted, MainAt, MainGoto, registry, history
<1>1. TypeOK'
  BY DEF Inv, TypeOK, MainPc, ThreadPc
<1>2. \A t \in Thread : tpc'[t] = tpc[t] \/ (tpc[t] = "none" /\ tpc'[t] = "start")
  BY DEF Inv, Ending, NewThread, TypeOK
<1>3. Control'
  BY <1>2, ControlKept DEF Inv, Idle
<1>4. Ending'
  BY <1>2, ThreadAssumption
  DEF Inv, Ending, SemRight, Interrupted, NewThread, FreedLast, LateWait,
      OnlyLate, One, Waiting
<1> QED
  BY <1>1, <1>3, <1>4 DEF Inv

\* Nobody waits for the semaphore then: creg_shutdown_all has the mutex.
LEMMA StepShutdownAll == Inv /\ ShutdownAll => Inv'
<1> SUFFICES ASSUME Inv, ShutdownAll PROVE Inv'
  OBVIOUS
<1> USE DEF ShutdownAll, MainAt, MainGoto, registry, threads, history
<1>1. TypeOK'
  BY DEF Inv, TypeOK, MainPc
<1>2. Control'
  BY ControlKept DEF Inv
<1>3. \A t \in Thread : tpc[t] \notin Waiting
  BY ThreadAssumption DEF Inv, Control, Locked
<1>4. Ending'
  BY <1>3 DEF Inv, Ending, SemRight, Interrupted, NewThread, FreedLast, LateWait,
              OnlyLate, One
<1> QED
  BY <1>1, <1>2, <1>4 DEF Inv

\* The semaphore is up, so nobody is counted; who is registered all the same
\* is waiting, and came late.
LEMMA StepWaitEmpty == Inv /\ WaitEmpty => Inv'
<1> SUFFICES ASSUME Inv, WaitEmpty PROVE Inv'
  OBVIOUS
<1> USE DEF WaitEmpty, MainAt, MainGoto, threads, links, history
<1>1. TypeOK'
  BY DEF Inv, TypeOK, MainPc
<1>2. Control'
  BY ControlKept DEF Inv
<1>3. SemRight'
  BY DEF Inv, TypeOK, Ending, SemRight, One
<1>4. OnlyLate'
  <2> SUFFICES ASSUME ~early PROVE registered \subseteq late
    BY DEF OnlyLate
  <2>1. len = 0
    BY DEF Inv, TypeOK, Ending, SemRight, One
  <2>2. Served = {}
    BY <2>1, ServedFinite DEF Inv, Control, Counted
  <2>3. \A t \in registered : t \in Thread /\ tpc[t] \in Waiting
    BY <2>2 DEF Inv, Control, Placed, Served
  <2> QED
    BY <2>3 DEF Inv, Ending, LateWait
<1>5. Interrupted' /\ NewThread' /\ FreedLast' /\ LateWait'
  BY DEF Inv, Ending, Interrupted, NewThread, FreedLast, LateWait
<1> QED
  BY <1>1, <1>2, <1>3, <1>4, <1>5 DEF Inv, Ending

LEMMA StepRepost == Inv /\ Repost => Inv'
<1> SUFFICES ASSUME Inv, Repost PROVE Inv'
  OBVIOUS
<1> USE DEF Repost, MainAt, MainGoto, threads, links, history
<1>1. TypeOK'
  BY DEF Inv, TypeOK, MainPc
<1>2. Control'
  BY ControlKept DEF Inv
<1>3. Ending'
  BY DEF Inv, TypeOK, Ending, SemRight, Interrupted, NewThread, FreedLast,
         LateWait, OnlyLate, One
<1> QED
  BY <1>1, <1>2, <1>3 DEF Inv

LEMMA StepFini == Inv /\ Fini => Inv'
<1> SUFFICES ASSUME Inv, Fini PROVE Inv'
  OBVIOUS
<1> USE DEF Fini, MainAt, MainGoto, threads, links, history
<1>1. TypeOK'
  BY DEF Inv, TypeOK, MainPc
<1>2. Control'
  BY ControlKept DEF Inv
<1>3. Ending'
  BY DEF Inv, TypeOK, Ending, SemRight, Interrupted, NewThread, FreedLast,
         LateWait, OnlyLate, One
<1> QED
  BY <1>1, <1>2, <1>3 DEF Inv

LEMMA StepExit == Inv /\ Exit => Inv'
<1> SUFFICES ASSUME Inv, Exit PROVE Inv'
  OBVIOUS
<1> USE DEF Exit, MainAt, MainGoto, registry, threads, links, history
<1>1. TypeOK'
  BY DEF Inv, TypeOK, MainPc
<1>2. Control'
  BY ControlKept DEF Inv
<1>3. Ending'
  BY DEF Inv, TypeOK, Ending, SemRight, Interrupted, NewThread, FreedLast,
         LateWait, OnlyLate, One
<1> QED
  BY <1>1, <1>2, <1>3 DEF Inv

-----------------------------------------------------------------------------
\* Signals.

\* An interrupt of a wait is recorded; what the main thread does next is not
\* past the wait otherwise.
LEMMA EndingHandled ==
    ASSUME Inv, HandleInMain, UNCHANGED <<registry, newfd, tpc, late>>
    PROVE  Ending'
<1> USE DEF HandleInMain, MainGoto, registry
<1>1. SemRight' /\ Interrupted' /\ NewThread'
  BY DEF Inv, Ending, SemRight, Interrupted, NewThread, One
<1>2. FreedLast' /\ LateWait' /\ OnlyLate'
  BY DEF Inv, Ending, FreedLast, LateWait, OnlyLate
<1> QED
  BY <1>1, <1>2 DEF Ending

LEMMA StepDeliver == Inv /\ Deliver => Inv'
<1> SUFFICES ASSUME Inv, Deliver PROVE Inv'
  OBVIOUS
<1> USE DEF Deliver, registry, threads, links
<1>1. TypeOK'
  BY DEF Inv, TypeOK, MainPc, HandleInMain, MainGoto
<1>2. Control'
  BY ControlKept DEF Inv
<1>3. Ending'
  BY EndingHandled
<1> QED
  BY <1>1, <1>2, <1>3 DEF Inv

LEMMA StepHupMain == Inv /\ HupMain => Inv'
<1> SUFFICES ASSUME Inv, HupMain PROVE Inv'
  OBVIOUS
<1> USE DEF HupMain, registry, threads, links
<1>1. TypeOK'
  <2>1. hups' \in 0 .. MaxHups
    BY BoundAssumption DEF Inv, TypeOK
  <2>2. CASE ~known
    BY <2>1, <2>2 DEF Inv, TypeOK
  <2>3. CASE known
    BY <2>1, <2>3 DEF Inv, TypeOK, MainPc, HandleInMain, MainGoto
  <2> QED
    BY <2>2, <2>3
<1>2. Control'
  BY ControlKept DEF Inv
<1>3. Ending'
  <2>1. CASE ~known
    BY <2>1, EndingKept
  <2>2. CASE known
    BY <2>2, EndingHandled
  <2> QED
    BY <2>1, <2>2
<1> QED
  BY <1>1, <1>2, <1>3 DEF Inv

LEMMA StepHupThread == ASSUME Inv, NEW t \in Thread, HupThread(t) PROVE Inv'
<1>1. /\ UNCHANGED <<registry, mpc, newfd, late>>
      /\ \/ tpc' = tpc /\ early' = early
         \/ tpc[t] = "regwait" /\ tpc' = [tpc EXCEPT ![t] = "regback"] /\ early'
  BY DEF HupThread, Goto
<1>2. TypeOK'
  <2>1. hups' \in 0 .. MaxHups
    BY BoundAssumption DEF HupThread, Inv, TypeOK
  <2>2. tpc' \in [Thread -> ThreadPc]
    BY <1>1 DEF Inv, TypeOK, ThreadPc
  <2>3. early' \in BOOLEAN
    BY DEF HupThread, Inv, TypeOK
  <2> QED
    BY <2>1, <2>2, <2>3 DEF HupThread, Inv, TypeOK, registry, links
<1>3. \A u \in Thread : \/ tpc'[u] = tpc[u]
                        \/ tpc[u] = "regwait" /\ tpc'[u] = "regback" /\ early'
  <2>1. CASE tpc' = tpc
    BY <2>1
  <2>2. CASE tpc[t] = "regwait" /\ tpc' = [tpc EXCEPT ![t] = "regback"] /\ early'
    <3>1. \A u \in Thread : tpc'[u] = IF u = t THEN "regback" ELSE tpc[u]
      BY <2>2, MovedOne DEF Inv
    <3> QED
      BY <2>2, <3>1
  <2> QED
    BY <1>1, <2>1, <2>2
<1>4. Control'
  BY <1>1, <1>3, ControlKept DEF Inv, Waiting, registry
<1>5. SemRight' /\ FreedLast' /\ OnlyLate'
  BY <1>1 DEF Inv, TypeOK, Ending, SemRight, FreedLast, OnlyLate, One, registry
<1>6. Interrupted' /\ NewThread' /\ LateWait'
  BY <1>1, <1>3
  DEF Inv, TypeOK, Ending, Interrupted, NewThread, LateWait, Waiting
<1> QED
  BY <1>2, <1>4, <1>5, <1>6 DEF Inv, Ending

LEMMA StepForward == ASSUME Inv, NEW t \in Thread, Forward(t) PROVE Inv'
<1> USE DEF Forward, registry, links, history
<1>1. TypeOK'
  BY DEF Inv, TypeOK
<1>2. Control'
  BY ControlKept DEF Inv
<1>3. Ending'
  BY EndingKept
<1> QED
  BY <1>1, <1>2, <1>3 DEF Inv

-----------------------------------------------------------------------------
\* Registration.

LEMMA StepRegister == ASSUME Inv, NEW t \in Thread, Register(t) PROVE Inv'
<1> USE DEF Register, At, Goto, Running, main, links
<1>1. TypeOK'
  BY DEF Inv, TypeOK, ThreadPc
<1>2. /\ tpc[t] = "start" /\ holder = NoThread
      /\ \A u \in Thread : tpc[u] \notin Waiting
      /\ tpc' \in [Thread -> ThreadPc] /\ tpc \in [Thread -> ThreadPc]
  BY <1>1, ThreadAssumption DEF Inv, TypeOK, Control, Locked
<1>3. CASE len = 0
  <2>1. tpc' = [tpc EXCEPT ![t] = "regwait"] /\ holder' = t /\ len' = 0
    BY <1>3
  <2>2. Placed'
    BY <1>2, <2>1 DEF Inv, Control, Placed, Waiting, Serving, TypeOK
  <2>3. Locked'
    BY <1>2, <2>1, ThreadAssumption DEF Inv, Control, Locked, Waiting, TypeOK
  <2>4. Served' = Served
    BY <1>2, <2>1 DEF Served, Serving
  <2>5. Counted' /\ WaitAtZero'
    BY <1>3, <2>1, <2>4 DEF Inv, Control, Counted, WaitAtZero
  <2>6. Ending'
    <3>1. SemRight' /\ FreedLast' /\ NewThread'
      BY <1>2, <2>1, <1>3
      DEF Inv, TypeOK, Ending, SemRight, FreedLast, NewThread, One
    <3>2. Interrupted' /\ LateWait' /\ OnlyLate'
      BY <1>2, <2>1
      DEF Inv, TypeOK, Ending, Interrupted, LateWait, OnlyLate, FreedLast,
          Waiting
    <3> QED
      BY <3>1, <3>2 DEF Ending
  <2> QED
    BY <1>1, <2>2, <2>3, <2>5, <2>6 DEF Inv, Control
<1>4. CASE len # 0
  <2>1. tpc' = [tpc EXCEPT ![t] = "read"] /\ holder' = holder /\ len' = len + 1
    BY <1>4
  <2>2. Placed'
    BY <1>2, <2>1 DEF Inv, Control, Placed, Waiting, Serving, TypeOK
  <2>3. Locked'
    BY <1>2, <2>1, ThreadAssumption DEF Inv, Control, Locked, Waiting, TypeOK
  <2>4. Served' = Served \cup {t} /\ t \notin Served
    BY <1>2, <2>1 DEF Served, Serving
  <2>5. Counted' /\ WaitAtZero'
    BY <1>2, <2>1, <2>4, ServedMore
    DEF Inv, Control, Counted, WaitAtZero, Waiting
  <2>6. Ending'
    <3>1. SemRight' /\ FreedLast' /\ NewThread'
      BY <1>2, <2>1, <1>4
      DEF Inv, TypeOK, Ending, SemRight, FreedLast, NewThread, One
    <3>2. Interrupted' /\ LateWait' /\ OnlyLate'
      BY <1>2, <2>1
      DEF Inv, TypeOK, Ending, Interrupted, LateWait, OnlyLate, FreedLast,
          Waiting
    <3> QED
      BY <3>1, <3>2 DEF Ending
  <2> QED
    BY <1>1, <2>2, <2>3, <2>5, <2>6 DEF Inv, Control
<1> QED
  BY <1>3, <1>4

LEMMA StepRegistered == ASSUME Inv, NEW t \in Thread, Registered(t) PROVE Inv'
<1> USE DEF Registered, At, Goto, Running, main, links, history
<1>1. TypeOK'
  BY DEF Inv, TypeOK, ThreadPc
<1>2. /\ tpc[t] \in Waiting /\ holder = t /\ len = 0 /\ len' = 1
      /\ tpc' = [tpc EXCEPT ![t] = "read"] /\ holder' = NoThread
      /\ tpc \in [Thread -> ThreadPc]
  BY DEF Inv, TypeOK, Control, Locked, WaitAtZero, Waiting
<1>3. Placed'
  BY <1>2 DEF Inv, Control, Placed, Waiting, Serving
<1>4. Locked'
  BY <1>2, ThreadAssumption DEF Inv, Control, Locked, Waiting
<1>5. Served' = Served \cup {t} /\ t \notin Served
  BY <1>2 DEF Served, Serving, Waiting
<1>6. Counted'
  BY <1>2, <1>5, ServedMore DEF Inv, Control, Counted
<1>7. WaitAtZero'
  BY <1>2, <1>4, ThreadAssumption DEF WaitAtZero, Locked
<1>8. SemRight'
  BY <1>2 DEF Inv, TypeOK, Ending, SemRight, Interrupted, One
<1>9. Interrupted' /\ NewThread' /\ FreedLast' /\ LateWait' /\ OnlyLate'
  BY <1>2
  DEF Inv, TypeOK, Ending, Interrupted, NewThread, FreedLast, LateWait,
      OnlyLate, Waiting
<1> QED
  BY <1>1, <1>3, <1>4, <1>6, <1>7, <1>8, <1>9 DEF Inv, Control, Ending

LEMMA StepRegisterFull ==
    ASSUME Inv, NEW t \in Thread, RegisterFull(t) PROVE Inv'
<1> USE DEF RegisterFull, At, Goto, Running, registry, main, links, history
<1>1. TypeOK'
  BY DEF Inv, TypeOK, ThreadPc
<1>2. Control'
  BY ControlKept DEF Inv, TypeOK, Idle
<1>3. Ending'
  BY EndingKept DEF Inv, TypeOK, Waiting
<1> QED
  BY <1>1, <1>2, <1>3 DEF Inv

-----------------------------------------------------------------------------
\* The loop of a service thread, and its end.

LEMMA StepServe ==
    ASSUME Inv, NEW t \in Thread, Request(t) \/ Written(t) \/ Eof(t)
    PROVE  Inv'
<1>1. TypeOK'
  BY BoundAssumption
  DEF Inv, TypeOK, ThreadPc, Asks, Request, Written, Eof, At, Goto, registry,
      main, links, history
<1>2. /\ UNCHANGED <<registry, main, history>>
      /\ \/ tpc' = tpc
         \/ /\ tpc[t] \in Serving
            /\ \E p \in Serving : tpc' = [tpc EXCEPT ![t] = p]
  BY DEF Asks, Request, Written, Eof, At, Goto, Serving, main, history
<1>3. \A u \in Thread : \/ tpc'[u] = tpc[u]
                        \/ tpc[u] \in Serving /\ tpc'[u] \in Serving
  <2>1. CASE tpc' = tpc
    BY <2>1
  <2>2. ASSUME tpc[t] \in Serving, NEW p \in Serving,
               tpc' = [tpc EXCEPT ![t] = p]
        PROVE  \A u \in Thread : \/ tpc'[u] = tpc[u]
                                 \/ tpc[u] \in Serving /\ tpc'[u] \in Serving
    <3>1. \A u \in Thread : tpc'[u] = IF u = t THEN p ELSE tpc[u]
      BY <2>2, MovedOne DEF Inv
    <3> QED
      BY <2>2, <3>1
  <2> QED
    BY <1>2, <2>1, <2>2
<1>4. Control'
  BY <1>2, <1>3, ControlKept DEF Inv, registry
<1>5. Ending'
  BY <1>2, <1>3, EndingKept DEF Inv, Serving, Waiting, registry, main, history
<1> QED
  BY <1>1, <1>4, <1>5 DEF Inv

LEMMA StepUnregister == ASSUME Inv, NEW t \in Thread, Unregister(t) PROVE Inv'
<1> USE DEF Unregister, At, Goto, Running, main, history
<1>1. t \in Served
  BY DEF Served, Serving
<1>2. len \in Nat /\ len >= 1
  BY <1>1, LenPositive DEF Inv, Control
<1>3. TypeOK'
  BY <1>2 DEF Inv, TypeOK, ThreadPc
<1>4. /\ tpc[t] = "unreg" /\ holder = NoThread
      /\ \A u \in Thread : tpc[u] \notin Waiting
      /\ tpc' = [tpc EXCEPT ![t] = "unlock"] /\ holder' = t
      /\ tpc \in [Thread -> ThreadPc] /\ len' = len - 1
  BY ThreadAssumption DEF Inv, TypeOK, Control, Locked
<1>5. Placed'
  BY <1>4 DEF Inv, Control, Placed, Waiting, Serving
<1>6. Locked'
  BY <1>4, ThreadAssumption DEF Inv, Control, Locked, Waiting
<1>7. Served' = Served \ {t}
  BY <1>4 DEF Served, Serving
<1>8. Counted' /\ WaitAtZero'
  BY <1>1, <1>4, <1>7, ServedLess DEF Inv, Control, Counted, WaitAtZero, Waiting
<1>9. SemRight'
  BY <1>2, <1>4 DEF Inv, TypeOK, Ending, SemRight, One
<1>10. Interrupted' /\ NewThread' /\ FreedLast' /\ LateWait' /\ OnlyLate'
  BY <1>4
  DEF Inv, TypeOK, Ending, Interrupted, NewThread, FreedLast, LateWait,
      OnlyLate, Waiting
<1> QED
  BY <1>3, <1>5, <1>6, <1>8, <1>9, <1>10 DEF Inv, Control, Ending

LEMMA StepUnlock == ASSUME Inv, NEW t \in Thread, Unlock(t) PROVE Inv'
<1> USE DEF Unlock, At, Goto, Running, main, links, history
<1>1. TypeOK'
  BY DEF Inv, TypeOK, ThreadPc
<1>2. /\ tpc[t] = "unlock" /\ holder = t
      /\ tpc' = [tpc EXCEPT ![t] = "done"] /\ holder' = NoThread
      /\ tpc \in [Thread -> ThreadPc]
  BY DEF Inv, TypeOK, Control, Locked
<1>3. Placed'
  BY <1>2 DEF Inv, Control, Placed, Waiting, Serving
<1>4. Locked'
  BY <1>2, ThreadAssumption DEF Inv, Control, Locked, Waiting
<1>5. Served' = Served
  BY <1>2 DEF Served, Serving
<1>6. Counted' /\ WaitAtZero'
  BY <1>2, <1>5 DEF Inv, Control, Counted, WaitAtZero, Waiting
<1>7. t \notin registered
  BY <1>2 DEF Inv, Control, Placed, Waiting, Serving
<1>8. SemRight' /\ FreedLast' /\ OnlyLate'
  BY <1>7 DEF Inv, Ending, SemRight, FreedLast, OnlyLate, One
<1>9. Interrupted' /\ LateWait' /\ NewThread'
  BY <1>2, ThreadAssumption
  DEF Inv, Ending, Interrupted, LateWait, NewThread, Waiting
<1> QED
  BY <1>1, <1>3, <1>4, <1>6, <1>8, <1>9 DEF Inv, Control, Ending

LEMMA StepUseFreed == ASSUME Inv, NEW t \in Thread, UseFreed(t) PROVE Inv'
<1> USE DEF UseFreed, registry, main, threads, links, history
<1>1. TypeOK'
  BY DEF Inv, TypeOK
<1>2. Control'
  BY ControlKept DEF Inv
<1>3. Ending'
  BY EndingKept
<1> QED
  BY <1>1, <1>2, <1>3 DEF Inv

LEMMA StepQueryFreed == ASSUME Inv, NEW t \in Thread, QueryFreed(t) PROVE Inv'
<1> USE DEF QueryFreed, registry, main, threads, history
<1>0. asked' \in 0 .. MaxRequests
  BY BoundAssumption DEF Asks, Inv, TypeOK
<1>1. TypeOK'
  BY <1>0 DEF Inv, TypeOK
<1>2. Control'
  BY ControlKept DEF Inv
<1>3. Ending'
  BY EndingKept
<1> QED
  BY <1>1, <1>2, <1>3 DEF Inv

LEMMA StepDisconnect == ASSUME Inv, NEW t \in Thread, Disconnect(t) PROVE Inv'
<1> USE DEF Disconnect, registry, main, threads, links, history
<1>1. TypeOK'
  BY DEF Inv, TypeOK
<1>2. Control'
  BY ControlKept DEF Inv
<1>3. Ending'
  BY EndingKept
<1> QED
  BY <1>1, <1>2, <1>3 DEF Inv

LEMMA StepNone == Inv /\ UNCHANGED vars => Inv'
<1> SUFFICES ASSUME Inv, UNCHANGED vars PROVE Inv'
  OBVIOUS
<1> USE DEF vars, registry, main, threads, links, history
<1>1. TypeOK'
  BY DEF Inv, TypeOK
<1>2. Control'
  BY ControlKept DEF Inv
<1>3. Ending'
  BY EndingKept
<1> QED
  BY <1>1, <1>2, <1>3 DEF Inv

-----------------------------------------------------------------------------
LEMMA StepInv == Inv /\ [Next]_vars => Inv'
<1> SUFFICES ASSUME Inv, [Next]_vars PROVE Inv'
  OBVIOUS
<1>1. CASE MainStep
  BY <1>1, StepBoot, StepLoop, StepAccepted, StepShutdownAll, StepWaitEmpty,
     StepRepost, StepFini, StepExit DEF MainStep
<1>2. CASE Accept \/ Deliver
  BY <1>2, StepAccept, StepDeliver
<1>3. CASE Hup
  BY <1>3, StepHupMain, StepHupThread DEF Hup
<1>4. ASSUME NEW t \in Thread, Work(t) PROVE Inv'
  BY <1>4, StepForward, StepRegister, StepRegistered, StepRegisterFull,
     StepServe, StepUnregister, StepUnlock, StepUseFreed DEF Work
<1>5. ASSUME NEW t \in Thread, World(t) PROVE Inv'
  BY <1>5, StepServe, StepQueryFreed, StepDisconnect DEF World
<1>6. CASE Halted \/ UNCHANGED vars
  BY <1>6, StepNone DEF Halted
<1> QED
  BY <1>1, <1>2, <1>3, <1>4, <1>5, <1>6 DEF Next

LEMMA AlwaysInv == Spec => []Inv
<1>1. Init => Inv
  BY InitInv
<1>2. Inv /\ [Next]_vars => Inv'
  BY StepInv
<1> QED
  BY <1>1, <1>2, PTL DEF Spec

\* Every variable keeps its type: above all, len never goes below zero.
THEOREM TypeCorrect == Spec => []TypeOK
<1>1. Inv => TypeOK
  BY DEF Inv
<1> QED
  BY <1>1, AlwaysInv, PTL

\* The places that are taken are those counted and the one, at most, whose
\* thread waits for the semaphore.
LEMMA PlacesCounted ==
    ASSUME Inv, ~early
    PROVE  len + One(\E t \in Thread : tpc[t] = "regwait")
             = Cardinality(registered)
<1>1. \A t \in Thread : tpc[t] # "regback"
  BY DEF Inv, Ending, Interrupted
<1>2. CASE \E t \in Thread : tpc[t] = "regwait"
  <2>1. PICK t \in Thread : tpc[t] = "regwait"
    BY <1>2
  <2>2. \A u \in Thread : tpc[u] \in Waiting => u = t
    BY <2>1 DEF Inv, Control, Locked, Waiting
  <2>3. registered = Served \cup {t} /\ t \notin Served
    BY <2>1, <2>2 DEF Inv, Control, Placed, Served, Waiting, Serving
  <2>4. Cardinality(registered) = Cardinality(Served) + 1
    BY <2>3, ServedFinite, FS_AddElement
  <2> QED
    BY <1>2, <2>4 DEF Inv, Control, Counted, One
<1>3. CASE ~(\E t \in Thread : tpc[t] = "regwait")
  <2>1. registered = Served
    BY <1>1, <1>3 DEF Inv, Control, Placed, Served, Waiting, Serving
  <2> QED
    BY <1>3, <2>1, ServedFinite DEF Inv, Control, Counted, One
<1> QED
  BY <1>2, <1>3

\* Unless a wait was interrupted, the semaphore is up exactly when no client
\* is counted, and len is the number of clients; so sem_wait in
\* creg_wait_for_empty waits for what its name says.
THEOREM SemaphoreTells == Spec => []SemTellsEmpty
<1>1. Inv => SemTellsEmpty
  BY PlacesCounted DEF Inv, Ending, SemRight, SemTellsEmpty
<1> QED
  BY <1>1, AlwaysInv, PTL

\* When terminate() is past creg_wait_for_empty, whoever registered before
\* creg_shutdown_all is done with the registry but for an unlock; so only
\* late threads, and an interrupted wait, make creg_fini dangerous otherwise.
THEOREM FreedWhenEmpty == Spec => []EmptyWhenFreed
<1>1. Inv => EmptyWhenFreed
  <2> SUFFICES ASSUME Inv, mpc \in {"repost", "fini", "exit", "exited"}, ~early,
                      NEW t \in Thread \ late
               PROVE  PastUse(t)
    BY DEF EmptyWhenFreed
  <2>1. t \notin registered
    BY DEF Inv, Ending, OnlyLate
  <2> QED
    BY <2>1 DEF Inv, TypeOK, ThreadPc, Control, Placed, Waiting, Serving, PastUse
<1> QED
  BY <1>1, AlwaysInv, PTL
=============================================================================
