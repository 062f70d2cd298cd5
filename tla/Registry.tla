------------------------------ MODULE Registry ------------------------------
(***************************************************************************)
(* The client registry (client_registry.c), the main thread that accepts   *)
(* connections, and terminates the server on SIGHUP (main.c), and the life *)
(* of the service threads between them (jeux_client_service).              *)
(*                                                                         *)
(* The registry counts its clients in len, and says with a semaphore that  *)
(* there are none: it is down while a client is registered.  terminate()   *)
(* shuts every registered connection down, waits for the semaphore and     *)
(* frees the registry.  A step is what happens between two points at which *)
(* another thread can intervene: the critical sections under cr->mutex are *)
(* one step, but for the wait for the semaphore and the last unlock.       *)
(***************************************************************************)
EXTENDS Integers, FiniteSets

CONSTANTS
    Thread,       \* the connections, each served by a thread of its own
    Cap,          \* the places of the registry (MAX_CLIENTS = 64)
    MaxRequests,  \* bound: the requests the remote ends send together
    MaxHups,      \* bound: the SIGHUPs the process is sent
    NoThread      \* no thread; the main thread is not in Thread

ASSUME ThreadAssumption == IsFiniteSet(Thread) /\ NoThread \notin Thread
ASSUME CapAssumption == Cap \in Nat \ {0}
ASSUME BoundAssumption == MaxRequests \in Nat /\ MaxHups \in Nat

VARIABLES
    \* struct client_registry
    registered,  \* the clients in creg_arr
    len,         \* len
    sem,         \* the value of count_sem
    holder,      \* the thread that holds mutex between two steps
    freed,       \* creg_fini has freed the registry
    \* the main thread and its signal handler
    mpc,         \* where the main thread is
    known,       \* MAIN_THREAD_FLAG is set
    newfd,       \* *newfd: the connection it has accepted
    flag,        \* terminate_flag
    listening,   \* listenfd is open
    pending,     \* a SIGHUP sent on to the main thread, not delivered yet
    hups,        \* SIGHUPs sent to the process
    \* the service threads
    tpc,         \* where the thread is
    to,          \* the client whose remote end holds up its write, if one does
    handling,    \* threads in sighup_handler, before pthread_kill
    \* the connections
    conn,        \* the descriptor and its remote end
    asked,       \* requests received so far
    \* history
    late,        \* threads that registered after creg_shutdown_all, until
                 \* they are done
    early,       \* a wait for the semaphore ended with EINTR
    alive        \* FALSE once the registry was used after it was freed

registry == <<registered, len, sem, holder, freed>>
main == <<mpc, known, newfd, flag, listening, pending, hups>>
threads == <<tpc, to, handling>>
links == <<conn, asked>>
history == <<late, early>>
vars == <<registry, main, threads, links, history, alive>>

-----------------------------------------------------------------------------
One(p) == IF p THEN 1 ELSE 0

\* The process goes on: no crash, and exit() not called.
Running == alive /\ mpc # "exited"

MainAt(p) == Running /\ mpc = p
MainGoto(p) == mpc' = p

\* A thread in its signal handler does nothing else.
At(t, p) == Running /\ tpc[t] = p /\ t \notin handling
Goto(t, p) == tpc' = [tpc EXCEPT ![t] = p]

Init ==
    /\ registered = {} /\ len = 0 /\ sem = 1
    /\ holder = NoThread /\ freed = FALSE
    /\ mpc = "boot" /\ known = FALSE /\ newfd = NoThread
    /\ flag = FALSE /\ listening = FALSE /\ pending = FALSE /\ hups = 0
    /\ tpc = [t \in Thread |-> "none"]
    /\ to = [t \in Thread |-> NoThread]
    /\ handling = {}
    /\ conn = [t \in Thread |-> "none"]
    /\ asked = 0
    /\ late = {} /\ early = FALSE
    /\ alive = TRUE

-----------------------------------------------------------------------------
\* run_server.

\* The listening socket is opened and the main thread made known to the
\* handler, or terminate(EXIT_FAILURE) is called, and it is not.
Boot ==
    /\ MainAt("boot")
    /\ \/ MainGoto("loop") /\ listening' = TRUE /\ known' = TRUE
       \/ MainGoto("shutdown") /\ UNCHANGED <<listening, known>>
    /\ UNCHANGED <<registry, newfd, flag, pending, hups, threads, links,
                   history, alive>>

Loop ==
    /\ MainAt("loop")
    /\ MainGoto(IF flag THEN "shutdown" ELSE "accept")
    /\ UNCHANGED <<registry, known, newfd, flag, listening, pending, hups,
                   threads, links, history, alive>>

\* accept() returns a connection, or fails (a connection aborted in the
\* queue): a thread is started all the same, with the descriptor -1, on which
\* everything fails.  Threads have no identity before.
Accept ==
    /\ MainAt("accept")
    /\ \E t \in Thread : tpc[t] = "none" /\ conn[t] = "none"
    /\ newfd' = CHOOSE t \in Thread : tpc[t] = "none" /\ conn[t] = "none"
    /\ \E s \in {"open", "closed"} : conn' = [conn EXCEPT ![newfd'] = s]
    /\ MainGoto("accepted")
    /\ UNCHANGED <<registry, known, flag, listening, pending, hups, threads,
                   asked, history, alive>>

\* The connection is closed again, or gets its thread.
Accepted ==
    /\ MainAt("accepted")
    /\ newfd' = NoThread
    /\ IF flag
       THEN /\ MainGoto("shutdown")
            /\ conn' = [t \in Thread |-> IF t = newfd THEN "closed" ELSE conn[t]]
            /\ UNCHANGED tpc
       ELSE /\ MainGoto("loop")
            /\ tpc' = [t \in Thread |-> IF t = newfd THEN "start" ELSE tpc[t]]
            /\ UNCHANGED conn
    /\ UNCHANGED <<registry, known, flag, listening, pending, hups, to,
                   handling, asked, history, alive>>

-----------------------------------------------------------------------------
\* terminate().

\* Mutant of ShutdownAll: the loop stops one short of the last client.
ShutdownAllButOne ==
    /\ MainAt("shutdown") /\ holder = NoThread
    /\ \E u \in Thread :
         conn' = [t \in Thread |-> IF t \in registered \ {u} /\ conn[t] = "open"
                                   THEN "shut" ELSE conn[t]]
    /\ MainGoto("wait")
    /\ UNCHANGED <<registry, known, newfd, flag, listening, pending, hups,
                   threads, asked, history, alive>>

\* creg_shutdown_all: SHUT_RD for every client, under the mutex.
ShutdownAll ==
    /\ MainAt("shutdown") /\ holder = NoThread
    /\ conn' = [t \in Thread |-> IF t \in registered /\ conn[t] = "open"
                                 THEN "shut" ELSE conn[t]]
    /\ MainGoto("wait")
    /\ UNCHANGED <<registry, known, newfd, flag, listening, pending, hups,
                   threads, asked, history, alive>>

\* creg_wait_for_empty: sem_wait ...
WaitEmpty ==
    /\ MainAt("wait") /\ sem > 0
    /\ sem' = sem - 1
    /\ MainGoto("repost")
    /\ UNCHANGED <<registered, len, holder, freed, known, newfd, flag,
                   listening, pending, hups, threads, links, history, alive>>

\* ... and sem_post, "if potentially other threads call this".
Repost ==
    /\ MainAt("repost")
    /\ sem' = sem + 1
    /\ MainGoto("fini")
    /\ UNCHANGED <<registered, len, holder, freed, known, newfd, flag,
                   listening, pending, hups, threads, links, history, alive>>

\* creg_fini takes no mutex.
Fini ==
    /\ MainAt("fini")
    /\ freed' = TRUE
    /\ MainGoto("exit")
    /\ UNCHANGED <<registered, len, sem, holder, known, newfd, flag,
                   listening, pending, hups, threads, links, history, alive>>

\* preg_fini and exit().
Exit ==
    /\ MainAt("exit")
    /\ MainGoto("exited")
    /\ UNCHANGED <<registry, known, newfd, flag, listening, pending, hups,
                   threads, links, history, alive>>

-----------------------------------------------------------------------------
\* SIGHUP.

\* sighup_handler in the main thread: accept() and sem_wait() return with
\* EINTR when they were waiting.
HandleInMain ==
    /\ flag' = TRUE /\ listening' = FALSE
    /\ MainGoto(IF mpc = "accept" THEN "accepted"
                ELSE IF mpc = "wait" /\ sem = 0 THEN "repost" ELSE mpc)
    /\ early' = (early \/ (mpc = "wait" /\ sem = 0))

\* The signal is delivered to the main thread.  While MAIN_THREAD_FLAG is not
\* set, which it never is when the socket could not be opened, the handler
\* signals the thread 0.
HupMain ==
    /\ Running /\ hups < MaxHups
    /\ hups' = hups + 1
    /\ IF known
       THEN HandleInMain /\ UNCHANGED alive
       ELSE alive' = FALSE /\ UNCHANGED <<flag, listening, mpc, early>>
    /\ UNCHANGED <<registry, known, newfd, pending, threads, links, late>>

\* It is delivered to a service thread: the flag is set.  A sem_wait of
\* creg_register is given up; its result is not looked at.
HupThread(t) ==
    /\ Running /\ hups < MaxHups
    /\ tpc[t] \notin {"none", "done"} /\ t \notin handling
    /\ hups' = hups + 1
    /\ flag' = TRUE
    /\ handling' = handling \cup {t}
    /\ IF tpc[t] = "regwait" /\ sem = 0
       THEN early' = TRUE /\ Goto(t, "regback")
       ELSE UNCHANGED <<early, tpc>>
    /\ UNCHANGED <<registry, mpc, known, newfd, listening, pending, to, links,
                   late, alive>>

\* Mutant of Forward: the handler only sets the flag.
ForwardNot(t) ==
    /\ Running /\ t \in handling
    /\ handling' = handling \ {t}
    /\ UNCHANGED <<registry, main, tpc, to, links, history, alive>>

\* pthread_kill(MAIN_THREAD_FLAG, SIGHUP)
Forward(t) ==
    /\ Running /\ t \in handling
    /\ handling' = handling \ {t}
    /\ pending' = TRUE
    /\ UNCHANGED <<registry, mpc, known, newfd, flag, listening, hups, tpc,
                   to, links, history, alive>>

\* The main thread handles it.  (Signals that are pending together are one.)
Deliver ==
    /\ Running /\ pending
    /\ pending' = FALSE
    /\ HandleInMain
    /\ UNCHANGED <<registry, known, newfd, hups, threads, links, late, alive>>

-----------------------------------------------------------------------------
\* A service thread: creg_register.

\* Mutant of Register: the semaphore is left alone.
RegisterKeepsSem(t) ==
    /\ At(t, "start") /\ holder = NoThread /\ ~freed
    /\ Cardinality(registered) < Cap
    /\ registered' = registered \cup {t}
    /\ late' = IF mpc \in {"wait", "repost", "fini"} THEN late \cup {t} ELSE late
    /\ len' = len + 1
    /\ Goto(t, "read")
    /\ UNCHANGED <<sem, holder, freed, main, to, handling, links, early,
                   alive>>

\* A place is taken; the first client also waits for the semaphore, with the
\* mutex held.
Register(t) ==
    /\ At(t, "start") /\ holder = NoThread /\ ~freed
    /\ Cardinality(registered) < Cap
    /\ registered' = registered \cup {t}
    /\ late' = IF mpc \in {"wait", "repost", "fini"} THEN late \cup {t} ELSE late
    /\ IF len = 0
       THEN Goto(t, "regwait") /\ holder' = t /\ UNCHANGED len
       ELSE Goto(t, "read") /\ len' = len + 1 /\ UNCHANGED holder
    /\ UNCHANGED <<sem, freed, main, to, handling, links, early, alive>>

\* Mutant of Registered: the first client is not counted.
RegisteredUncounted(t) ==
    /\ \/ At(t, "regwait") /\ ~freed /\ sem > 0 /\ sem' = sem - 1
       \/ At(t, "regback") /\ ~freed /\ UNCHANGED sem
    /\ holder' = NoThread
    /\ Goto(t, "read")
    /\ UNCHANGED <<registered, len, freed, main, to, handling, links, history,
                   alive>>

\* sem_wait returns, or has returned with EINTR: the client is counted.
Registered(t) ==
    /\ \/ At(t, "regwait") /\ ~freed /\ sem > 0 /\ sem' = sem - 1
       \/ At(t, "regback") /\ ~freed /\ UNCHANGED sem
    /\ len' = len + 1
    /\ holder' = NoThread
    /\ Goto(t, "read")
    /\ UNCHANGED <<registered, freed, main, to, handling, links, history,
                   alive>>

\* There is no place: the thread ends, and leaves its descriptor open.
RegisterFull(t) ==
    /\ At(t, "start") /\ holder = NoThread /\ ~freed
    /\ Cardinality(registered) = Cap
    /\ Goto(t, "done")
    /\ UNCHANGED <<registry, main, to, handling, links, history, alive>>

-----------------------------------------------------------------------------
\* The loop of jeux_client_service.

\* A write is done at once, or fails, unless the remote end of to[t] is there
\* and does not read.
CanWrite(t) == to[t] = NoThread \/ conn[to[t]] \in {"gone", "closed"}

\* A request is read: one may still be there after the connection was shut
\* down for reading, or closed by the remote end.
Asks(t) ==
    /\ At(t, "read") /\ conn[t] \in {"open", "shut", "gone"}
    /\ asked < MaxRequests
    /\ asked' = asked + 1

\* The answer to a request, or a notice to another client, meets a remote end
\* that does not read.  (When every write is done at once, serving a request
\* changes nothing here.)
Request(t) ==
    /\ Asks(t)
    /\ \E p \in registered : to' = [to EXCEPT ![t] = p]
    /\ Goto(t, "write")
    /\ UNCHANGED <<registry, main, handling, conn, history, alive>>

\* client_send_packet returns.
Written(t) ==
    /\ to[t] # NoThread
    /\ to' = [to EXCEPT ![t] = NoThread]
    /\ \/ At(t, "write") /\ Goto(t, "read")
       \/ At(t, "unreg") /\ UNCHANGED tpc
    /\ UNCHANGED <<registry, main, handling, links, history, alive>>

\* End of file, or an error of read().  client_logout may have something to
\* say to an opponent who does not read.
Eof(t) ==
    /\ At(t, "read") /\ conn[t] \in {"shut", "gone", "closed"}
    /\ \E p \in (registered \ {t}) \cup {NoThread} : to' = [to EXCEPT ![t] = p]
    /\ Goto(t, "unreg")
    /\ UNCHANGED <<registry, main, handling, links, history, alive>>

\* Mutant of Unregister: the semaphore is raised each time.
UnregisterPosts(t) ==
    /\ At(t, "unreg") /\ to[t] = NoThread /\ holder = NoThread /\ ~freed
    /\ conn' = [conn EXCEPT ![t] = "closed"]
    /\ registered' = registered \ {t}
    /\ len' = len - 1
    /\ sem' = sem + 1
    /\ holder' = t
    /\ Goto(t, "unlock")
    /\ UNCHANGED <<freed, main, to, handling, asked, history, alive>>

\* creg_unregister: the descriptor is closed, the place given up, the
\* semaphore raised by the last client, and then the mutex unlocked.
Unregister(t) ==
    /\ At(t, "unreg") /\ to[t] = NoThread /\ holder = NoThread /\ ~freed
    /\ conn' = [conn EXCEPT ![t] = "closed"]
    /\ registered' = registered \ {t}
    /\ len' = len - 1
    /\ sem' = IF len = 1 THEN sem + 1 ELSE sem
    /\ holder' = t
    /\ Goto(t, "unlock")
    /\ UNCHANGED <<freed, main, to, handling, asked, history, alive>>

Unlock(t) ==
    /\ At(t, "unlock") /\ ~freed
    /\ holder' = NoThread
    /\ Goto(t, "done")
    /\ late' = late \ {t}
    /\ UNCHANGED <<registered, len, sem, freed, main, to, handling, links,
                   early, alive>>

\* LOGIN and INVITE (creg_lookup) and USERS (creg_all_players), served by a
\* thread that is still there when the registry was freed, lock it too.
QueryFreed(t) ==
    /\ Asks(t) /\ freed
    /\ alive' = FALSE
    /\ UNCHANGED <<registry, main, threads, conn, history>>

\* The registry is locked, unlocked or waited for after it was freed, by a
\* thread that comes or goes.
UseFreed(t) ==
    /\ \E p \in {"start", "regwait", "regback", "unreg", "unlock"} : At(t, p)
    /\ freed /\ to[t] = NoThread
    /\ alive' = FALSE
    /\ UNCHANGED <<registry, main, threads, links, history>>

-----------------------------------------------------------------------------
\* The remote end goes away.
Disconnect(t) ==
    /\ Running /\ conn[t] \in {"open", "shut"}
    /\ conn' = [conn EXCEPT ![t] = "gone"]
    /\ UNCHANGED <<registry, main, threads, asked, history, alive>>

\* After exit() or a crash.
Halted == ~Running /\ UNCHANGED vars

MainStep == \/ Boot \/ Loop \/ Accepted
            \/ ShutdownAll \/ WaitEmpty \/ Repost \/ Fini \/ Exit

\* What a thread does when it can; a write may be stuck.
Work(t) ==
    \/ Forward(t)
    \/ Register(t)
    \/ Registered(t)
    \/ RegisterFull(t)
    \/ Written(t) /\ CanWrite(t)
    \/ Eof(t)
    \/ Unregister(t)
    \/ Unlock(t)
    \/ UseFreed(t)

Hup == HupMain \/ \E t \in Thread : HupThread(t)

World(t) == Request(t) \/ QueryFreed(t) \/ Disconnect(t) \/ Written(t)

Next ==
    \/ MainStep
    \/ Accept
    \/ Deliver
    \/ Hup
    \/ \E t \in Thread : Work(t) \/ World(t)
    \/ Halted

\* The kernel schedules the main thread and every service thread, and
\* delivers signals.  Nobody has to connect, to send anything, or to hang up.
Spec == /\ Init /\ [][Next]_vars
        /\ WF_vars(MainStep) /\ WF_vars(Deliver)
        /\ \A t \in Thread : WF_vars(Work(t))

-----------------------------------------------------------------------------
\* Types.

MainPc == {"boot", "loop", "accept", "accepted", "shutdown", "wait", "repost",
           "fini", "exit", "exited"}
ThreadPc == {"none", "start", "regwait", "regback", "read", "write",
             "unreg", "unlock", "done"}

TypeOK ==
    /\ registered \subseteq Thread
    /\ len \in Nat /\ sem \in Nat
    /\ holder \in Thread \cup {NoThread}
    /\ freed \in BOOLEAN
    /\ mpc \in MainPc
    /\ known \in BOOLEAN
    /\ newfd \in Thread \cup {NoThread}
    /\ flag \in BOOLEAN /\ listening \in BOOLEAN /\ pending \in BOOLEAN
    /\ hups \in 0 .. MaxHups
    /\ tpc \in [Thread -> ThreadPc]
    /\ to \in [Thread -> Thread \cup {NoThread}]
    /\ handling \subseteq Thread
    /\ conn \in [Thread -> {"none", "open", "shut", "gone", "closed"}]
    /\ asked \in 0 .. MaxRequests
    /\ late \subseteq Thread
    /\ early \in BOOLEAN /\ alive \in BOOLEAN

-----------------------------------------------------------------------------
\* Safety.

\* Unless a sem_wait ended with EINTR, the semaphore is up exactly when no
\* client is counted (but while the main thread holds it to put it back),
\* and len counts the places that are taken; so sem_wait in
\* creg_wait_for_empty stands for "there is no client".
SemTellsEmpty ==
    ~early =>
      /\ sem + One(mpc = "repost") = One(len = 0)
      /\ len + One(\E t \in Thread : tpc[t] = "regwait") = Cardinality(registered)

\* Once terminate() is past creg_wait_for_empty, no thread that registered
\* before creg_shutdown_all will use the registry any more, but for the one
\* that is about to unlock the mutex; unless the wait ended with EINTR.
\* (What client_registry.h says of creg_wait_for_empty holds apart from an
\* interrupted wait, a thread that registers late, and this unlock.)
PastUse(t) == tpc[t] \in {"none", "start", "unlock", "done"}

EmptyWhenFreed ==
    mpc \in {"repost", "fini", "exit", "exited"} /\ ~early
      => \A t \in Thread \ late : PastUse(t)

-----------------------------------------------------------------------------
\* Liveness.

\* What shutting down for reading does not reach: a thread that writes to a
\* remote end that does not read, and one that registered too late.
Stuck(t) ==
    \/ to[t] # NoThread /\ ~CanWrite(t)
    \/ tpc[t] = "read" /\ t \in late /\ conn[t] = "open"

\* After a SIGHUP, whichever thread it is delivered to, the server ends,
\* or crashes, or is held up for good by a thread that shutdown(SHUT_RD)
\* does not reach.  (The flag is never lowered, and a server that has ended
\* does not run again.)
Stops == []<>(flag /\ Running) => <>[](\E t \in Thread : Stuck(t))
=============================================================================
