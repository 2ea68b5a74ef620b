---------------------------- MODULE PreferenceSaver ----------------------------
(***************************************************************************)
(* The thread that writes olad's preferences to disk, and the three pieces *)
(* of concurrent code it is made of: FilePreferenceSaverThread             *)
(* (olad/Preferences.cpp), Thread (common/thread/Thread.cpp), and the part *)
(* of SelectServer other threads may call, Execute and Terminate           *)
(* (common/io/SelectServer.cpp).                                           *)
(*                                                                         *)
(* Two threads: olad's main thread, which owns the                         *)
(* FileBackedPreferencesFactory, and the saver thread.  A step is what one *)
(* thread does between two points at which the other can see a difference: *)
(* a critical section, or a read or a write of a member no mutex protects. *)
(***************************************************************************)
EXTENDS Naturals, Sequences

CONSTANTS
    Files,        \* preference files, one per plugin and one for universes
    MaxSaves,     \* saves of each file that the main thread asks for
    MaxSyncs      \* calls of Syncronize

ASSUME ConstantsAssumption ==
    /\ MaxSaves \in Nat
    /\ MaxSyncs \in Nat

VARIABLES
    main,              \* where the main thread is
    after,             \* where it goes on after the Execute it is in
    saver,             \* where the saver thread is
    current,           \* callback the saver thread runs
    m_running,         \* Thread::m_running
    startSignal,       \* Thread::m_condition was signalled for the waiter
    syncSignal,        \* the condition of Syncronize was signalled
    m_is_running,      \* SelectServer::m_is_running
    m_terminate,       \* SelectServer::m_terminate
    m_incoming_queue,  \* callbacks passed to Execute
    kicked,            \* there are bytes in m_incoming_descriptor
    version,           \* version[f]: the saves of f asked for so far
    disk,              \* disk[f]: the version in the file
    syncs,             \* calls of Syncronize so far
    \* History, read by the properties only.
    unwritten,         \* files whose open failed in SaveToFile
    spurious,          \* a wait on a condition ended without a signal
    missed,            \* Terminate came before the loop had begun
    broken             \* the loop was left because select() failed

mainVars == <<main, after>>
threadVars == <<m_running, startSignal>>
loopVars == <<m_is_running, m_terminate>>
executeVars == <<m_incoming_queue, kicked>>
fileVars == <<disk, unwritten>>
clientVars == <<version, syncs>>
endVars == <<missed, broken>>
vars == <<mainVars, threadVars, loopVars, executeVars, fileVars, clientVars,
          saver, current, syncSignal, spurious, endVars>>

-----------------------------------------------------------------------------
(* Types *)

Truncated == 0
Nothing == [type |-> "none"]
Callbacks == [type: {"sync", "terminate"}]
             \cup [type: {"save"}, file: Files, version: 1 .. MaxSaves]

\* Type invariant: both threads are at a known point, and what is queued and
\* on disk are callbacks and versions that were asked for.
TypeOK ==
    /\ main \in {"new", "starting", "ready", "kick", "syncing", "checking",
                 "joining", "joined", "unjoined"}
    /\ after \in {"ready", "syncing", "checking"}
    /\ saver \in {"none", "created", "marked", "entering", "entered", "loop",
                  "select", "drain", "execute", "callback", "writing",
                  "stuck", "exited"}
    /\ current \in Callbacks \cup {Nothing}
    /\ m_running \in BOOLEAN
    /\ startSignal \in BOOLEAN
    /\ syncSignal \in BOOLEAN
    /\ m_is_running \in BOOLEAN
    /\ m_terminate \in BOOLEAN
    /\ m_incoming_queue \in Seq(Callbacks)
    /\ kicked \in BOOLEAN
    /\ version \in [Files -> 0 .. MaxSaves]
    /\ disk \in [Files -> 0 .. MaxSaves]
    /\ syncs \in 0 .. MaxSyncs
    /\ unwritten \subseteq Files
    /\ spurious \in BOOLEAN
    /\ missed \in BOOLEAN
    /\ broken \in BOOLEAN

\* The SelectServer's loopback descriptor is taken to work: a constructor that
\* cannot make one logs that Execute() won't work and goes on.
Init ==
    /\ main = "new"
    /\ after = "ready"
    /\ saver = "none"
    /\ current = Nothing
    /\ m_running = FALSE
    /\ startSignal = FALSE
    /\ syncSignal = FALSE
    /\ m_is_running = FALSE
    /\ m_terminate = FALSE
    /\ m_incoming_queue = <<>>
    /\ kicked = FALSE
    /\ version = [f \in Files |-> 0]
    /\ disk = [f \in Files |-> 0]
    /\ syncs = 0
    /\ unwritten = {}
    /\ spurious = FALSE
    /\ missed = FALSE
    /\ broken = FALSE

-----------------------------------------------------------------------------
(* The main thread: Thread::Start *)

\* Mutant: Start does not wait for the new thread to mark itself running.
StartAtOnce ==
    /\ main = "new"
    /\ saver' = "created"
    /\ main' = "ready"
    /\ UNCHANGED <<after, current, threadVars, syncSignal, loopVars,
                   executeVars, fileVars, clientVars, spurious, endVars>>

\* FileBackedPreferencesFactory(): the thread is created, and Start waits for
\* the signal.  It holds m_mutex until it waits.
Start ==
    /\ main = "new"
    /\ saver' = "created"
    /\ main' = "starting"
    /\ UNCHANGED <<after, current, threadVars, syncSignal, loopVars,
                   executeVars, fileVars, clientVars, spurious, endVars>>

\* pthread_create fails.  The factory ignores what Start returns.
StartFails ==
    /\ main = "new"
    /\ main' = "ready"
    /\ UNCHANGED <<after, saver, current, threadVars, syncSignal, loopVars,
                   executeVars, fileVars, clientVars, spurious, endVars>>

\* The wait ends.  It is not in a loop that tests m_running, so it may also
\* end without a signal, as POSIX permits.
StartReturns ==
    /\ main = "starting"
    /\ main' = "ready"
    /\ spurious' = (spurious \/ ~startSignal)
    /\ UNCHANGED <<after, saver, current, threadVars, syncSignal, loopVars,
                   executeVars, fileVars, clientVars, endVars>>

-----------------------------------------------------------------------------
(* The main thread: SelectServer::Execute, from SavePreferences,           *)
(* Syncronize and Terminate                                                *)

\* The first half of Execute: the callback is pushed.
Push(callback, next) ==
    /\ m_incoming_queue' = Append(m_incoming_queue, callback)
    /\ main' = "kick"
    /\ after' = next
    /\ UNCHANGED kicked

\* The second half: a byte is sent to wake select().
Kick ==
    /\ main = "kick"
    /\ kicked' = TRUE
    /\ main' = after
    /\ UNCHANGED <<after, saver, current, threadVars, syncSignal, loopVars,
                   m_incoming_queue, fileVars, clientVars, spurious, endVars>>

\* FileBackedPreferences::Save: a copy of the preferences goes to the thread.
SavePreferences(f) ==
    /\ main = "ready"
    /\ version[f] < MaxSaves
    /\ version' = [version EXCEPT ![f] = @ + 1]
    /\ Push([type |-> "save", file |-> f, version |-> version'[f]], "ready")
    /\ UNCHANGED <<saver, current, threadVars, syncSignal, loopVars, fileVars,
                   syncs, spurious, endVars>>

\* Syncronize holds its mutex from before Execute until it waits.
Syncronize ==
    /\ main = "ready"
    /\ syncs < MaxSyncs
    /\ syncs' = syncs + 1
    /\ syncSignal' = FALSE
    /\ Push([type |-> "sync"], "syncing")
    /\ UNCHANGED <<saver, current, threadVars, loopVars, fileVars, version,
                   spurious, endVars>>

\* Its wait ends.  There is no predicate, so a wake-up without a signal ends
\* it as well; the mutex and the condition are then gone.
SyncronizeReturns ==
    /\ main = "syncing"
    /\ main' = "ready"
    /\ spurious' = (spurious \/ ~syncSignal)
    /\ UNCHANGED <<after, saver, current, threadVars, syncSignal, loopVars,
                   executeVars, fileVars, clientVars, endVars>>

\* Mutant: the thread is told to stop at once, not by a queued callback.
TerminateAtOnce ==
    /\ main = "ready"
    /\ main' = "checking"
    /\ m_terminate' = (m_terminate \/ m_is_running)
    /\ missed' = ~m_is_running
    /\ UNCHANGED <<after, executeVars, saver, current, threadVars, syncSignal,
                   m_is_running, fileVars, clientVars, spurious, broken>>

\* ~FileBackedPreferencesFactory(), FilePreferenceSaverThread::Join:
\* SelectServer::Terminate reads m_is_running without a lock.
Terminate ==
    /\ main = "ready"
    /\ \/ /\ m_is_running
          /\ Push([type |-> "terminate"], "checking")
          /\ UNCHANGED missed
       \/ /\ ~m_is_running
          /\ main' = "checking"
          /\ missed' = (saver # "exited")
          /\ UNCHANGED <<after, executeVars>>
    /\ UNCHANGED <<saver, current, threadVars, syncSignal, loopVars, fileVars,
                   clientVars, spurious, broken>>

\* Thread::Join gives up on a thread that is not marked running, and waits
\* for the end of one that is.
Join ==
    /\ main = "checking"
    /\ main' = IF m_running THEN "joining" ELSE "unjoined"
    /\ UNCHANGED <<after, saver, current, threadVars, syncSignal, loopVars,
                   executeVars, fileVars, clientVars, spurious, endVars>>

\* pthread_join returns.
JoinReturns ==
    /\ main = "joining"
    /\ saver = "exited"
    /\ main' = "joined"
    /\ m_running' = FALSE
    /\ UNCHANGED <<after, saver, current, startSignal, syncSignal, loopVars,
                   executeVars, fileVars, clientVars, spurious, endVars>>

-----------------------------------------------------------------------------
(* The saver thread: Thread::_InternalRun and SelectServer::Run *)

\* The thread moves from one point to the next and changes nothing else.
SaverMoves(from, to) ==
    /\ saver = from
    /\ saver' = to
    /\ UNCHANGED <<mainVars, current, threadVars, syncSignal, loopVars,
                   executeVars, fileVars, clientVars, spurious, endVars>>

\* m_running is set with the mutex held.
MarkRunning ==
    /\ saver = "created"
    /\ saver' = "marked"
    /\ m_running' = TRUE
    /\ UNCHANGED <<mainVars, current, startSignal, syncSignal, loopVars,
                   executeVars, fileVars, clientVars, spurious, endVars>>

\* A signal is lost on a condition nobody waits on.
SignalStart ==
    /\ saver = "marked"
    /\ saver' = "entering"
    /\ startSignal' = (main = "starting")
    /\ UNCHANGED <<mainVars, current, m_running, syncSignal, loopVars,
                   executeVars, fileVars, clientVars, spurious, endVars>>

\* SelectServer::Run, the first assignment.
EnterLoop ==
    /\ saver = "entering"
    /\ saver' = "entered"
    /\ m_is_running' = TRUE
    /\ UNCHANGED <<mainVars, current, threadVars, syncSignal, m_terminate,
                   executeVars, fileVars, clientVars, spurious, endVars>>

\* The second one.
ResetTerminate ==
    /\ saver = "entered"
    /\ saver' = "loop"
    /\ m_terminate' = FALSE
    /\ UNCHANGED <<mainVars, current, threadVars, syncSignal, m_is_running,
                   executeVars, fileVars, clientVars, spurious, endVars>>

\* while (!m_terminate)
Iterate == ~m_terminate /\ SaverMoves("loop", "select")

LeaveLoop ==
    /\ saver = "loop"
    /\ m_terminate
    /\ saver' = "exited"
    /\ m_is_running' = FALSE
    /\ UNCHANGED <<mainVars, current, threadVars, syncSignal, m_terminate,
                   executeVars, fileVars, clientVars, spurious, endVars>>

\* CheckForEvents: select() reports the loopback descriptor, or it times out
\* or a signal interrupts it; then no descriptor is looked at.
SelectData == kicked /\ SaverMoves("select", "drain")
SelectTimeout == SaverMoves("select", "loop")

\* select() fails, CheckForEvents returns false: the loop is left with
\* m_terminate FALSE, whatever the queue holds.
SelectFails ==
    /\ saver = "select"
    /\ saver' = "exited"
    /\ m_is_running' = FALSE
    /\ broken' = TRUE
    /\ UNCHANGED <<mainVars, current, threadVars, syncSignal, m_terminate,
                   executeVars, fileVars, clientVars, spurious, missed>>

\* DrainAndExecute: all bytes are read before the queue is looked at.
Drain ==
    \/ /\ saver = "drain"
       /\ kicked
       /\ kicked' = FALSE
       /\ UNCHANGED <<mainVars, saver, current, threadVars, syncSignal,
                      loopVars, m_incoming_queue, fileVars, clientVars,
                      spurious, endVars>>
    \/ /\ ~kicked
       /\ SaverMoves("drain", "execute")

\* A callback is popped with m_incoming_mutex held and run without it.
PopCallback ==
    /\ saver = "execute"
    /\ m_incoming_queue # <<>>
    /\ current' = Head(m_incoming_queue)
    /\ m_incoming_queue' = Tail(m_incoming_queue)
    /\ saver' = "callback"
    /\ UNCHANGED <<mainVars, threadVars, syncSignal, loopVars, kicked,
                   fileVars, clientVars, spurious, endVars>>

\* Mutant: the loop may go back to select() with callbacks left, as it would
\* with a limit on the callbacks run for one wake-up.
LeaveSome == SaverMoves("execute", "loop")

\* while (true) { lock; if (m_incoming_queue.empty()) break; ... }
QueueEmpty == m_incoming_queue = <<>> /\ SaverMoves("execute", "loop")

\* The callback the saver thread is in has returned.
Return ==
    /\ saver' = "execute"
    /\ current' = Nothing
    /\ UNCHANGED <<mainVars, threadVars, executeVars, clientVars,
                   m_is_running, spurious, endVars>>

\* SaveToFile: opening the file truncates it.
OpenFile ==
    /\ saver = "callback"
    /\ current.type = "save"
    /\ disk' = [disk EXCEPT ![current.file] = Truncated]
    /\ saver' = "writing"
    /\ UNCHANGED <<mainVars, current, threadVars, syncSignal, loopVars,
                   executeVars, unwritten, clientVars, spurious, endVars>>

OpenFails ==
    /\ saver = "callback"
    /\ current.type = "save"
    /\ unwritten' = unwritten \cup {current.file}
    /\ Return
    /\ UNCHANGED <<disk, syncSignal, m_terminate>>

WriteFile ==
    /\ saver = "writing"
    /\ disk' = [disk EXCEPT ![current.file] = current.version]
    /\ unwritten' = unwritten \ {current.file}
    /\ Return
    /\ UNCHANGED <<syncSignal, m_terminate>>

\* Mutant: the waiter's mutex is not taken, so the signal may come too early.
SyncWithoutLock ==
    /\ saver = "callback"
    /\ current.type = "sync"
    /\ syncSignal' = (main = "syncing")
    /\ Return
    /\ UNCHANGED <<fileVars, m_terminate>>

\* CompleteSyncronization: taking the mutex blocks until Syncronize waits.  If
\* its wait has ended by itself, the mutex no longer exists: the call may
\* return, or never come back (SyncronizeHangs).
CompleteSyncronization ==
    /\ saver = "callback"
    /\ current.type = "sync"
    /\ main = "syncing" \/ spurious
    /\ syncSignal' = (main = "syncing")
    /\ Return
    /\ UNCHANGED <<fileVars, m_terminate>>

SyncronizeHangs ==
    /\ spurious
    /\ main # "syncing"
    /\ current.type = "sync"
    /\ SaverMoves("callback", "stuck")

SetTerminate ==
    /\ saver = "callback"
    /\ current.type = "terminate"
    /\ m_terminate' = TRUE
    /\ Return
    /\ UNCHANGED <<fileVars, syncSignal>>

-----------------------------------------------------------------------------
SaverRuns ==
    \/ MarkRunning
    \/ SignalStart
    \/ EnterLoop
    \/ ResetTerminate
    \/ Iterate
    \/ LeaveLoop
    \/ SelectData
    \/ SelectTimeout
    \/ SelectFails
    \/ Drain
    \/ PopCallback
    \/ QueueEmpty
    \/ OpenFile
    \/ OpenFails
    \/ WriteFile
    \/ CompleteSyncronization
    \/ SyncronizeHangs
    \/ SetTerminate

Next ==
    \/ Start
    \/ StartFails
    \/ StartReturns
    \/ Kick
    \/ \E f \in Files : SavePreferences(f)
    \/ Syncronize
    \/ SyncronizeReturns
    \/ Terminate
    \/ Join
    \/ JoinReturns
    \/ SaverRuns

\* Both threads are scheduled; the main thread asks for what it likes.  A wait
\* is only sure to end once it has been signalled, and signals do not for ever
\* interrupt a select() that has something to report.
Fairness ==
    /\ WF_vars(SaverRuns)
    /\ SF_vars(SelectData)
    /\ WF_vars(startSignal /\ StartReturns)
    /\ WF_vars(syncSignal /\ SyncronizeReturns)
    /\ WF_vars(Kick \/ Join \/ JoinReturns)

Spec == Init /\ [][Next]_vars
FairSpec == Spec /\ Fairness

-----------------------------------------------------------------------------
(* Properties *)

\* The file holds the last version asked for, unless it could not be opened.
Saved(f) == disk[f] = version[f] \/ f \in unwritten

\* The callback writes file f.
IsSave(callback, f) == callback.type = "save" /\ callback.file = f

\* The last version of f waits in the queue.
Queued(f) ==
    \E i \in 1 .. Len(m_incoming_queue) :
        /\ IsSave(m_incoming_queue[i], f)
        /\ m_incoming_queue[i].version = version[f]

\* A call that promises to wait for the disk has waited: when a signal has
\* ended Syncronize ("blocks until all pending save requests are complete",
\* Preferences.cpp:321), every file holds what was saved last.  When Join
\* returns true it does so as well, unless select() had failed; then what is
\* not on disk was never begun.  Both rely on callbacks being run in the order
\* of Execute, Join also on the loop emptying the queue before it looks at
\* m_terminate.
ReturnedMeansSaved ==
    /\ main = "syncing" /\ syncSignal =>
          spurious \/ \A f \in Files : Saved(f)
    /\ main = "joined" =>
          spurious \/ \A f \in Files : Saved(f) \/ (broken /\ Queued(f))

\* No wake-up is lost: while the saver thread sleeps in select() with a
\* callback in the queue, there is a byte to wake it, or the caller is about
\* to send one (the race the comment in Execute describes).
NoLostWakeUp ==
    saver = "select" /\ m_incoming_queue # <<>> => kicked \/ main = "kick"

\* Nobody destroys the thread object under a thread that was created and has
\* not ended: Join gives up only if there is no thread, unless Start's wait
\* ended without a signal.
NotDestroyedUnderThread ==
    main \in {"joined", "unjoined"} =>
        saver \in {"none", "exited"} \/ spurious

\* What blocks the main thread ends: Start; Syncronize once there is a thread
\* whose select() does not fail; and Join, unless Terminate came before the
\* loop had begun and was missed.
BlockedCallsReturn ==
    /\ main = "starting" ~> main # "starting"
    /\ main = "syncing" /\ saver # "none" ~>
          main # "syncing" \/ spurious \/ broken
    /\ main = "joining" /\ ~missed ~> main = "joined" \/ spurious

=============================================================================
