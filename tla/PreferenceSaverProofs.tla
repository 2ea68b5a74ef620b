------------------------- MODULE PreferenceSaverProofs -------------------------
(***************************************************************************)
(* The safety properties of the saver thread, for any files and any number *)
(* of saves and calls of Syncronize.                                       *)
(***************************************************************************)
EXTENDS PreferenceSaver, TLAPS

-----------------------------------------------------------------------------
(* The life of the thread *)

\* A thread that is not marked as running has not been created, has ended, or
\* is waited for by Start, unless that wait ended by itself.
ThreadInv ==
    /\ after \in {"ready", "syncing", "checking"}
    /\ main = "new" => saver = "none"
    /\ startSignal => saver \notin {"none", "created"}
    /\ saver = "marked" => m_running
    /\ ~m_running => \/ saver \in {"none", "exited"}
                     \/ saver = "created" /\ (main = "starting" \/ spurious)
    /\ main = "joined" => saver = "exited"
    /\ main = "unjoined" => saver \in {"none", "exited"} \/ spurious

\* No step of the main thread or of the saver breaks it: Start waits for the
\* signal, and the thread marks itself before it sends it.
LEMMA ThreadStep == ThreadInv /\ [Next]_vars => ThreadInv'
<1> SUFFICES ASSUME ThreadInv, [Next]_vars PROVE ThreadInv'
  OBVIOUS
<1> USE DEF ThreadInv, mainVars, threadVars, loopVars, executeVars, fileVars,
            clientVars
<1>1. CASE Start \/ StartFails
  BY <1>1 DEF Start, StartFails
<1>2. CASE StartReturns
  <2>1. spurious => spurious'
    BY <1>2, Zenon DEF StartReturns
  <2>2. startSignal \/ spurious'
    BY <1>2, Zenon DEF StartReturns
  <2> QED
    BY <1>2, <2>1, <2>2 DEF StartReturns
<1>3. CASE SyncronizeReturns
  <2>1. spurious => spurious'
    BY <1>3, Zenon DEF SyncronizeReturns
  <2> QED
    BY <1>3, <2>1 DEF SyncronizeReturns
<1>4. CASE Join \/ JoinReturns \/ Kick
  BY <1>4 DEF Join, JoinReturns, Kick
<1>5. ASSUME NEW f \in Files, SavePreferences(f) PROVE ThreadInv'
  BY <1>5 DEF SavePreferences, Push
<1>6. CASE Syncronize \/ Terminate
  BY <1>6 DEF Syncronize, Terminate, Push
<1>7. CASE MarkRunning \/ SignalStart \/ EnterLoop \/ ResetTerminate
           \/ Iterate \/ LeaveLoop \/ SelectData \/ SelectTimeout
           \/ SelectFails
  BY <1>7 DEF MarkRunning, SignalStart, EnterLoop, ResetTerminate, Iterate,
              LeaveLoop, SelectData, SelectTimeout, SelectFails, SaverMoves
<1>8. CASE Drain \/ PopCallback \/ QueueEmpty
  BY <1>8 DEF Drain, PopCallback, QueueEmpty, SaverMoves
<1>9. CASE OpenFile \/ OpenFails \/ WriteFile \/ CompleteSyncronization
           \/ SyncronizeHangs \/ SetTerminate
  BY <1>9 DEF OpenFile, OpenFails, WriteFile, CompleteSyncronization,
              SyncronizeHangs, SetTerminate, SaverMoves, Return
<1>10. CASE UNCHANGED vars
  BY <1>10 DEF vars
<1> QED
  BY <1>1, <1>2, <1>4, <1>5, <1>6, <1>7, <1>8, <1>9, <1>10, <1>3
     DEF Next, SaverRuns

\* Thread::Join does not give up on a thread that exists.
THEOREM NotDestroyed == Spec => []NotDestroyedUnderThread
<1>1. Init => ThreadInv
  BY DEF Init, ThreadInv
<1>2. ThreadInv => NotDestroyedUnderThread
  BY DEF ThreadInv, NotDestroyedUnderThread
<1> QED
  BY <1>1, <1>2, ThreadStep, PTL DEF Spec
-----------------------------------------------------------------------------
(* Wake-ups *)

\* Whenever there is a callback in the queue, not only while the thread
\* sleeps, a byte is in the pipe, is about to be sent, or the thread has read
\* the pipe and will look at the queue before it sleeps again.
WakeInv ==
    m_incoming_queue # <<>> =>
        \/ kicked
        \/ main = "kick"
        \/ saver \in {"drain", "execute", "callback", "writing", "stuck"}

\* The strengthened invariant is an invariant: Push leads to "kick", Kick
\* leaves a byte, and the queue is empty when DrainAndExecute returns.
LEMMA WakeStep == ThreadInv /\ WakeInv /\ [Next]_vars => WakeInv'
<1> SUFFICES ASSUME ThreadInv, WakeInv, [Next]_vars PROVE WakeInv'
  OBVIOUS
<1> USE DEF WakeInv, mainVars, threadVars, loopVars, executeVars, fileVars,
            clientVars
<1>0. CASE Start
  BY <1>0 DEF Start, ThreadInv
<1>1. CASE StartFails \/ StartReturns \/ SyncronizeReturns \/ Join
           \/ JoinReturns
  BY <1>1 DEF StartFails, StartReturns, SyncronizeReturns, Join,
              JoinReturns
<1>2. CASE Kick
  BY <1>2 DEF Kick
<1>3. ASSUME NEW f \in Files, SavePreferences(f) PROVE WakeInv'
  BY <1>3 DEF SavePreferences, Push
<1>4. CASE Syncronize
  BY <1>4 DEF Syncronize, Push
<1>5. CASE Terminate
  BY <1>5 DEF Terminate, Push
<1>6. CASE MarkRunning \/ SignalStart \/ EnterLoop \/ ResetTerminate
           \/ Iterate \/ LeaveLoop \/ SelectData \/ SelectTimeout
           \/ SelectFails
  BY <1>6 DEF MarkRunning, SignalStart, EnterLoop, ResetTerminate, Iterate,
              LeaveLoop, SelectData, SelectTimeout, SelectFails, SaverMoves
<1>7. CASE Drain \/ PopCallback \/ QueueEmpty
  BY <1>7 DEF Drain, PopCallback, QueueEmpty, SaverMoves
<1>8. CASE OpenFile \/ OpenFails \/ WriteFile \/ CompleteSyncronization
           \/ SyncronizeHangs \/ SetTerminate
  BY <1>8 DEF OpenFile, OpenFails, WriteFile, CompleteSyncronization,
              SyncronizeHangs, SetTerminate, SaverMoves, Return
<1>9. CASE UNCHANGED vars
  BY <1>9 DEF vars
<1> QED
  BY <1>0, <1>1, <1>2, <1>3, <1>4, <1>5, <1>6, <1>7, <1>8, <1>9 DEF Next, SaverRuns

\* SelectServer::Execute never leaves a callback behind a sleeping thread.
THEOREM WakesUp == Spec => []NoLostWakeUp
<1>1. Init => ThreadInv /\ WakeInv
  BY DEF Init, ThreadInv, WakeInv
<1>2. WakeInv => NoLostWakeUp
  BY DEF WakeInv, NoLostWakeUp
<1> QED
  BY <1>1, <1>2, ThreadStep, WakeStep, PTL DEF Spec

-----------------------------------------------------------------------------
(* What was saved *)

\* The saver thread is inside a callback.
Busy == saver \in {"callback", "writing", "stuck"}

\* The queue holds callbacks, and the thread is inside one of the right kind.
Typed ==
    /\ m_incoming_queue \in Seq(Callbacks)
    /\ Busy => current \in Callbacks
    /\ saver = "writing" => current.type = "save"
    /\ saver = "stuck" => current.type = "sync"
    /\ version \in [Files -> Nat]
    /\ disk \in [Files -> Nat]

\* Saves of a file are in the order in which they were asked for.
Ordered ==
    \A f \in Files :
        /\ Busy /\ IsSave(current, f) => current.version <= version[f]
        /\ \A i \in 1 .. Len(m_incoming_queue) : IsSave(m_incoming_queue[i], f) =>
              /\ m_incoming_queue[i].version <= version[f]
              /\ Busy /\ IsSave(current, f) =>
                    current.version < m_incoming_queue[i].version
              /\ \A j \in 1 .. i - 1 : IsSave(m_incoming_queue[j], f) =>
                    m_incoming_queue[j].version < m_incoming_queue[i].version

\* The last version of f is the callback that runs, or no save of f waits or
\* runs at all.
Running(f) == Busy /\ IsSave(current, f) /\ current.version = version[f]

Unasked(f) ==
    /\ \A i \in 1 .. Len(m_incoming_queue) : ~IsSave(m_incoming_queue[i], f)
    /\ Busy => ~IsSave(current, f)

\* The last version of a file is on its way, or it was written and nothing
\* is on its way.
OnItsWay == \A f \in Files : Queued(f) \/ Running(f) \/ (Saved(f) /\ Unasked(f))

\* The main thread is in Syncronize, at Execute or at its wait.
InSyncronize == main = "syncing" \/ (main = "kick" /\ after = "syncing")

\* The callback of Syncronize is the last in the queue, and is still to be run
\* as long as there was no signal.
SyncInv ==
    ~spurious =>
        /\ \A i \in 1 .. Len(m_incoming_queue) :
              m_incoming_queue[i].type = "sync" =>
                  /\ InSyncronize
                  /\ ~syncSignal
                  /\ i = Len(m_incoming_queue)
        /\ Busy /\ current.type = "sync" =>
              InSyncronize /\ ~syncSignal /\ m_incoming_queue = <<>>
        /\ InSyncronize /\ syncSignal => m_incoming_queue = <<>> /\ ~Busy

\* The main thread has asked the loop to end and will not ask for more.
Closing ==
    \/ main \in {"checking", "joining", "joined", "unjoined"}
    \/ main = "kick" /\ after = "checking"

\* The loop ends only with an empty queue, unless select() fails.
EndInv ==
    /\ \A i \in 1 .. Len(m_incoming_queue) :
          m_incoming_queue[i].type = "terminate" => Closing
    /\ Busy /\ current.type = "terminate" => Closing
    /\ m_terminate => Closing
    /\ saver = "exited" => broken \/ (m_terminate /\ m_incoming_queue = <<>>)
    /\ saver = "loop" /\ m_terminate => m_incoming_queue = <<>>
    /\ saver \in {"none", "created", "marked", "entering", "entered", "select",
                  "drain"} => ~m_terminate

\* The kinds of callbacks, and what a save carries.
LEMMA CallbackFacts ==
    ASSUME NEW c \in Callbacks
    PROVE  /\ c.type \in {"sync", "terminate", "save"}
           /\ c.type = "save" => c.file \in Files /\ c.version \in Nat
  BY ConstantsAssumption DEF Callbacks

\* What Append and Tail do to the places of a queue.
LEMMA AppendFacts ==
    ASSUME NEW S, NEW q \in Seq(S), NEW e \in S
    PROVE  /\ Append(q, e) \in Seq(S)
           /\ Append(q, e) # <<>>
           /\ Len(Append(q, e)) = Len(q) + 1
           /\ \A i \in 1 .. Len(q) : Append(q, e)[i] = q[i]
           /\ Append(q, e)[Len(q) + 1] = e
  OBVIOUS

\* What Tail and Head give for a queue that is not empty.
LEMMA TailFacts ==
    ASSUME NEW S, NEW q \in Seq(S), q # <<>>
    PROVE  /\ Tail(q) \in Seq(S)
           /\ Len(q) \in Nat \ {0}
           /\ Len(Tail(q)) = Len(q) - 1
           /\ \A i \in 1 .. Len(q) - 1 : Tail(q)[i] = q[i + 1]
           /\ Head(q) = q[1]
           /\ Head(q) \in S
  OBVIOUS

\* Steps that neither ask for a save nor run one leave its state alone.
LEMMA DataStutter ==
    ASSUME Ordered, OnItsWay, Busy' <=> Busy,
           UNCHANGED <<m_incoming_queue, current, version, fileVars>>
    PROVE  Ordered' /\ OnItsWay'
  BY Zenon DEF Ordered, OnItsWay, Queued, Running, Unasked, Saved, fileVars

\* A callback that is no save joins the queue.
LEMMA PushOther ==
    ASSUME Typed, Ordered, OnItsWay,
           NEW c \in Callbacks, c.type # "save",
           m_incoming_queue' = Append(m_incoming_queue, c),
           UNCHANGED <<saver, current, version, fileVars>>
    PROVE  Typed' /\ Ordered' /\ OnItsWay'
<1> DEFINE q == m_incoming_queue
<1>0. q \in Seq(Callbacks) /\ Len(q) \in Nat
  BY DEF Typed
<1>1. /\ q' \in Seq(Callbacks)
      /\ Len(q') = Len(q) + 1
      /\ \A i \in 1 .. Len(q) : q'[i] = q[i]
      /\ q'[Len(q) + 1] = c
  BY <1>0, AppendFacts
<1>2. Busy' <=> Busy
  BY DEF Busy
<1>3. Typed'
  BY <1>1, <1>2 DEF Typed, fileVars, Busy
<1>4. \A i \in 1 .. Len(q') : q'[i].type = "save" => i \in 1 .. Len(q) /\ q'[i] = q[i]
  BY <1>0, <1>1
<1>5. Ordered'
  <2> SUFFICES ASSUME NEW f \in Files, NEW i \in 1 .. Len(q'), IsSave(q'[i], f)
               PROVE  /\ q'[i].version <= version[f]
                      /\ Busy /\ IsSave(current, f) =>
                            current.version < q'[i].version
                      /\ \A j \in 1 .. i - 1 : IsSave(q'[j], f) =>
                            q'[j].version < q'[i].version
    BY <1>2 DEF Ordered
  <2>1. i \in 1 .. Len(q) /\ q'[i] = q[i]
    BY <1>4 DEF IsSave
  <2>2. \A j \in 1 .. i - 1 : q'[j] = q[j]
    BY <2>1, <1>1, <1>0
  <2> QED
    BY <2>1, <2>2, <1>0 DEF Ordered
<1>6. OnItsWay'
  <2> SUFFICES ASSUME NEW f \in Files
               PROVE  (Queued(f) \/ Running(f) \/ (Saved(f) /\ Unasked(f)))'
    BY DEF OnItsWay
  <2>1. CASE Queued(f)
    <3>1. PICK i \in 1 .. Len(q) : IsSave(q[i], f) /\ q[i].version = version[f]
      BY <2>1 DEF Queued
    <3>2. i \in 1 .. Len(q') /\ q'[i] = q[i]
      BY <3>1, <1>1, <1>0
    <3>3. Queued(f)'
      BY <3>1, <3>2 DEF Queued
    <3> QED
      BY <3>3
  <2>2. CASE Running(f)
    BY <2>2, <1>2 DEF Running
  <2>3. CASE Saved(f) /\ Unasked(f)
    <3>1. Unasked(f)'
      BY <2>3, <1>2, <1>4 DEF Unasked, IsSave
    <3>2. Saved(f)'
      BY <2>3 DEF Saved, fileVars
    <3> QED
      BY <3>1, <3>2
  <2> QED
    BY <2>1, <2>2, <2>3 DEF OnItsWay
<1> QED
  BY <1>3, <1>5, <1>6

\* SavePreferences: the new save is the highest of its file.
LEMMA PushSave ==
    ASSUME Typed, Ordered, OnItsWay, NEW g \in Files, SavePreferences(g)
    PROVE  Typed' /\ Ordered' /\ OnItsWay'
<1> DEFINE q == m_incoming_queue
           c == [type |-> "save", file |-> g, version |-> version[g] + 1]
<1>0. /\ q \in Seq(Callbacks) /\ Len(q) \in Nat
      /\ version \in [Files -> Nat]
  BY DEF Typed
<1>1. /\ version' = [version EXCEPT ![g] = version[g] + 1]
      /\ version'[g] = version[g] + 1
      /\ version' \in [Files -> Nat]
      /\ version[g] < MaxSaves
      /\ UNCHANGED <<saver, current, disk, unwritten>>
  BY <1>0 DEF SavePreferences, fileVars
<1>2. q' = Append(q, c) /\ c \in Callbacks
  BY <1>0, <1>1, ConstantsAssumption DEF SavePreferences, Push, Callbacks
<1>3. /\ q' \in Seq(Callbacks)
      /\ Len(q') = Len(q) + 1
      /\ \A i \in 1 .. Len(q) : q'[i] = q[i]
      /\ q'[Len(q) + 1] = c
  BY <1>0, <1>2, AppendFacts
<1>4. Busy' <=> Busy
  BY <1>1 DEF Busy
<1>5. Typed'
  BY <1>1, <1>3, <1>4 DEF Typed
<1>6. \A i \in 1 .. Len(q') :
        \/ i \in 1 .. Len(q) /\ q'[i] = q[i]
        \/ i = Len(q) + 1 /\ q'[i] = c
  BY <1>0, <1>3
<1>7. \A f \in Files :
        version[f] <= version'[f] /\ (f # g => version'[f] = version[f])
  BY <1>0, <1>1
<1>8. ASSUME NEW f \in Files, Busy, IsSave(current, f)
       PROVE  current.version \in Nat /\ current.version <= version[f]
  BY <1>8, CallbackFacts DEF Ordered, Typed, IsSave
<1>9. \A f \in Files :
        Busy' /\ IsSave(current', f) => current'.version <= version'[f]
  BY <1>0, <1>1, <1>4, <1>7, <1>8
<1>10. Ordered'
  <2> SUFFICES ASSUME NEW f \in Files, NEW i \in 1 .. Len(q'), IsSave(q'[i], f)
               PROVE  /\ q'[i].version <= version'[f]
                      /\ Busy /\ IsSave(current, f) =>
                            current.version < q'[i].version
                      /\ \A j \in 1 .. i - 1 : IsSave(q'[j], f) =>
                            q'[j].version < q'[i].version
    BY <1>1, <1>4, <1>9 DEF Ordered
  <2>0. \A j \in 1 .. Len(q) : IsSave(q[j], f) => q[j].version \in Nat
    BY <1>0, CallbackFacts DEF IsSave
  <2>1. CASE i \in 1 .. Len(q) /\ q'[i] = q[i]
    <3>1. \A j \in 1 .. i - 1 : q'[j] = q[j]
      BY <2>1, <1>0, <1>3
    <3>2. q[i].version \in Nat /\ q[i].version <= version[f]
      BY <2>0, <2>1 DEF Ordered
    <3>3. q'[i].version <= version'[f]
      BY <2>1, <3>2, <1>0, <1>1, <1>7
    <3>4. \A j \in 1 .. i - 1 : IsSave(q[j], f) => q[j].version < q[i].version
      BY <2>1 DEF Ordered
    <3> QED
      BY <2>1, <3>1, <3>3, <3>4 DEF Ordered
  <2>2. CASE i = Len(q) + 1 /\ q'[i] = c
    <3>1. f = g /\ q'[i].version = version[f] + 1
      BY <2>2 DEF IsSave
    <3>2. \A j \in 1 .. i - 1 : j \in 1 .. Len(q) /\ q'[j] = q[j]
      BY <2>2, <1>0, <1>3
    <3>3. \A j \in 1 .. i - 1 : IsSave(q'[j], f) => q'[j].version < q'[i].version
      BY <2>0, <3>1, <3>2, <1>0 DEF Ordered
    <3>4. Busy /\ IsSave(current, f) => current.version < q'[i].version
      BY <3>1, <1>0, <1>8
    <3> QED
      BY <3>1, <3>3, <3>4, <1>0, <1>1
  <2> QED
    BY <2>1, <2>2, <1>6
<1>11. OnItsWay'
  <2> SUFFICES ASSUME NEW f \in Files
               PROVE  (Queued(f) \/ Running(f) \/ (Saved(f) /\ Unasked(f)))'
    BY DEF OnItsWay
  <2>1. CASE f = g
    <3>1. Len(q) + 1 \in 1 .. Len(q')
      BY <1>0, <1>3
    <3>2. IsSave(c, f) /\ c.version = version'[f]
      BY <2>1, <1>1 DEF IsSave
    <3>3. Queued(f)'
      BY <3>1, <3>2, <1>3 DEF Queued
    <3> QED
      BY <3>3
  <2>2. CASE f # g /\ Queued(f)
    <3>1. PICK i \in 1 .. Len(q) : IsSave(q[i], f) /\ q[i].version = version[f]
      BY <2>2 DEF Queued
    <3>2. i \in 1 .. Len(q') /\ q'[i] = q[i] /\ version'[f] = version[f]
      BY <2>2, <3>1, <1>0, <1>3, <1>7
    <3>3. Queued(f)'
      BY <3>1, <3>2 DEF Queued
    <3> QED
      BY <3>3
  <2>3. CASE f # g /\ Running(f)
    BY <2>3, <1>1, <1>4, <1>7 DEF Running
  <2>4. CASE f # g /\ Saved(f) /\ Unasked(f)
    <3>0. ~IsSave(c, f)
      BY <2>4 DEF IsSave
    <3>1. Unasked(f)'
      BY <2>4, <3>0, <1>1, <1>4, <1>6 DEF Unasked
    <3>2. Saved(f)'
      BY <2>4, <1>1, <1>7 DEF Saved
    <3> QED
      BY <3>1, <3>2
  <2> QED
    BY <2>1, <2>2, <2>3, <2>4 DEF OnItsWay
<1> QED
  BY <1>5, <1>10, <1>11

\* The head of the queue becomes the callback that runs.
LEMMA Pop ==
    ASSUME Typed, Ordered, OnItsWay, PopCallback
    PROVE  Typed' /\ Ordered' /\ OnItsWay'
<1> DEFINE q == m_incoming_queue
<1>0. q \in Seq(Callbacks) /\ q # <<>> /\ ~Busy
  BY DEF Typed, PopCallback, Busy
<1>1. /\ current' = q[1] /\ q[1] \in Callbacks
      /\ q' \in Seq(Callbacks)
      /\ Len(q) \in Nat \ {0}
      /\ Len(q') = Len(q) - 1
      /\ \A i \in 1 .. Len(q) - 1 : q'[i] = q[i + 1]
  BY <1>0, TailFacts DEF PopCallback
<1>2. saver' = "callback" /\ Busy' /\ UNCHANGED <<version, disk, unwritten>>
  BY DEF PopCallback, Busy, clientVars, fileVars
<1>3. Typed'
  BY <1>1, <1>2 DEF Typed
<1>4. 1 \in 1 .. Len(q)
  BY <1>1
<1>5. \A i \in 1 .. Len(q') : i + 1 \in 1 .. Len(q) /\ q'[i] = q[i + 1]
  BY <1>1
<1>6. Ordered'
  <2> SUFFICES ASSUME NEW f \in Files
               PROVE  /\ IsSave(q[1], f) => q[1].version <= version[f]
                      /\ \A i \in 1 .. Len(q') : IsSave(q'[i], f) =>
                            /\ q'[i].version <= version[f]
                            /\ IsSave(q[1], f) => q[1].version < q'[i].version
                            /\ \A j \in 1 .. i - 1 : IsSave(q'[j], f) =>
                                  q'[j].version < q'[i].version
    BY <1>1, <1>2 DEF Ordered
  <2>1. IsSave(q[1], f) => q[1].version <= version[f]
    BY <1>4 DEF Ordered
  <2>2. ASSUME NEW i \in 1 .. Len(q'), IsSave(q'[i], f)
        PROVE  /\ q'[i].version <= version[f]
               /\ IsSave(q[1], f) => q[1].version < q'[i].version
               /\ \A j \in 1 .. i - 1 : IsSave(q'[j], f) =>
                     q'[j].version < q'[i].version
    <3>1. i + 1 \in 1 .. Len(q) /\ q'[i] = q[i + 1]
      BY <1>5
    <3>2. /\ q[i + 1].version <= version[f]
          /\ \A j \in 1 .. i : IsSave(q[j], f) => q[j].version < q[i + 1].version
      <4>1. (i + 1) - 1 = i
        BY <3>1
      <4> QED
        BY <2>2, <3>1, <4>1 DEF Ordered
    <3>3. 1 \in 1 .. i
      BY <2>2
    <3>4. \A j \in 1 .. i - 1 : j + 1 \in 1 .. i /\ q'[j] = q[j + 1]
      BY <2>2, <1>1
    <3> QED
      BY <3>1, <3>2, <3>3, <3>4
  <2> QED
    BY <2>1, <2>2
<1>7. OnItsWay'
  <2> SUFFICES ASSUME NEW f \in Files
               PROVE  (Queued(f) \/ Running(f) \/ (Saved(f) /\ Unasked(f)))'
    BY DEF OnItsWay
  <2>1. CASE Queued(f)
    <3>1. PICK i \in 1 .. Len(q) : IsSave(q[i], f) /\ q[i].version = version[f]
      BY <2>1 DEF Queued
    <3>2. CASE i = 1
      BY <3>1, <3>2, <1>1, <1>2 DEF Running
    <3>3. CASE i # 1
      <4>1. i - 1 \in 1 .. Len(q') /\ q'[i - 1] = q[i]
        BY <3>3, <1>1
      <4>2. Queued(f)'
        BY <3>1, <4>1, <1>2 DEF Queued
      <4> QED
        BY <4>2
    <3> QED
      BY <3>2, <3>3
  <2>2. CASE Saved(f) /\ Unasked(f)
    <3>1. Unasked(f)'
      BY <2>2, <1>1, <1>4, <1>5 DEF Unasked
    <3>2. Saved(f)'
      BY <2>2, <1>2 DEF Saved
    <3> QED
      BY <3>1, <3>2
  <2> QED
    BY <2>1, <2>2, <1>0 DEF OnItsWay, Running
<1> QED
  BY <1>3, <1>6, <1>7

\* SaveToFile has opened the file: the save is still running.
LEMMA Opened ==
    ASSUME Typed, Ordered, OnItsWay, OpenFile
    PROVE  Typed' /\ Ordered' /\ OnItsWay'
<1>1. /\ Busy /\ Busy' /\ saver' = "writing"
      /\ current.type = "save" /\ current \in Callbacks
      /\ UNCHANGED <<m_incoming_queue, current, version, unwritten>>
      /\ disk' = [disk EXCEPT ![current.file] = 0]
  BY DEF OpenFile, Busy, Typed, executeVars, clientVars, Truncated
<1>2. Typed'
  BY <1>1, CallbackFacts DEF Typed
<1>3. Ordered'
  BY <1>1, Zenon DEF Ordered
<1>4. ASSUME NEW f \in Files
      PROVE  (Queued(f) \/ Running(f) \/ (Saved(f) /\ Unasked(f)))'
  <2>1. CASE Queued(f)
    BY <2>1, <1>1, Zenon DEF Queued
  <2>2. CASE Running(f)
    BY <2>2, <1>1, Zenon DEF Running
  <2>3. CASE Saved(f) /\ Unasked(f)
    <3>1. current.file # f
      BY <2>3, <1>1 DEF Unasked, IsSave
    <3>2. Saved(f)'
      BY <2>3, <3>1, <1>1 DEF Saved, Typed
    <3>3. Unasked(f)'
      BY <2>3, <1>1, Zenon DEF Unasked
    <3> QED
      BY <3>2, <3>3
  <2> QED
    BY <2>1, <2>2, <2>3 DEF OnItsWay
<1> QED
  BY <1>2, <1>3, <1>4 DEF OnItsWay

\* A callback returns.  A save has written its version or could not be opened.
LEMMA Returned ==
    ASSUME Typed, Ordered, OnItsWay, Return, Busy,
           \/ WriteFile
           \/ OpenFails
           \/ current.type # "save" /\ UNCHANGED fileVars
    PROVE  Typed' /\ Ordered' /\ OnItsWay'
<1>1. /\ ~Busy' /\ saver' = "execute"
      /\ UNCHANGED <<m_incoming_queue, version>>
      /\ current \in Callbacks
  BY DEF Return, Busy, Typed, executeVars, clientVars
<1>2. disk' \in [Files -> Nat]
  BY <1>1, CallbackFacts DEF WriteFile, OpenFails, Typed, fileVars
<1>3. Typed'
  BY <1>1, <1>2 DEF Typed
<1>4. Ordered'
  BY <1>1, Zenon DEF Ordered
<1>5. ASSUME NEW f \in Files, ~IsSave(current, f), Saved(f)
      PROVE  Saved(f)'
  BY <1>1, <1>5 DEF Saved, WriteFile, OpenFails, IsSave, fileVars, Typed
<1>6. ASSUME NEW f \in Files, Running(f) PROVE Saved(f)' /\ Unasked(f)'
  <2>1. /\ current.type = "save" /\ current.file = f
        /\ current.version = version[f] /\ version[f] \in Nat
    BY <1>6 DEF Running, IsSave, Typed
  <2>2. Saved(f)'
    BY <2>1, <1>1 DEF Saved, WriteFile, OpenFails, Typed
  <2>3. \A i \in 1 .. Len(m_incoming_queue) : ~IsSave(m_incoming_queue[i], f)
    <3> SUFFICES ASSUME NEW i \in 1 .. Len(m_incoming_queue),
                        IsSave(m_incoming_queue[i], f)
                 PROVE  FALSE
      OBVIOUS
    <3>1. m_incoming_queue[i].version \in Nat
      BY CallbackFacts DEF Typed, IsSave
    <3>2. /\ m_incoming_queue[i].version <= version[f]
          /\ current.version < m_incoming_queue[i].version
      BY <1>6 DEF Ordered, Running
    <3> QED
      BY <2>1, <3>1, <3>2
  <2> QED
    BY <2>2, <2>3, <1>1 DEF Unasked
<1>7. ASSUME NEW f \in Files
      PROVE  (Queued(f) \/ Running(f) \/ (Saved(f) /\ Unasked(f)))'
  <2>1. CASE Queued(f)
    BY <2>1, <1>1, Zenon DEF Queued
  <2>2. CASE Running(f)
    BY <2>2, <1>6
  <2>3. CASE Saved(f) /\ Unasked(f)
    <3>1. Unasked(f)' /\ ~IsSave(current, f)
      BY <2>3, <1>1, Zenon DEF Unasked
    <3> QED
      BY <2>3, <3>1, <1>5
  <2> QED
    BY <2>1, <2>2, <2>3 DEF OnItsWay
<1> QED
  BY <1>3, <1>4, <1>7 DEF OnItsWay

\* What is asked for, waits, runs and is written fits together.
Data == Typed /\ Ordered /\ OnItsWay

\* Every step keeps the last version of each file on its way.
LEMMA DataStep == ThreadInv /\ Data /\ [Next]_vars => Data'
<1> SUFFICES ASSUME ThreadInv, Data, [Next]_vars PROVE Data'
  OBVIOUS
<1> USE DEF mainVars, threadVars, loopVars, executeVars, clientVars
<1>1. ASSUME UNCHANGED <<m_incoming_queue, current, version, fileVars>>,
             Busy' <=> Busy,
             saver' = saver \/ ~Busy
      PROVE  Data'
  <2>1. Typed'
    BY <1>1 DEF Data, Typed, Busy, fileVars
  <2> QED
    BY <1>1, <2>1, DataStutter DEF Data
<1>2. CASE \/ Start \/ StartFails \/ StartReturns \/ SyncronizeReturns \/ Kick
           \/ Join \/ JoinReturns
  BY <1>1, <1>2 DEF Start, StartFails, StartReturns, SyncronizeReturns, Kick,
                    Join, JoinReturns, ThreadInv, Busy
<1>3. ASSUME NEW f \in Files, SavePreferences(f) PROVE Data'
  BY <1>3, PushSave DEF Data
<1>4. CASE Syncronize
  <2>1. [type |-> "sync"] \in Callbacks /\ [type |-> "sync"].type # "save"
    BY DEF Callbacks
  <2> QED
    BY <1>4, <2>1, PushOther DEF Syncronize, Push, Data
<1>5. CASE Terminate
  <2>1. [type |-> "terminate"] \in Callbacks /\ [type |-> "terminate"].type # "save"
    BY DEF Callbacks
  <2>2. CASE Push([type |-> "terminate"], "checking")
    BY <1>5, <2>1, <2>2, PushOther DEF Terminate, Push, Data
  <2>3. CASE UNCHANGED executeVars
    BY <1>1, <1>5, <2>3 DEF Terminate, Busy
  <2> QED
    BY <1>5, <2>2, <2>3 DEF Terminate
<1>6. CASE \/ MarkRunning \/ SignalStart \/ EnterLoop \/ ResetTerminate
           \/ Iterate \/ LeaveLoop \/ SelectData \/ SelectTimeout \/ SelectFails
           \/ Drain
           \/ QueueEmpty
  BY <1>1, <1>6 DEF MarkRunning, SignalStart, EnterLoop, ResetTerminate,
                    Iterate, LeaveLoop, SelectData, SelectTimeout,
                    SelectFails, Drain,
                    QueueEmpty, SaverMoves, Busy
<1>7. CASE PopCallback
  BY <1>7, Pop DEF Data
<1>8. CASE OpenFile
  BY <1>8, Opened DEF Data
<1>9. CASE WriteFile \/ OpenFails
  BY <1>9, Returned DEF WriteFile, OpenFails, Busy, Data
<1>10. CASE CompleteSyncronization \/ SetTerminate
  BY <1>10, Returned DEF CompleteSyncronization, SetTerminate, Busy, Data
<1>11. CASE SyncronizeHangs
  <2>1. /\ UNCHANGED <<m_incoming_queue, current, version, fileVars>>
        /\ saver = "callback" /\ saver' = "stuck" /\ current.type = "sync"
    BY <1>11 DEF SyncronizeHangs, SaverMoves
  <2>2. Busy /\ Busy'
    BY <2>1 DEF Busy
  <2>3. Typed'
    BY <2>1, <2>2 DEF Data, Typed, fileVars
  <2> QED
    BY <2>1, <2>2, <2>3, DataStutter DEF Data
<1>12. CASE UNCHANGED vars
  BY <1>1, <1>12 DEF vars, Busy
<1> QED
  BY <1>2, <1>3, <1>4, <1>5, <1>6, <1>7, <1>8, <1>9, <1>10, <1>11, <1>12
     DEF Next, SaverRuns

\* The callback of Syncronize stays the last of the queue until it is run.
LEMMA SyncStep == ThreadInv /\ Typed /\ SyncInv /\ [Next]_vars => SyncInv'
<1> SUFFICES ASSUME ThreadInv, Typed, SyncInv, [Next]_vars PROVE SyncInv'
  OBVIOUS
<1> USE DEF mainVars, threadVars, loopVars, executeVars, clientVars
<1> DEFINE q == m_incoming_queue
<1>0. q \in Seq(Callbacks) /\ Len(q) \in Nat
  BY DEF Typed
<1>1. ASSUME UNCHANGED <<m_incoming_queue, current, syncSignal>>,
             Busy' <=> Busy, InSyncronize' <=> InSyncronize,
             spurious => spurious'
      PROVE  SyncInv'
  BY <1>1, Zenon DEF SyncInv
<1>2. CASE \/ Start \/ StartFails \/ Kick \/ Join \/ JoinReturns
  BY <1>1, <1>2 DEF Start, StartFails, Kick, Join, JoinReturns, ThreadInv, Busy,
                    InSyncronize
<1>3. CASE StartReturns
  <2>1. spurious => spurious'
    BY <1>3, Zenon DEF StartReturns
  <2> QED
    BY <1>1, <1>3, <2>1 DEF StartReturns, Busy, InSyncronize
<1>4. CASE SyncronizeReturns
  <2>1. spurious \/ ~syncSignal => spurious'
    BY <1>4, Zenon DEF SyncronizeReturns
  <2>2. InSyncronize /\ ~InSyncronize'
    BY <1>4 DEF SyncronizeReturns, InSyncronize
  <2>3. ~spurious' => q = <<>> /\ ~Busy
    BY <2>1, <2>2 DEF SyncInv
  <2>4. UNCHANGED <<m_incoming_queue, saver>> /\ (Busy' <=> Busy)
    BY <1>4 DEF SyncronizeReturns, Busy
  <2>5. ~spurious' => Len(q') = 0
    BY <2>3, <2>4
  <2> QED
    BY <2>2, <2>3, <2>4, <2>5 DEF SyncInv
<1>5. ASSUME NEW c \in Callbacks, NEW next, main = "ready", Push(c, next),
             UNCHANGED <<saver, current, spurious>>,
             \/ c.type # "sync" /\ next \in {"ready", "checking"}
             \/ c.type = "sync" /\ next = "syncing" /\ ~syncSignal'
      PROVE  SyncInv'
  <2>1. /\ q' = Append(q, c) /\ main' = "kick" /\ after' = next
        /\ ~InSyncronize
    BY <1>5 DEF Push, InSyncronize
  <2>2. /\ Len(q') = Len(q) + 1
        /\ \A i \in 1 .. Len(q) : q'[i] = q[i]
        /\ q'[Len(q) + 1] = c
    BY <1>0, <1>5, <2>1, AppendFacts
  <2>3. ~spurious => \A i \in 1 .. Len(q) : q[i].type # "sync"
    BY <2>1 DEF SyncInv
  <2>4. ~spurious => ~(Busy /\ current.type = "sync")
    BY <2>1 DEF SyncInv
  <2>5. Busy' <=> Busy
    BY <1>5 DEF Busy
  <2>6. \A i \in 1 .. Len(q') : i \in 1 .. Len(q) \/ i = Len(q')
    BY <1>0, <2>2
  <2>7. CASE c.type # "sync" /\ next \in {"ready", "checking"}
    <3>1. ~InSyncronize'
      BY <2>1, <2>7 DEF InSyncronize
    <3>2. ~spurious => \A i \in 1 .. Len(q') : q'[i].type # "sync"
      BY <2>2, <2>3, <2>6, <2>7
    <3> QED
      BY <1>5, <2>4, <2>5, <3>1, <3>2 DEF SyncInv
  <2>8. CASE c.type = "sync" /\ next = "syncing" /\ ~syncSignal'
    <3>1. InSyncronize'
      BY <2>1, <2>8 DEF InSyncronize
    <3>2. ~spurious => \A i \in 1 .. Len(q') : q'[i].type = "sync" => i = Len(q')
      BY <2>2, <2>3, <2>6
    <3> QED
      BY <1>5, <2>4, <2>5, <2>8, <3>1, <3>2 DEF SyncInv
  <2> QED
    BY <1>5, <2>7, <2>8
<1>6. ASSUME NEW f \in Files, SavePreferences(f) PROVE SyncInv'
  <2> DEFINE c == [type |-> "save", file |-> f, version |-> version[f] + 1]
  <2>1. /\ c \in Callbacks /\ c.type # "sync"
        /\ Push(c, "ready") /\ main = "ready"
        /\ UNCHANGED <<saver, current, spurious>>
    BY <1>6, ConstantsAssumption DEF SavePreferences, Push, Callbacks, Typed
  <2> QED
    BY <1>5, <2>1
<1>7. CASE Syncronize
  <2>1. [type |-> "sync"] \in Callbacks /\ [type |-> "sync"].type = "sync"
    BY DEF Callbacks
  <2>2. ~syncSignal'
    BY <1>7, Zenon DEF Syncronize
  <2> QED
    BY <1>5, <1>7, <2>1, <2>2 DEF Syncronize
<1>8. CASE Terminate
  <2>1. [type |-> "terminate"] \in Callbacks /\ [type |-> "terminate"].type # "sync"
    BY DEF Callbacks
  <2>2. CASE Push([type |-> "terminate"], "checking")
    BY <1>5, <1>8, <2>1, <2>2 DEF Terminate
  <2>3. CASE main' = "checking" /\ UNCHANGED <<after, executeVars>>
    BY <1>1, <1>8, <2>3 DEF Terminate, Busy, InSyncronize
  <2> QED
    BY <1>8, <2>2, <2>3 DEF Terminate
<1>9. CASE \/ MarkRunning \/ SignalStart \/ EnterLoop \/ ResetTerminate
           \/ Iterate \/ LeaveLoop \/ SelectData \/ SelectTimeout \/ SelectFails
           \/ Drain
           \/ QueueEmpty \/ OpenFile
  BY <1>1, <1>9 DEF MarkRunning, SignalStart, EnterLoop, ResetTerminate,
                    Iterate, LeaveLoop, SelectData, SelectTimeout,
                    SelectFails, Drain,
                    QueueEmpty, OpenFile, SaverMoves, Busy, InSyncronize
<1>10. CASE PopCallback
  <2>1. /\ ~Busy /\ saver' = "callback"
        /\ q # <<>>
        /\ UNCHANGED <<syncSignal, spurious>>
        /\ InSyncronize' <=> InSyncronize
    BY <1>10 DEF PopCallback, Busy, InSyncronize
  <2>2. /\ current' = q[1]
        /\ q' \in Seq(Callbacks)
        /\ Len(q) \in Nat \ {0}
        /\ Len(q') = Len(q) - 1
        /\ \A i \in 1 .. Len(q) - 1 : q'[i] = q[i + 1]
    BY <1>0, <1>10, <2>1, TailFacts DEF PopCallback
  <2>3. ~spurious => ~(InSyncronize /\ syncSignal)
    BY <2>1 DEF SyncInv
  <2>4. ~spurious /\ q[1].type = "sync" => InSyncronize /\ ~syncSignal /\ q' = <<>>
    <3>1. 1 \in 1 .. Len(q)
      BY <2>2
    <3>2. ~spurious /\ q[1].type = "sync" => InSyncronize /\ ~syncSignal /\ 1 = Len(q)
      BY <3>1 DEF SyncInv
    <3>3. Len(q') = 0 => q' = <<>>
      BY <2>2
    <3> QED
      BY <2>2, <3>2, <3>3
  <2>5. ASSUME NEW i \in 1 .. Len(q'), ~spurious, q'[i].type = "sync"
        PROVE  InSyncronize /\ ~syncSignal /\ i = Len(q')
    <3>1. i + 1 \in 1 .. Len(q) /\ q'[i] = q[i + 1]
      BY <2>2
    <3>2. InSyncronize /\ ~syncSignal /\ i + 1 = Len(q)
      BY <2>5, <3>1 DEF SyncInv
    <3> QED
      BY <2>2, <3>2
  <2> QED
    BY <2>1, <2>2, <2>3, <2>4, <2>5 DEF SyncInv
<1>11. CASE WriteFile \/ OpenFails \/ SetTerminate
  <2>1. /\ Busy /\ ~Busy'
        /\ UNCHANGED <<m_incoming_queue, syncSignal, spurious>>
        /\ InSyncronize' <=> InSyncronize
    BY <1>11 DEF WriteFile, OpenFails, SetTerminate, Return, Busy, InSyncronize
  <2> QED
    BY <2>1 DEF SyncInv
<1>12. CASE CompleteSyncronization
  <2>1. /\ Busy /\ ~Busy' /\ current.type = "sync"
        /\ UNCHANGED <<m_incoming_queue, spurious>>
    BY <1>12 DEF CompleteSyncronization, Return, Busy
  <2>2. ~spurious => q = <<>> /\ Len(q) = 0
    BY <2>1 DEF SyncInv
  <2> QED
    BY <2>1, <2>2 DEF SyncInv
<1>13. CASE SyncronizeHangs
  BY <1>13 DEF SyncronizeHangs, SaverMoves, SyncInv
<1>14. CASE UNCHANGED vars
  BY <1>1, <1>14 DEF vars, Busy, InSyncronize
<1> QED
  BY <1>2, <1>3, <1>4, <1>6, <1>7, <1>8, <1>9, <1>10, <1>11, <1>12, <1>13, <1>14
     DEF Next, SaverRuns

\* The loop is left by itself only after Terminate, when nobody asks for more,
\* and with an empty queue.
LEMMA EndStep == ThreadInv /\ Typed /\ EndInv /\ [Next]_vars => EndInv'
<1> SUFFICES ASSUME ThreadInv, Typed, EndInv, [Next]_vars PROVE EndInv'
  OBVIOUS
<1> USE DEF mainVars, threadVars, loopVars, executeVars, clientVars, endVars
<1> DEFINE q == m_incoming_queue
<1>0. q \in Seq(Callbacks) /\ Len(q) \in Nat
  BY DEF Typed
<1>1. ASSUME UNCHANGED <<m_incoming_queue, current, m_terminate, saver, broken>>,
             Closing => Closing'
      PROVE  EndInv'
  BY <1>1, Zenon DEF EndInv, Busy
<1>2. CASE \/ StartFails \/ StartReturns \/ SyncronizeReturns \/ Kick \/ Join
           \/ JoinReturns
  BY <1>1, <1>2 DEF StartFails, StartReturns, SyncronizeReturns, Kick, Join,
                    JoinReturns, Closing
<1>3. CASE Start
  BY <1>3 DEF Start, EndInv, ThreadInv, Busy, Closing
<1>4. ASSUME NEW c \in Callbacks, NEW next, main = "ready", Push(c, next),
             UNCHANGED <<saver, current, m_terminate, broken>>,
             c.type = "terminate" => next = "checking" /\ m_is_running
      PROVE  EndInv'
  <2>1. /\ q' = Append(q, c) /\ main' = "kick" /\ after' = next
        /\ ~Closing
    BY <1>4 DEF Push, Closing
  <2>2. /\ Len(q') = Len(q) + 1
        /\ \A i \in 1 .. Len(q) : q'[i] = q[i]
        /\ q'[Len(q) + 1] = c
    BY <1>0, <1>4, <2>1, AppendFacts
  <2>3. \A i \in 1 .. Len(q) : q[i].type # "terminate"
    BY <2>1 DEF EndInv
  <2>4. ~(Busy /\ current.type = "terminate") /\ ~m_terminate
    BY <2>1 DEF EndInv
  <2>5. \A i \in 1 .. Len(q') : i \in 1 .. Len(q) \/ i = Len(q) + 1
    BY <1>0, <2>2
  <2>6. \A i \in 1 .. Len(q') : q'[i].type = "terminate" => Closing'
    BY <1>4, <2>1, <2>2, <2>3, <2>5 DEF Closing
  <2> QED
    BY <1>4, <2>4, <2>6 DEF EndInv, Busy
<1>5. ASSUME NEW f \in Files, SavePreferences(f) PROVE EndInv'
  <2> DEFINE c == [type |-> "save", file |-> f, version |-> version[f] + 1]
  <2>1. /\ c \in Callbacks /\ c.type # "terminate"
        /\ Push(c, "ready") /\ main = "ready"
        /\ UNCHANGED <<saver, current, m_terminate, broken>>
    BY <1>5, ConstantsAssumption DEF SavePreferences, Push, Callbacks, Typed
  <2> QED
    BY <1>4, <2>1
<1>6. CASE Syncronize
  <2>1. [type |-> "sync"] \in Callbacks /\ [type |-> "sync"].type # "terminate"
    BY DEF Callbacks
  <2> QED
    BY <1>4, <1>6, <2>1 DEF Syncronize
<1>7. CASE Terminate
  <2>1. [type |-> "terminate"] \in Callbacks
    BY DEF Callbacks
  <2>2. CASE m_is_running /\ Push([type |-> "terminate"], "checking")
    BY <1>4, <1>7, <2>1, <2>2 DEF Terminate
  <2>3. CASE main' = "checking" /\ UNCHANGED <<after, executeVars>>
    BY <1>1, <1>7, <2>3 DEF Terminate, Closing
  <2> QED
    BY <1>7, <2>2, <2>3 DEF Terminate
<1>8. CASE \/ MarkRunning \/ SignalStart \/ EnterLoop \/ Iterate \/ LeaveLoop
           \/ SelectData \/ SelectTimeout \/ SelectFails
           \/ Drain \/ QueueEmpty
  BY <1>8 DEF MarkRunning, SignalStart, EnterLoop, Iterate, LeaveLoop,
              SelectData, SelectTimeout, SelectFails, Drain, QueueEmpty,
              SaverMoves, Busy,
              Closing, EndInv
<1>9. CASE ResetTerminate
  <2>1. ~m_terminate'
    BY <1>9, Zenon DEF ResetTerminate
  <2> QED
    BY <1>9, <2>1 DEF ResetTerminate, EndInv, Busy, Closing
<1>10. CASE PopCallback
  <2>1. /\ ~Busy /\ saver = "execute" /\ saver' = "callback"
        /\ q # <<>>
        /\ UNCHANGED m_terminate
        /\ Closing' <=> Closing
    BY <1>10 DEF PopCallback, Busy, Closing
  <2>2. /\ current' = q[1]
        /\ Len(q) \in Nat \ {0}
        /\ Len(q') = Len(q) - 1
        /\ \A i \in 1 .. Len(q) - 1 : q'[i] = q[i + 1]
    BY <1>0, <1>10, <2>1, TailFacts DEF PopCallback
  <2>3. /\ 1 \in 1 .. Len(q)
        /\ \A i \in 1 .. Len(q') : i + 1 \in 1 .. Len(q) /\ q'[i] = q[i + 1]
    BY <2>2
  <2>4. \A i \in 1 .. Len(q') : q'[i].type = "terminate" => Closing'
    BY <2>1, <2>3 DEF EndInv
  <2>5. current'.type = "terminate" => Closing'
    BY <2>1, <2>2, <2>3 DEF EndInv
  <2> QED
    BY <2>1, <2>4, <2>5 DEF EndInv
<1>11. CASE OpenFile \/ SyncronizeHangs
  <2>1. /\ saver = "callback" /\ saver' \in {"writing", "stuck"}
        /\ UNCHANGED <<m_incoming_queue, current, m_terminate>>
        /\ Closing' <=> Closing
    BY <1>11 DEF OpenFile, SyncronizeHangs, SaverMoves, Closing
  <2> QED
    BY <2>1 DEF EndInv, Busy
<1>12. CASE WriteFile \/ OpenFails \/ CompleteSyncronization
  <2>1. /\ ~Busy' /\ saver' = "execute"
        /\ UNCHANGED <<m_incoming_queue, m_terminate>>
        /\ Closing' <=> Closing
    BY <1>12 DEF WriteFile, OpenFails, CompleteSyncronization, Return, Busy,
                 Closing
  <2> QED
    BY <2>1 DEF EndInv
<1>13. CASE SetTerminate
  <2>1. /\ Busy /\ current.type = "terminate" /\ ~Busy' /\ saver' = "execute"
        /\ UNCHANGED m_incoming_queue
        /\ Closing' <=> Closing
    BY <1>13 DEF SetTerminate, Return, Busy, Closing
  <2>2. Closing'
    BY <2>1 DEF EndInv
  <2> QED
    BY <2>1, <2>2 DEF EndInv
<1>14. CASE UNCHANGED vars
  BY <1>1, <1>14 DEF vars, Closing
<1> QED
  BY <1>2, <1>3, <1>5, <1>6, <1>7, <1>8, <1>9, <1>10, <1>11, <1>12, <1>13, <1>14
     DEF Next, SaverRuns

\* The inductive invariant behind SavedOnReturn.
SavedInv == ThreadInv /\ Data /\ SyncInv /\ EndInv

\* It holds before Start: nothing was asked for and nothing was written.
LEMMA SavedInit == Init => SavedInv
<1> SUFFICES ASSUME Init PROVE SavedInv
  OBVIOUS
<1>1. /\ m_incoming_queue = <<>> /\ Len(m_incoming_queue) = 0
      /\ saver = "none" /\ main = "new" /\ after = "ready"
      /\ version = [f \in Files |-> 0] /\ disk = [f \in Files |-> 0]
      /\ ~Busy
  BY DEF Init, Busy
<1>2. ~m_terminate /\ ~startSignal
  BY Zenon DEF Init
<1>3. ThreadInv
  BY <1>1, <1>2 DEF ThreadInv
<1>4. Data
  BY <1>1 DEF Data, Typed, Ordered, OnItsWay, Unasked, Saved
<1>5. SyncInv
  BY <1>1 DEF SyncInv, InSyncronize
<1>6. EndInv
  BY <1>1, <1>2 DEF EndInv
<1> QED
  BY <1>3, <1>4, <1>5, <1>6 DEF SavedInv

\* When Syncronize is signalled its callback has run, when Join returns the
\* loop has ended: either way no save is under way, and none waits unless
\* select() failed.
LEMMA SavedEnough == SavedInv => ReturnedMeansSaved
<1> SUFFICES ASSUME SavedInv, ~spurious,
                    main = "joined" \/ (main = "syncing" /\ syncSignal),
                    NEW f \in Files
             PROVE  Saved(f) \/ (main = "joined" /\ broken /\ Queued(f))
  BY DEF ReturnedMeansSaved
<1>1. ~Busy /\ (m_incoming_queue = <<>> \/ (main = "joined" /\ broken))
  <2>1. CASE main = "joined"
    BY <2>1 DEF SavedInv, ThreadInv, EndInv, Busy
  <2>2. CASE main = "syncing" /\ syncSignal
    BY <2>2 DEF SavedInv, SyncInv, InSyncronize
  <2> QED
    BY <2>1, <2>2
<1>2. m_incoming_queue = <<>> => Len(m_incoming_queue) = 0
  OBVIOUS
<1> QED
  BY <1>1, <1>2 DEF SavedInv, Data, OnItsWay, Queued, Running

\* Syncronize and Join keep their promise: when they return, every file holds
\* the last version that SavePreferences was given, for any files and any
\* number of saves, unless a wait ended without a signal or, for Join, the
\* save was still queued when select() failed.
THEOREM SavedOnReturn == Spec => []ReturnedMeansSaved
<1>1. SavedInv /\ [Next]_vars => SavedInv'
  <2> SUFFICES ASSUME SavedInv, [Next]_vars PROVE SavedInv'
    OBVIOUS
  <2>1. ThreadInv /\ Data /\ Typed /\ SyncInv /\ EndInv
    BY DEF SavedInv, Data
  <2> QED
    BY <2>1, ThreadStep, DataStep, SyncStep, EndStep DEF SavedInv
<1> QED
  BY <1>1, SavedInit, SavedEnough, PTL DEF Spec
=============================================================================
