--------------------------- MODULE UniverseMerge ---------------------------
(***************************************************************************)
(* How a Universe turns the DMX frames of its input ports and source       *)
(* clients into the one frame its outputs get (olad/Universe.cpp, with     *)
(* Port.cpp, DmxSource.h and the housekeeping of OlaServer.cpp): priority  *)
(* first, then HTP (highest value per slot) or LTP (latest frame).         *)
(*                                                                         *)
(* Time is kept as ages: `age' is the time since the frame's timestamp.    *)
(* MergeAll passes over a source that never had data and one that timed    *)
(* out alike, so both are NotActive here and ages stay below the timeout.  *)
(* The universe has an output port throughout, so it is never collected.   *)
(***************************************************************************)
EXTENDS Integers, Sequences, FiniteSets, SequencesExt

CONSTANTS
    InputPorts,        \* the input ports that may be patched
    ClientOrder,       \* the clients, in the order of the source client map
    Frames,            \* the DMX frames sources send: sequences of slots
    Priorities,        \* the priorities sources send with
    TIMEOUT_INTERVAL,  \* DmxSource's timeout, in ticks
    HOUSEKEEPING,      \* OlaServer's K_HOUSEKEEPING_TIMEOUT_MS, in ticks
    Lags               \* how far the clock may be ahead of the wake up time

SOURCE_PRIORITY_MIN == 0
Clients == Range(ClientOrder)
Sources == InputPorts \cup Clients

\* Housekeeping runs every 10s and a source times out after 2.5s.
ASSUME ConstantsAssumption ==
    /\ InputPorts \cap Clients = {}
    /\ \A f \in Frames : f \in Seq(Nat)
    /\ Priorities \subseteq Nat
    /\ TIMEOUT_INTERVAL \in Nat \ {0}
    /\ HOUSEKEEPING \in Nat
    /\ HOUSEKEEPING >= TIMEOUT_INTERVAL
    /\ \A lag \in Lags : lag \in 0 .. TIMEOUT_INTERVAL - 1

VARIABLES
    m_input_ports,      \* the patched input ports, in the order of patching
    m_source_clients,   \* client -> is it stale?
    m_merge_mode,
    m_active_priority,
    m_buffer,
    source,             \* the DmxSource each port and client holds
    elapsed,            \* time since the last housekeeping
    sent                \* what UpdateDependants last wrote to the outputs

vars == <<m_input_ports, m_source_clients, m_merge_mode, m_active_priority,
          m_buffer, source, elapsed, sent>>

-----------------------------------------------------------------------------
(* Types *)

NotActive == [age |-> TIMEOUT_INTERVAL]
DmxSource == [data: Frames, priority: Priorities,
              age: 0 .. TIMEOUT_INTERVAL - 1]
AllPriorities == Priorities \cup {SOURCE_PRIORITY_MIN}
Buffer == Seq(Nat)

\* Type invariant; in addition the outputs hold the universe's own buffer.
TypeOK ==
    /\ IsInjective(m_input_ports)
    /\ Range(m_input_ports) \subseteq InputPorts
    /\ DOMAIN m_source_clients \subseteq Clients
    /\ Range(m_source_clients) \subseteq BOOLEAN
    /\ m_merge_mode \in {"LTP", "HTP"}
    /\ m_active_priority \in AllPriorities
    /\ m_buffer \in Buffer
    /\ source \in [Sources -> DmxSource \cup {NotActive}]
    /\ elapsed \in 0 .. HOUSEKEEPING
    /\ sent.priority \in AllPriorities
    /\ sent.data = m_buffer

Init ==
    /\ m_input_ports = <<>>
    /\ m_source_clients = <<>>
    /\ m_merge_mode = "LTP"
    /\ m_active_priority = SOURCE_PRIORITY_MIN
    /\ m_buffer = <<>>
    /\ source = [s \in Sources |-> NotActive]
    /\ elapsed = 0
    /\ sent = [data |-> <<>>, priority |-> SOURCE_PRIORITY_MIN]

-----------------------------------------------------------------------------
(* Merging *)

Slots(a, b) == 1 .. (IF Len(a) > Len(b) THEN Len(a) ELSE Len(b))
Slot(a, i) == IF i <= Len(a) THEN a[i] ELSE 0

\* Mutant: slots past the end of the second frame are lost.
HTPMergeShort(a, b) ==
    [i \in 1 .. Len(b) |-> IF Slot(a, i) > b[i] THEN Slot(a, i) ELSE b[i]]

\* The larger value of every slot; the slots past the end of the shorter
\* frame are those of the longer one.
HTPMerge(a, b) ==
    [i \in Slots(a, b) |->
        IF Slot(a, i) > Slot(b, i) THEN Slot(a, i) ELSE Slot(b, i)]

HTPMergeSources(src, sources) ==
    FoldLeft(LAMBDA buffer, s : HTPMerge(buffer, src[s].data), <<>>, sources)

\* IsSet() and IsActive(now), where now is `lag' after the wake up time.
IsActive(src, s, lag) == src[s].age + lag < TIMEOUT_INTERVAL

Usable(src, s, lag) == IsActive(src, s, lag) /\ src[s].data # <<>>

\* Mutant: a higher priority does not reset changed_source_is_active.
FoundKeepsChanged(src, acc, s, changed) ==
    CASE src[s].priority > acc.priority ->
            [priority |-> src[s].priority, active |-> <<s>>,
             changed |-> acc.changed \/ s = changed]
      [] src[s].priority = acc.priority ->
            [acc EXCEPT !.active = Append(@, s),
                        !.changed = @ \/ s = changed]
      [] OTHER -> acc

\* One source of the scan for the highest priority: a higher priority starts
\* the list of active sources again.
Found(src, acc, s, changed) ==
    CASE src[s].priority > acc.priority ->
            [priority |-> src[s].priority, active |-> <<s>>,
             changed |-> s = changed]
      [] src[s].priority = acc.priority ->
            [acc EXCEPT !.active = Append(@, s),
                        !.changed = @ \/ s = changed]
      [] OTHER -> acc

\* The scan over the ports and then the clients.
ActiveSources(src, clients, changed, lag) ==
    FoldLeft(LAMBDA acc, s : Found(src, acc, s, changed),
             [priority |-> SOURCE_PRIORITY_MIN, active |-> <<>>,
              changed |-> FALSE],
             SelectSeq(m_input_ports
                           \o SelectSeq(ClientOrder,
                                        LAMBDA c : c \in DOMAIN clients),
                       LAMBDA s : Usable(src, s, lag)))

\* MergeAll and, if it returns true, UpdateDependants.  `src' and `clients'
\* are the sources and source clients once `changed' has its new frame.
MergeAll(src, clients, changed) ==
    \E lag \in Lags :
        LET found == ActiveSources(src, clients, changed, lag)
            newer(s) == src[s].age < src[changed].age
            merged ==
                IF m_merge_mode = "HTP" /\ Len(found.active) > 1
                THEN HTPMergeSources(src, found.active)
                ELSE src[changed].data
            effective ==
                /\ found.changed
                /\ Len(found.active) > 1 /\ m_merge_mode = "LTP"
                       => ~ \E s \in Range(found.active) : newer(s)
        IN  /\ m_active_priority' = found.priority
            /\ m_buffer' = IF effective THEN merged ELSE m_buffer
            /\ sent' = IF effective
                       THEN [data |-> merged, priority |-> found.priority]
                       ELSE sent

-----------------------------------------------------------------------------
(* New data *)

\* BasicInputPort::DmxChanged and PortDataChanged.
DmxChanged(p) ==
    /\ p \in Range(m_input_ports)
    /\ \E frame \in Frames, priority \in Priorities :
          source' = [source EXCEPT ![p] = [data |-> frame, age |-> 0,
                                           priority |-> priority]]
    /\ MergeAll(source', m_source_clients, p)
    /\ UNCHANGED <<m_input_ports, m_source_clients, m_merge_mode, elapsed>>

\* Mutant: the stale flag of a known client is not cleared.
AddNewSourceClient(c) ==
    [d \in DOMAIN m_source_clients \cup {c} |->
        d \in DOMAIN m_source_clients /\ m_source_clients[d]]

\* A client that is there already is no longer stale.
AddSourceClient(c) ==
    [d \in DOMAIN m_source_clients \cup {c} |->
        IF d = c THEN FALSE ELSE m_source_clients[d]]

\* UpdateDmxData, StreamDmxData and SourceClientDataChanged.
UpdateDmxData(c) ==
    /\ \E frame \in Frames, priority \in Priorities :
          source' = [source EXCEPT ![c] = [data |-> frame, age |-> 0,
                                           priority |-> priority]]
    /\ m_source_clients' = AddSourceClient(c)
    /\ MergeAll(source', m_source_clients', c)
    /\ UNCHANGED <<m_input_ports, m_merge_mode, elapsed>>

-----------------------------------------------------------------------------
(* Ports, clients and settings come and go; none of these merges again. *)

unmerged == <<m_active_priority, m_buffer, sent>>

\* A port keeps its DmxSource when it is unpatched.
AddPort(p) ==
    /\ p \notin Range(m_input_ports)
    /\ m_input_ports' = Append(m_input_ports, p)
    /\ UNCHANGED <<m_source_clients, m_merge_mode, source, elapsed, unmerged>>

RemovePort(p) ==
    /\ p \in Range(m_input_ports)
    /\ m_input_ports' = SelectSeq(m_input_ports, LAMBDA q : q # p)
    /\ UNCHANGED <<m_source_clients, m_merge_mode, source, elapsed, unmerged>>

\* The connection is closed: the client leaves and its Client object goes.
CleanupConnection(c) ==
    /\ m_source_clients' = [d \in DOMAIN m_source_clients \ {c} |->
                               m_source_clients[d]]
    /\ source' = [source EXCEPT ![c] = NotActive]
    /\ UNCHANGED <<m_input_ports, m_merge_mode, elapsed, unmerged>>

SetMergeMode(mode) ==
    /\ m_merge_mode' = mode
    /\ UNCHANGED <<m_input_ports, m_source_clients, source, elapsed, unmerged>>

\* Mutant: the stale flag is never set.
CleanStaleMarksNone ==
    m_source_clients

\* A client that was stale at the last housekeeping and still is goes; the
\* others are stale until they send.
CleanStaleSourceClients ==
    [c \in {d \in DOMAIN m_source_clients : ~ m_source_clients[d]} |-> TRUE]

\* OlaServer::RunHousekeeping, every K_HOUSEKEEPING_TIMEOUT_MS or later.
RunHousekeeping ==
    /\ elapsed >= HOUSEKEEPING
    /\ m_source_clients' = CleanStaleSourceClients
    /\ elapsed' = 0
    /\ UNCHANGED <<m_input_ports, m_merge_mode, source, unmerged>>

\* Mutant: IsActive never turns false.
TickNoTimeout ==
    /\ source' = [s \in Sources |->
                     IF source[s].age + 1 < TIMEOUT_INTERVAL
                     THEN [source[s] EXCEPT !.age = @ + 1]
                     ELSE source[s]]
    /\ elapsed' = IF elapsed < HOUSEKEEPING THEN elapsed + 1 ELSE elapsed
    /\ UNCHANGED <<m_input_ports, m_source_clients, m_merge_mode, unmerged>>

\* The wake up time moves on; a source times out TIMEOUT_INTERVAL after its
\* timestamp.
Tick ==
    /\ source' = [s \in Sources |->
                     IF source[s].age + 1 < TIMEOUT_INTERVAL
                     THEN [source[s] EXCEPT !.age = @ + 1]
                     ELSE NotActive]
    /\ elapsed' = IF elapsed < HOUSEKEEPING THEN elapsed + 1 ELSE elapsed
    /\ UNCHANGED <<m_input_ports, m_source_clients, m_merge_mode, unmerged>>

Next ==
    \/ \E p \in InputPorts : DmxChanged(p) \/ AddPort(p) \/ RemovePort(p)
    \/ \E c \in Clients : UpdateDmxData(c) \/ CleanupConnection(c)
    \/ \E mode \in {"LTP", "HTP"} : SetMergeMode(mode)
    \/ RunHousekeeping
    \/ Tick

Spec == Init /\ [][Next]_vars

\* Time passes and SelectServer runs the housekeeping timer when it is due.
FairSpec == Spec /\ WF_vars(Tick) /\ WF_vars(RunHousekeeping)

-----------------------------------------------------------------------------
(* Properties *)

Bound == Range(m_input_ports) \cup DOMAIN m_source_clients

\* A frame goes out at a priority no live source of the universe exceeds, and
\* in LTP mode it is the newest frame of a source that sent it with that very
\* priority: a lower priority never overrides a live higher one nor goes out
\* under its name, whatever the order in which ports and clients are scanned,
\* patched and time out.  (A source is surely live if no lag makes it time
\* out.)
TopPriorityWins ==
    [][ sent' # sent =>
          /\ ~ \E s \in Bound' : /\ \A lag \in Lags : Usable(source', s, lag)
                                 /\ source'[s].priority > sent'.priority
          /\ m_merge_mode = "LTP" =>
                \E s \in Bound' : source'[s] = [data |-> sent'.data, age |-> 0,
                                                 priority |-> sent'.priority]
      ]_vars

\* What goes out in HTP mode is, slot for slot, the highest value any source
\* at the active priority has, and nothing of any other source; it is at
\* least what every one of them surely live asks for.
HTPIsHighest ==
    [][ sent' # sent /\ m_merge_mode = "HTP" =>
          LET Peers == {s \in Bound' : /\ source'[s] # NotActive
                                       /\ source'[s].priority = sent'.priority}
              Live == {s \in Peers : \A lag \in Lags : Usable(source', s, lag)}
          IN  /\ \A s \in Live : Len(source'[s].data) <= Len(sent'.data)
              /\ \A i \in 1 .. Len(sent'.data) :
                    /\ \E s \in Peers : Slot(source'[s].data, i) = sent'.data[i]
                    /\ \A s \in Live :
                          Slot(source'[s].data, i) <= sent'.data[i] ]_vars

Sends(s) == source'[s] # source[s] /\ source'[s].age = 0

\* The last source that keeps sending takes the universe over: once all the
\* others stop they time out, whatever their priority was, and from then on
\* the universe's buffer is the frame the remaining one sent last.
LastSourceTakesOver ==
    \A s \in Sources :
        /\ \A t \in Sources \ {s} : <>[][~ Sends(t)]_vars
        /\ []<><<Sends(s)>>_vars
        => <>[](Usable(source, s, 0) => m_buffer = source[s].data)

\* Housekeeping drops only clients whose data has timed out: the stale flag
\* that decides it is never left over from before the client's last frame.
OnlyTimedOutDropped ==
    [][ RunHousekeeping =>
          \A c \in DOMAIN m_source_clients \ DOMAIN m_source_clients' :
              source[c] = NotActive ]_vars

\* A client that stops sending does not stay a source client for ever.
SilentClientsDropped ==
    \A c \in Clients :
        <>[][~ Sends(c)]_vars => <>[](c \notin DOMAIN m_source_clients)
=============================================================================
