----------------------------- MODULE IncReduce -----------------------------
(***************************************************************************)
(* In-network all-reduce: every participant sends each block of its vector *)
(* up a tree of switches, a switch sums what its children send and passes  *)
(* one packet on, and the switch that covers all participants multicasts   *)
(* the sum down again.                                                     *)
(* Source: sim/datacenter/inc_switch.cpp (IncSwitch), sim/uec_inc_src.cpp  *)
(* (UecIncSrc) and the parts of UecSrc it inherits in sim/uec.cpp.         *)
(*                                                                         *)
(* A sum is kept as the number of times each participant entered it.  A    *)
(* switch sends up on its shortest queue: whichever that is.  When a source *)
(* sends is left open: its window, set to more than any flow's size         *)
(* (main_inc_uec.cpp, 864-866) but only ever lowered, and the NIC (see      *)
(* UecIncNIC) decide.  Time is left out: a running timer may expire.        *)
(***************************************************************************)
EXTENDS Integers, Sequences, FiniteSets, FiniteSetsExt

CONSTANTS
    Hosts,        \* _job_participants
    Switches,
    Ups,          \* the switches a host or a switch is linked up to
    Below,        \* the participants below each switch
    NBlocks,      \* packets of each flow
    MaxMishaps    \* bound: timers that expire and packets that full queues drop

Under(n) == IF n \in Hosts THEN {n} ELSE Below[n]

\* calculate_expected_children counts these, get_multicast_ports lists the ports to them.
Children(s) == {n \in Hosts \cup Switches : s \in Ups[n] /\ Under(n) # {}}

ASSUME TreeAssumption ==
    /\ IsFiniteSet(Hosts) /\ Hosts # {} /\ IsFiniteSet(Switches)
    /\ Hosts \cap Switches = {}
    /\ Ups \in [Hosts \cup Switches -> SUBSET Switches]
    /\ Below \in [Switches -> SUBSET Hosts]
    /\ \A h \in Hosts : Cardinality(Ups[h]) = 1
    /\ \A s \in Switches :
          /\ Below[s] = UNION {Under(n) : n \in Children(s)}
          /\ \A m, n \in Children(s) : m = n \/ Under(m) \cap Under(n) = {}
          /\ Ups[s] = {} => Below[s] = Hosts
    /\ NBlocks \in Nat /\ MaxMishaps \in Nat

\* The network is a fat tree (IncFatTreeTopology), so its tiers are the same on
\* every way up: no child of t is linked past a switch that covers more than the
\* child does and less than t.
ASSUME TierAssumption ==
    \A s, t \in Switches : \A n \in Children(t) :
        Under(n) \cap Below[s] # {} =>
            Below[s] \subseteq Under(n) \/ Below[t] \subseteq Below[s]

Blocks == 0 .. NBlocks - 1
Links == {l \in (Hosts \cup Switches) \X Switches : l[1] \in Children(l[2])}

VARIABLES
    up,         \* contributions on each link (queue and pipe), oldest first
    down,       \* results on each link, oldest first
    table,      \* _aggregation_table: the sum and received_flows of each block
    completed,  \* _completed_blocks
    flow,       \* what each source remembers of its packets
    got,        \* the results each participant received, in order
    stopped,    \* the program failed an assertion
    timeouts, drops

switches == <<table, completed>>
reduceVars == <<up, down, table, completed, flow, got, stopped, timeouts, drops>>

Nothing == [h \in Hosts |-> 0]
From(h) == [g \in Hosts |-> IF g = h THEN 1 ELSE 0]
Plus(d, e) == [h \in Hosts |-> d[h] + e[h]]
Empty == [data |-> Nothing, from |-> {}]

-----------------------------------------------------------------------------
(* The sources.  A source keeps the blocks it has sent (next), those with  *)
(* a send record, those queued to be sent again, and what its timer was    *)
(* set for (_rto_send_time): a block with a record, or a retransmission.   *)

Off == -1        \* no timer is pending
Again == NBlocks \* set when a block was sent again

Tor(h) == CHOOSE s \in Switches : s \in Ups[h]

\* startRTO: a running timer keeps what it was set for.
Armed(t, what) == IF t = Off THEN what ELSE t

Earliest(records) == IF records = {} THEN Off ELSE Min(records)

SendNew(h) ==
    /\ flow[h].next < NBlocks /\ flow[h].rtx = {}
    /\ LET b == flow[h].next
       IN  /\ flow' = [flow EXCEPT ![h].next = b + 1, ![h].records = @ \cup {b},
                                   ![h].timer = Armed(@, b)]
           /\ up' = [up EXCEPT ![<<h, Tor(h)>>] = Append(@, [block |-> b, data |-> From(h)])]
    /\ UNCHANGED <<down, switches, got, timeouts, drops>>

\* The block is marked as if new, with the timer started but no send record.
SendRtx(h) ==
    /\ flow[h].rtx # {}
    /\ LET b == Min(flow[h].rtx)
       IN  /\ flow' = [flow EXCEPT ![h].rtx = @ \ {b}, ![h].timer = Armed(@, Again)]
           /\ up' = [up EXCEPT ![<<h, Tor(h)>>] = Append(@, [block |-> b, data |-> From(h)])]
    /\ UNCHANGED <<down, switches, got, timeouts, drops>>

\* rtxTimerExpired: the oldest recorded block is queued again.
RtxTimerExpired(h) ==
    /\ flow[h].timer # Off /\ timeouts + drops < MaxMishaps
    /\ timeouts' = timeouts + 1
    /\ IF flow[h].records = {}
       THEN stopped' = TRUE /\ UNCHANGED flow
       ELSE LET b == Min(flow[h].records)
                left == flow[h].records \ {b}
            IN  /\ flow' = [flow EXCEPT ![h].records = left, ![h].rtx = @ \cup {b},
                                        ![h].timer = Earliest(left)]
                /\ UNCHANGED stopped
    /\ UNCHANGED <<up, down, switches, got, drops>>

\* Mutant: the made-up acknowledgement leaves the timer as it is when the flow is done.
ResultTimerLeft(r, b, left) == IF r.timer \in r.records \ left THEN Earliest(left) ELSE r.timer

\* The timer is set anew if its block is acknowledged, and cancelled when the flow is done.
ResultTimer(r, b, left) ==
    IF b = NBlocks - 1 THEN Off
    ELSE IF r.timer \in r.records \ left THEN Earliest(left)
    ELSE r.timer

\* UecIncSrc::receivePacket: a result stands for a cumulative acknowledgement
\* of its block and of every earlier one.
Result(h) ==
    /\ down[<<h, Tor(h)>>] # <<>>
    /\ LET b == Head(down[<<h, Tor(h)>>]).block
           left == {x \in flow[h].records : x > b}
       IN  flow' = [flow EXCEPT ![h].records = left,
                                ![h].rtx = {x \in @ : x > b},
                                ![h].timer = ResultTimer(flow[h], b, left)]
    /\ got' = [got EXCEPT ![h] = Append(@, Head(down[<<h, Tor(h)>>]))]
    /\ down' = [down EXCEPT ![<<h, Tor(h)>>] = Tail(@)]
    /\ UNCHANGED <<up, switches, timeouts, drops>>

-----------------------------------------------------------------------------
(* The switches.                                                           *)

\* Mutant: complete one child early.
IsWholeEarly(s, from) == Cardinality(from) + 1 >= Cardinality(Children(s))

\* Mutant: one child more is awaited than there are.
IsWholeLate(s, from) == Cardinality(from) > Cardinality(Children(s))

IsWhole(s, from) == Cardinality(from) >= Cardinality(Children(s))

IsOld(s, b) == b \in completed[s]

\* send_multicast_down: one copy to every child.
Multicast(d, s, b, data) ==
    [l \in Links |-> IF l[2] = s THEN Append(d[l], [block |-> b, data |-> data]) ELSE d[l]]

\* The block is whole: its entry is closed, and the sum goes down if the
\* switch covers everybody, or else up on some port.
Close(s, b, data, u) ==
    /\ completed' = [completed EXCEPT ![s] = @ \cup {b}]
    /\ table' = [table EXCEPT ![s][b] = Empty]
    /\ IF Below[s] = Hosts
       THEN down' = Multicast(down, s, b, data) /\ up' = u
       ELSE /\ \E t \in Ups[s] : up' = [u EXCEPT ![<<s, t>>] = Append(@, [block |-> b, data |-> data])]
            /\ UNCHANGED down

\* handle_inc_packet: the packet of child n is added, and then n to the set.
Contribution(n, s) ==
    /\ up[<<n, s>>] # <<>>
    /\ LET p == Head(up[<<n, s>>])
           b == p.block
           u == [up EXCEPT ![<<n, s>>] = Tail(@)]
           data == Plus(table[s][b].data, p.data)
           from == table[s][b].from \cup {n}
       IN  IF IsOld(s, b) THEN up' = u /\ UNCHANGED <<down, switches>>
           ELSE IF IsWhole(s, from) THEN Close(s, b, data, u)
           ELSE /\ table' = [table EXCEPT ![s][b] = [data |-> data, from |-> from]]
                /\ up' = u
                /\ UNCHANGED <<down, completed>>
    /\ UNCHANGED <<flow, got, timeouts, drops>>

\* A result that comes down to switch s is multicast on.
PassDown(s, t) ==
    /\ down[<<s, t>>] # <<>>
    /\ LET r == Head(down[<<s, t>>])
       IN  down' = Multicast([down EXCEPT ![<<s, t>>] = Tail(@)], s, r.block, r.data)
    /\ UNCHANGED <<up, switches, flow, got, timeouts, drops>>

\* A queue between switches, or from a switch to a host, is full.
Drop(l) ==
    /\ timeouts + drops < MaxMishaps
    /\ \/ /\ up[l] # <<>> /\ l[1] \in Switches
          /\ up' = [up EXCEPT ![l] = Tail(@)] /\ UNCHANGED down
       \/ /\ down[l] # <<>>
          /\ down' = [down EXCEPT ![l] = Tail(@)] /\ UNCHANGED up
    /\ drops' = drops + 1
    /\ UNCHANGED <<switches, flow, got, timeouts>>

-----------------------------------------------------------------------------
ReduceInit ==
    /\ up = [l \in Links |-> <<>>] /\ down = [l \in Links |-> <<>>]
    /\ table = [s \in Switches |-> [b \in Blocks |-> Empty]]
    /\ completed = [s \in Switches |-> {}]
    /\ flow = [h \in Hosts |-> [next |-> 0, records |-> {}, rtx |-> {}, timer |-> Off]]
    /\ got = [h \in Hosts |-> <<>>]
    /\ stopped = FALSE /\ timeouts = 0 /\ drops = 0

Goes(A) == ~stopped /\ A /\ UNCHANGED stopped

ReduceNext ==
    \/ \E h \in Hosts :
          \/ Goes(SendNew(h)) \/ Goes(SendRtx(h)) \/ Goes(Result(h))
          \/ ~stopped /\ RtxTimerExpired(h)
    \/ \E l \in Links : Goes(Contribution(l[1], l[2])) \/ Goes(Drop(l))
    \/ \E l \in {k \in Links : k[1] \in Switches} : Goes(PassDown(l[1], l[2]))

ReduceSpec == ReduceInit /\ [][ReduceNext]_reduceVars

-----------------------------------------------------------------------------
(* Properties.                                                             *)

Elements(q) == {q[i] : i \in DOMAIN q}

\* Results on their way and received.
Results == (UNION {Elements(down[l]) : l \in Links}) \cup (UNION {Elements(got[h]) : h \in Hosts})

\* All-reduce: a result counts every participant, and each of them once unless
\* a timer made somebody send a block twice; a block has one sum, and however
\* often its packets are repeated nobody is given it twice.
EveryoneCounted ==
    /\ \A r \in Results, h \in Hosts :
          r.data[h] >= 1 /\ (timeouts = 0 => r.data[h] = 1)
    /\ \A q, r \in Results : q.block = r.block => q.data = r.data
    /\ \A h \in Hosts : \A i, j \in DOMAIN got[h] : got[h][i].block = got[h][j].block => i = j

\* The timer of a source runs while a block has a send record, and is set for a
\* recorded block or a retransmission; a source that has had the last block's
\* result waits for nothing more.
SourceSettles ==
    \A h \in Hosts :
        /\ flow[h].records # {} => flow[h].timer # Off
        /\ flow[h].timer \in flow[h].records \cup {Again, Off}
        /\ (\E r \in Elements(got[h]) : r.block = NBlocks - 1) =>
              flow[h].timer = Off /\ flow[h].records = {} /\ flow[h].rtx = {}

\* Two switches that cover the same participants each hold a part of block b.
Split(b) ==
    \E s, t \in Switches : s # t /\ Below[s] = Below[t] /\
        table[s][b].from # {} /\ table[t][b].from # {}

\* The table keeps no block back: once the links are empty, a block that
\* everybody has sent has been reduced and its sum has reached everybody, unless
\* a full queue dropped a packet or the parts took different ways up.  (Packets
\* only ever leave the links, so they do become empty.)
NothingHeldBack ==
    ~stopped /\ (\A l \in Links : up[l] = <<>> /\ down[l] = <<>>) =>
        \A b \in Blocks :
            (\A h \in Hosts : flow[h].next > b) =>
                \/ drops > 0 \/ Split(b)
                \/ \A h \in Hosts : \E r \in Elements(got[h]) : r.block = b

=============================================================================
