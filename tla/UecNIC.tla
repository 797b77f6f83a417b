------------------------------- MODULE UecNIC -------------------------------
(***************************************************************************)
(* A NIC with several ports shared by the senders (UecSrc) and the control *)
(* packets (acknowledgements, pulls, RTSs) of one host: who is registered, *)
(* who gets a port when one falls idle, and whether senders and NIC agree. *)
(* Source: sim/uec.cpp, UecNIC and the calls UecSrc makes to it, in the    *)
(* sender-based mode.                                                      *)
(*                                                                         *)
(* Of a sender only what decides its calls is kept: packets still to send, *)
(* packets queued to be sent again, packets outstanding, and room, the     *)
(* number of packets its window allows now.  Packets take any time on the  *)
(* wire, so ports fall idle in any order; findFreePort is some free port.  *)
(* A failed assertion of the code sets fault, and the program stops.       *)
(***************************************************************************)
EXTENDS Integers, Sequences, FiniteSets, FiniteSetsExt

CONSTANTS
    Srcs,           \* senders on the host
    Ports,          \* ports of the NIC
    RatioData,      \* _ratio_data
    RatioControl,   \* _ratio_control
    NPkts,          \* packets each sender has to send
    MaxRoom,        \* bound: largest window, in packets
    MaxControl,     \* bound: control packets waiting
    MaxLosses       \* bound: timeouts and NACKs

ASSUME NicAssumption ==
    /\ IsFiniteSet(Ports) /\ Ports # {}
    /\ RatioData \in Nat \ {0} /\ RatioControl \in Nat
    /\ NPkts \in Nat /\ MaxRoom \in Nat /\ MaxControl \in Nat /\ MaxLosses \in Nat

VARIABLES
    host,    \* the NIC and its senders: busy ports, _active_srcs, how many wait in
             \* _control, _crt, the senders' records, and fault
    losses   \* timeouts and NACKs so far

vars == <<host, losses>>

-----------------------------------------------------------------------------
(* The sender's side of a transmission.                                    *)

Work(r) == r.backlog + r.rtx

CanSend(r) == Work(r) > 0 /\ r.room > 0

\* k packets leave, those queued for retransmission first.
Sent(r, k) ==
    LET again == IF k < r.rtx THEN k ELSE r.rtx
    IN  [r EXCEPT !.rtx = @ - again, !.backlog = @ - (k - again),
                  !.room = @ - k, !.flight = @ + k]

Free(h) == Ports \ h.busy

Fails(h, assertion, what) == [h EXCEPT !.fault = IF @ = "none" /\ assertion THEN what ELSE @]

\* startSending, once for each port of q: if anybody is registered it must be f.
StartSending(h, f, q) ==
    LET n == IF Cardinality(q) < Len(h.active) THEN Cardinality(q) ELSE Len(h.active)
    IN  [Fails(h, \E i \in 1 .. n : h.active[i] # f, "not_first")
            EXCEPT !.busy = @ \cup q, !.active = SubSeq(@, n + 1, Len(@))]

\* requestSending with every port busy, and the caller notes that it waits.
Wait(h, f) == [h EXCEPT !.active = Append(@, f), !.src[f].blocked = TRUE]

\* Mutant: a sender whose last port was taken is not registered.
SendIfPermittedOnce(h, f, q) ==
    LET a == Fails(StartSending(h, f, q), q # {} /\ h.control > 0, "control_waiting")
    IN  [a EXCEPT !.src[f] = Sent(@, Cardinality(q))]

\* How many packets sendIfPermitted sends at once: one on every free port.
Permitted(h, f) ==
    IF h.src[f].blocked THEN 0
    ELSE Min({Work(h.src[f]), h.src[f].room, Cardinality(Free(h))})

\* sendIfPermitted, with the ports q that requestSending hands out one by one.
SendIfPermitted(h, f, q) ==
    LET a == Fails(StartSending(h, f, q), q # {} /\ h.control > 0, "control_waiting")
        b == [a EXCEPT !.src[f] = Sent(@, Cardinality(q))]
    IN  IF CanSend(b.src[f]) /\ ~b.src[f].blocked THEN Wait(b, f) ELSE b

-----------------------------------------------------------------------------
(* The NIC's side.                                                         *)

SendControl(h, port) == [h EXCEPT !.control = @ - 1, !.busy = @ \cup {port}]

\* timeToSend for a sender that can send: its packet was given the route of
\* one free port, startSending takes one; a further packet must wait.
SendTurn(h, f, route, port) ==
    LET a == Fails(StartSending(h, f, {port}), route # port, "wrong_port")
        b == [a EXCEPT !.src[f] = [Sent(@, 1) EXCEPT !.blocked = FALSE]]
    IN  IF ~CanSend(b.src[f]) THEN b
        ELSE IF Free(b) = {} THEN Wait(b, f)
        ELSE Fails(b, TRUE, "port_left")

\* Mutant: cantSend forgets the control packets once the list is empty.
DataTurnOnly(h, route, port) ==
    LET able == {i \in DOMAIN h.active : CanSend(h.src[h.active[i]])}
        skipped == IF able = {} THEN Len(h.active) ELSE Min(able) - 1
        g == [h EXCEPT
                !.active = SubSeq(@, skipped + 1, Len(@)),
                !.src = [f \in Srcs |-> [h.src[f] EXCEPT
                    !.blocked = @ /\ \A i \in 1 .. skipped : h.active[i] # f]]]
    IN  IF able # {} THEN SendTurn(g, Head(g.active), route, port) ELSE g

\* The registered senders get their turn: those that cannot send any more drop
\* out (cantSend passes the turn on), the first that can sends; if none can, a
\* control packet takes the port.
DataTurn(h, route, port) ==
    LET able == {i \in DOMAIN h.active : CanSend(h.src[h.active[i]])}
        skipped == IF able = {} THEN Len(h.active) ELSE Min(able) - 1
        g == [h EXCEPT
                !.active = SubSeq(@, skipped + 1, Len(@)),
                !.src = [f \in Srcs |-> [h.src[f] EXCEPT
                    !.blocked = @ /\ \A i \in 1 .. skipped : h.active[i] # f]]]
    IN  IF able # {} THEN SendTurn(g, Head(g.active), route, port)
        ELSE IF h.control > 0 THEN SendControl(g, port)
        ELSE g

\* Mutant: control packets always go first.
IsDataTurnLast(h, crt) == h.control = 0

\* With both kinds waiting, data gets RatioData turns of RatioData + RatioControl.
IsDataTurn(h, crt) == h.control = 0 \/ crt < RatioData

NextCrt(h) ==
    IF h.active # <<>> /\ h.control > 0
    THEN (h.crt + 1) % (RatioData + RatioControl) ELSE h.crt

\* doNextEvent, after its port was freed.
Serve(h, route, port) ==
    LET g == [h EXCEPT !.crt = NextCrt(h)]
    IN  IF h.active # <<>> /\ IsDataTurn(h, g.crt) THEN DataTurn(g, route, port)
        ELSE IF h.control > 0 THEN SendControl(g, port)
        ELSE g

\* What one immediate transmission can take: a free port, or none.
OnePort(h) == IF Free(h) = {} THEN {{}} ELSE {{p} : p \in Free(h)}

\* Mutant: a control packet waits for the next port event even if a port is free.
ControlArrivesQueued(h, ports) == [h EXCEPT !.control = @ + 1]

\* sendControlPacket: it goes at once if a port is free; ports is {} or one free port.
ControlArrives(h, ports) ==
    IF ports = {} THEN [h EXCEPT !.control = @ + 1] ELSE [h EXCEPT !.busy = @ \cup ports]

-----------------------------------------------------------------------------
(* Initial state and actions.                                              *)

Init ==
    /\ host = [busy |-> {}, active |-> <<>>, control |-> 0, crt |-> 0, fault |-> "none",
               src |-> [f \in Srcs |-> [backlog |-> NPkts, rtx |-> 0, flight |-> 0,
                                        room |-> 0, blocked |-> FALSE]]]
    /\ losses = 0

Running == host.fault = "none"

\* Sender f becomes r, and sends what it may.
Resumes(f, r) ==
    LET h == [host EXCEPT !.src[f] = r]
    IN  \E q \in kSubset(Permitted(h, f), Free(h)) : host' = SendIfPermitted(h, f, q)

\* A packet on port p is out; its event tells the NIC.
PortDone(p) ==
    /\ Running /\ p \in host.busy
    /\ LET h == [host EXCEPT !.busy = @ \ {p}]
       IN  \E route, port \in Free(h) : host' = Serve(h, route, port)
    /\ UNCHANGED losses

\* The connection starts, or its window grows.
Grow(f) ==
    /\ Running /\ host.src[f].room < MaxRoom
    /\ Resumes(f, [host.src[f] EXCEPT !.room = @ + 1])
    /\ UNCHANGED losses

\* The window shrinks: no call to the NIC.
Shrink(f) ==
    /\ Running /\ host.src[f].room > 0
    /\ host' = [host EXCEPT !.src[f].room = @ - 1]
    /\ UNCHANGED losses

Acked(f) ==
    /\ Running /\ host.src[f].flight > 0 /\ host.src[f].room < MaxRoom
    /\ Resumes(f, [host.src[f] EXCEPT !.flight = @ - 1, !.room = @ + 1])
    /\ UNCHANGED losses

\* processNack: the packet is queued again.
Nacked(f) ==
    /\ Running /\ host.src[f].flight > 0 /\ host.src[f].room < MaxRoom /\ losses < MaxLosses
    /\ Resumes(f, [host.src[f] EXCEPT !.flight = @ - 1, !.room = @ + 1, !.rtx = @ + 1])
    /\ losses' = losses + 1

\* The end of rtxTimerExpired: without room an RTS, with room another request.
\* A sender that has to wait is registered without noting it.
Insist(h, f, ports) ==
    IF h.src[f].room = 0 THEN ControlArrives([h EXCEPT !.src[f].flight = @ + 1], ports)
    ELSE IF ports = {} THEN [h EXCEPT !.active = Append(@, f)]
    ELSE LET a == Fails(Fails(h, h.control > 0, "control_waiting"),
                        h.src[f].rtx = 0, "rtx_empty")
         IN  IF a.fault # "none" THEN a
             ELSE [StartSending(a, f, ports) EXCEPT !.src[f] = Sent(@, 1)]

\* rtxTimerExpired: the packet is queued again, and sent if it may be; if it
\* is the only one queued, the sender insists.  The RTS may be suppressed.
TimerExpires(f) ==
    /\ Running /\ host.src[f].flight > 0 /\ host.src[f].room < MaxRoom /\ losses < MaxLosses
    /\ LET r == [host.src[f] EXCEPT !.flight = @ - 1, !.room = @ + 1, !.rtx = @ + 1]
           h == [host EXCEPT !.src[f] = r]
       IN  \E q \in kSubset(Permitted(h, f), Free(h)) :
              LET g == SendIfPermitted(h, f, q)
              IN  \/ /\ host.src[f].rtx > 0 \/ g.src[f].room = 0
                     /\ host' = g
                  \/ /\ host.src[f].rtx = 0
                     /\ g.src[f].room = 0 => g.control < MaxControl
                     /\ \E p \in OnePort(g) : host' = Insist(g, f, p)
    /\ losses' = losses + 1

\* A sink of the host acknowledges or pulls.
ControlPacket ==
    /\ Running /\ host.control < MaxControl
    /\ \E p \in OnePort(host) : host' = ControlArrives(host, p)
    /\ UNCHANGED losses

Next ==
    \/ \E p \in Ports : PortDone(p)
    \/ \E f \in Srcs : Grow(f) \/ Shrink(f) \/ Acked(f) \/ Nacked(f) \/ TimerExpires(f)
    \/ ControlPacket

Spec == Init /\ [][Next]_vars

\* Every transmission ends: the simulator processes the port's event.  Each
\* conjunct is weak fairness of PortDone(p), written with what enables it.
FairSpec ==
    /\ Spec
    /\ \A p \in Ports : []<>~(Running /\ p \in host.busy) \/ []<><<PortDone(p)>>_vars

-----------------------------------------------------------------------------
(* Properties.                                                             *)

Faults == {"none", "not_first", "control_waiting", "wrong_port", "port_left", "rtx_empty"}

Senders == [backlog : Nat, rtx : Nat, flight : Nat, room : Nat, blocked : BOOLEAN]

\* Types; the counters never go below zero, as the code's assertions require.
TypeOK ==
    /\ host \in [busy : SUBSET Ports, active : Seq(Srcs), control : Nat,
                 crt : 0 .. (RatioData + RatioControl - 1), fault : Faults, src : [Srcs -> Senders]]
    /\ losses \in Nat

Registered(f) == \E i \in DOMAIN host.active : host.active[i] = f

\* The NIC is work-conserving: while a port is idle nobody waits for one.
\* requestSending relies on it (the assertion at uec.cpp:273).
NobodyWaitsForAFreePort ==
    Running /\ host.busy # Ports => host.active = <<>> /\ host.control = 0

\* No lost wake-up: a sender with work and window is registered with the NIC,
\* and one that believes it is registered (_send_blocked_on_nic) is.
WaitersAreRegistered ==
    Running => \A f \in Srcs :
        host.src[f].blocked \/ CanSend(host.src[f]) => Registered(f)

\* Senders and NIC stay in step: the registered sender that is called is the
\* one that answers (uec.cpp:312, 335), a sender that has just sent finds no
\* second port (uec.cpp:2330), no data overtakes waiting control (uec.cpp:273),
\* and a packet leaves on the port whose route it was given.
NicInStep == TypeOK /\ host.fault \in {"none", "rtx_empty"}

\* No sender that may send waits for ever, however many acknowledgements and
\* pulls the host sends meanwhile.
NoStarvation ==
    []Running => \A f \in Srcs : []<>~CanSend(host.src[f])

\* Claim of the assertion at uec.cpp:2144: sendRtxPacket is called only with
\* something to retransmit.
RtxQueueNotEmpty == host.fault # "rtx_empty"

=============================================================================
