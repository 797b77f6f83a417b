----------------------------- MODULE UecIncNIC -----------------------------
(***************************************************************************)
(* The NIC of a host of the in-network all-reduce (UecIncNIC), whose port  *)
(* event serves the sources of the all-reduce before everybody else.       *)
(* Source: sim/uec_inc_src.cpp; the rest is the UecNIC it derives from.    *)
(***************************************************************************)
EXTENDS UecNIC

CONSTANT IncSrcs  \* of Srcs, the sources with destination UINT32_MAX

\* Source f, taken out of its place in the list, is told to send.  If it cannot
\* (cantSend), whoever is first in the list must be f, to pass its turn on.
IncTurn(h, i, route, port) ==
    LET f == h.active[i]
        g == [h EXCEPT !.active = SubSeq(@, 1, i - 1) \o SubSeq(@, i + 1, Len(@)),
                       !.src[f].blocked = FALSE]
    IN  IF CanSend(g.src[f]) THEN SendTurn(g, f, route, port)
        ELSE IF g.active # <<>> /\ Head(g.active) # f THEN Fails(g, TRUE, "not_first")
        ELSE IF g.active # <<>> THEN DataTurn([g EXCEPT !.active = Tail(@)], route, port)
        ELSE IF g.control > 0 THEN SendControl(g, port)
        ELSE g

\* UecIncNIC::doNextEvent.
IncServe(h, route, port) ==
    LET inc == {i \in DOMAIN h.active : h.active[i] \in IncSrcs}
    IN  IF inc # {} THEN IncTurn(h, Min(inc), route, port) ELSE Serve(h, route, port)

IncPortDone(p) ==
    /\ Running /\ p \in host.busy
    /\ LET h == [host EXCEPT !.busy = @ \ {p}]
       IN  \E route, port \in Free(h) : host' = IncServe(h, route, port)
    /\ UNCHANGED losses

\* The sources of the all-reduce get results instead of acknowledgements, and
\* never lower what they have in flight.
IncNext ==
    \/ \E p \in Ports : IncPortDone(p)
    \/ \E f \in Srcs : Grow(f) \/ Shrink(f)
    \/ \E f \in Srcs \ IncSrcs : Acked(f) \/ Nacked(f) \/ TimerExpires(f)
    \/ ControlPacket

IncSpec == Init /\ [][IncNext]_vars

\* Claim of README_imp.md, line 57 (normal flows can coexist with those of the
\* all-reduce) and of the assertions at uec.cpp:311 and uec.cpp:335: the source
\* that is called is the first of the list.
FlowsCoexist == host.fault # "not_first"

=============================================================================
