----------------------------- MODULE EventList ------------------------------
(***************************************************************************)
(* The event list of the simulator (EventList) and the triggers: a record  *)
(* of the current time, the pending events in the order they will happen,  *)
(* the targets triggered but not yet activated, the number of pending      *)
(* traffic events, and how often each trigger was activated.  Operators    *)
(* map such a record to the next.                                          *)
(* Source: sim/eventlist.cpp, sim/trigger.cpp.                             *)
(*                                                                         *)
(* A handle is an iterator of the map in the code.  Here it is a positive  *)
(* number that no pending event has; like an address it may be used again  *)
(* once its event is gone.  NullHandle stands for _pendingsources.end().   *)
(***************************************************************************)
EXTENDS Integers, Sequences, FiniteSets, SequencesExt

CONSTANT TriggerOf   \* trigger -> [kind, targets, needed], from the traffic matrix

NullHandle == 0

\* Loggers and clocks are not traffic.
IsTraffic(src) == src.kind # "logger"

Triggers == DOMAIN TriggerOf

\* end is the configured end of the simulation, 0 for none.
EmptyList(end) ==
    [now |-> 0, end |-> end, pending |-> <<>>, targets |-> <<>>, traffic |-> 0,
     shots |-> [g \in Triggers |-> 0], fault |-> "none"]

Check(l, holds, what) == [l EXCEPT !.fault = IF @ = "none" /\ ~holds THEN what ELSE @]

Weight(src) == IF IsTraffic(src) THEN 1 ELSE 0

-----------------------------------------------------------------------------
(* Scheduling.                                                             *)

\* Nothing is entered past the end; loggers only while there is traffic, or at the start.
Admits(l, src, when) ==
    /\ l.end = 0 \/ when < l.end
    /\ IsTraffic(src) \/ l.traffic > 0 \/ l.now = 0

Unused(l) ==
    CHOOSE h \in 1 .. Len(l.pending) + 1 :
        /\ \A i \in DOMAIN l.pending : l.pending[i].handle # h
        /\ \A k \in 1 .. h - 1 : \E i \in DOMAIN l.pending : l.pending[i].handle = k

\* What sourceIsPendingGetHandle returns; the caller may ignore it (sourceIsPending).
HandleFor(l, src, when) == IF Admits(l, src, when) THEN Unused(l) ELSE NullHandle

\* A multimap keeps the order of insertion among equal times.
SourceIsPending(l, src, when) ==
    LET checked == Check(l, when >= l.now, "past")
        at == 1 + Cardinality({i \in DOMAIN l.pending : l.pending[i].when <= when})
    IN  IF ~Admits(l, src, when) THEN checked
        ELSE [checked EXCEPT
                !.pending = InsertAt(@, at, [handle |-> Unused(l), src |-> src, when |-> when]),
                !.traffic = @ + Weight(src)]

\* The event a handle of src stands for, if it is valid.
Live(l, src, h) ==
    {i \in DOMAIN l.pending :
        l.pending[i].handle = h /\ l.pending[i].src = src /\ l.pending[i].when >= l.now}

\* cancelPendingSourceByHandle: undefined unless the handle is valid, the code asserts it.
CancelByHandle(l, src, h) ==
    IF Live(l, src, h) = {} THEN Check(l, FALSE, "handle")
    ELSE [l EXCEPT !.pending = RemoveAt(@, CHOOSE i \in Live(l, src, h) : TRUE),
                   !.traffic = @ - Weight(src)]

-----------------------------------------------------------------------------
(* doNextEvent: triggered targets first, the last one first; then the      *)
(* first event, whose time becomes the current time.                       *)

PopTarget(l) == [l EXCEPT !.targets = Front(@)]

Pop(l) ==
    [Check(l, Head(l.pending).when >= l.now, "past")
        EXCEPT !.pending = Tail(@), !.now = Head(l.pending).when,
               !.traffic = @ - Weight(Head(l.pending).src)]

-----------------------------------------------------------------------------
(* Triggers: a single shot and a full barrier hand all targets to the      *)
(* event list, a multi shot the next one.                                  *)

\* The targets that activation number shot of trigger g releases.
Fires(g, shot) ==
    CASE TriggerOf[g].kind = "single"  -> TriggerOf[g].targets
      [] TriggerOf[g].kind = "multi"   ->
            IF shot <= Len(TriggerOf[g].targets) THEN <<TriggerOf[g].targets[shot]>> ELSE <<>>
      [] TriggerOf[g].kind = "barrier" ->
            IF shot = TriggerOf[g].needed THEN TriggerOf[g].targets ELSE <<>>

\* The assertions of activate: once for a single shot, at most needed times for a barrier.
MayActivate(l, g) ==
    CASE TriggerOf[g].kind = "single"  -> l.shots[g] = 0
      [] TriggerOf[g].kind = "barrier" -> l.shots[g] < TriggerOf[g].needed
      [] OTHER -> TRUE

Activate(l, g) ==
    [Check(l, MayActivate(l, g), "trigger")
        EXCEPT !.targets = @ \o Fires(g, l.shots[g] + 1), !.shots[g] = @ + 1]

=============================================================================
