---------------------------- MODULE PathSelection ---------------------------
(***************************************************************************)
(* How a sender spreads its packets over the paths of the network: the     *)
(* path given to every packet, and what the feedback does to the next.     *)
(* Source: sim/uec_mp.cpp (UecMultipath and its six implementations),      *)
(* sim/buffer_reps.cpp (CircularBufferREPS), and the calls of sim/uec.cpp. *)
(*                                                                         *)
(* A path is the low bits of an entropy (the upper bits never change and   *)
(* processEv masks them off).  An acknowledgement or NACK reports the path *)
(* of a packet in flight; a timeout reports UNKNOWN_EV, which is path 0,   *)
(* whichever path the packet took.  Draws of rand() are choices.  Of time  *)
(* only one thing matters: when a frozen ring may thaw.  The network trims *)
(* (without trimming the program exits on the first timeout with reps);    *)
(* entropies are used once (no driver calls setUsableLifetime).            *)
(***************************************************************************)
EXTENDS Integers, Sequences, FiniteSets, FiniteSetsExt, Functions

CONSTANTS
    NPaths,        \* _no_of_paths, a power of two
    Algorithms,    \* the implementations looked at
    MaxPenalty,    \* _max_penalty
    NackPenalty,   \* the penalty of a NACK
    RingSize,      \* repsBufferSize
    Explore,       \* explore_counter after a freeze
    MaxFlying,     \* bound: packets in flight
    MaxListed      \* bound: paths waiting in _next_pathid

Paths == 0 .. NPaths - 1

\* NPaths is a power of two: none of its divisors is odd but 1.
ASSUME PathAssumption ==
    /\ NPaths \in Nat \ {0}
    /\ \A d, q \in 1 .. NPaths : NPaths = d * q => d = 1 \/ d % 2 = 0
    /\ MaxPenalty \in Nat \ {0} /\ NackPenalty \in 1 .. MaxPenalty
    /\ RingSize \in Nat \ {0} /\ Explore \in Nat

VARIABLES
    algo,      \* the implementation the flow was given
    scan,      \* oblivious, bitmap, mixed: _current_ev_index, _path_xor,
               \* _ev_skip_bitmap and _ev_skip_count
    ring,      \* reps: the CircularBufferREPS; thaw: its freeze may end
    list,      \* reps_legacy, mixed: _next_pathid
    crt,       \* reps_legacy, ecmp: _crt_path
    sent,      \* reps_legacy: _highest_sent, up to the number of paths
    flying,    \* packets in flight on each path
    last,      \* bitmap: the path of the last packet
    used,      \* oblivious: packets on each path, less the fewest on any
    unused     \* reps: reports of good paths it can still use, oldest first

selectVars == <<algo, scan, ring, list, crt, sent, flying, last, used, unused>>

-----------------------------------------------------------------------------
(* UecMpOblivious and UecMpBitmap: all paths in an order that is drawn     *)
(* again after every round.                                                *)

\* The exclusive or of two paths, from their lowest bits up.
Xor[ab \in Paths \X Paths] ==
    IF ab = <<0, 0>> THEN 0
    ELSE 2 * Xor[<<ab[1] \div 2, ab[2] \div 2>>] + ((ab[1] + ab[2]) % 2)

PathAt(s) == Xor[<<s.idx, s.xor>>]

\* Mutant: the order is drawn again one packet early.
AheadEarly(s, k, draw) ==
    [s EXCEPT !.idx = (s.idx + k) % NPaths,
              !.xor = IF s.idx + k >= NPaths - 1 THEN draw ELSE s.xor]

\* After k packets or penalised paths, no more than a round.
Ahead(s, k, draw) ==
    [s EXCEPT !.idx = (s.idx + k) % NPaths,
              !.xor = IF s.idx + k >= NPaths THEN draw ELSE s.xor]

\* One unit of the penalty of path p is served.
Forgive(s, p) ==
    [s EXCEPT !.skip[p] = @ - 1, !.count = IF s.skip[p] = 1 THEN @ - 1 ELSE @]

\* Mutant: the scan gives up one path early.
ScanShort(s, draw) ==
    IF s.skip[PathAt(s)] = 0 THEN s
    ELSE LET f == Forgive(s, PathAt(s))
             good == {k \in 1 .. NPaths - 1 : f.skip[PathAt(Ahead(f, k, draw))] = 0}
         IN  Ahead(f, Min(good \cup {NPaths - 1}), draw)

\* The loop of UecMpBitmap::nextEntropy: penalised paths are passed over, the
\* first of them serves a unit of its penalty; after a round it gives up.
Scan(s, draw) ==
    IF s.skip[PathAt(s)] = 0 THEN s
    ELSE LET f == Forgive(s, PathAt(s))
             good == {k \in 1 .. NPaths : f.skip[PathAt(Ahead(f, k, draw))] = 0}
         IN  Ahead(f, Min(good \cup {NPaths}), draw)

Penalty(feedback) ==
    CASE feedback = "ecn" -> 1
      [] feedback = "nack" -> NackPenalty
      [] feedback = "timeout" -> MaxPenalty
      [] OTHER -> 0

\* Mutant: every bad report counts, whether or not the path was penalised.
PenaliseAlways(s, p, feedback) ==
    [s EXCEPT !.skip[p] = Min({@ + Penalty(feedback), MaxPenalty}),
              !.count = IF feedback # "good" THEN @ + 1 ELSE @]

\* UecMpBitmap::processEv.
Penalise(s, p, feedback) ==
    [s EXCEPT !.skip[p] = Min({@ + Penalty(feedback), MaxPenalty}),
              !.count = IF feedback # "good" /\ s.skip[p] = 0 THEN @ + 1 ELSE @]

-----------------------------------------------------------------------------
(* CircularBufferREPS and UecMpReps: paths reported good are used again,   *)
(* oldest first; after a timeout the ring is frozen and replayed in turn.  *)

EmptyRing ==
    [path |-> [k \in 0 .. RingSize - 1 |-> 0], valid |-> [k \in 0 .. RingSize - 1 |-> FALSE],
     head |-> 0, count |-> 0, fresh |-> 0, frozenHead |-> 0,
     frozen |-> FALSE, thaw |-> FALSE, explore |-> 0]

Add(r, p) ==
    [r EXCEPT !.fresh = Min({IF r.valid[r.head] THEN @ ELSE @ + 1, RingSize}),
              !.path[r.head] = p, !.valid[r.head] = TRUE,
              !.head = (@ + 1) % RingSize, !.count = Min({@ + 1, RingSize})]

\* The slot of remove_earliest_fresh.
EarliestFresh(r) ==
    IF r.head - r.fresh < 0 THEN r.head + RingSize - r.fresh ELSE r.head - r.fresh

TakeFresh(r) == [r EXCEPT !.valid[EarliestFresh(r)] = FALSE, !.fresh = @ - 1]

\* remove_frozen.
TakeFrozen(r) ==
    [r EXCEPT !.fresh = IF r.valid[r.frozenHead] THEN @ - 1 ELSE @,
              !.valid[r.frozenHead] = FALSE,
              !.frozenHead = (@ + 1) % r.count]

\* Mutant: the ring thaws with what it holds.
ThawedAsIs(r) == [r EXCEPT !.frozen = FALSE, !.thaw = FALSE, !.explore = Explore]

Thawed(r) == [EmptyRing EXCEPT !.explore = Explore]

Freezes(r, feedback) == feedback = "timeout" /\ ~r.frozen /\ r.explore = 0

\* UecMpReps::processEv up to the report of a good path: it may freeze, it may thaw.
Settled(r, feedback) ==
    IF Freezes(r, feedback) THEN [r EXCEPT !.frozen = TRUE, !.thaw = FALSE]
    ELSE IF r.frozen /\ r.thaw THEN Thawed(r)
    ELSE r

-----------------------------------------------------------------------------
(* Initial state and actions.                                              *)

SelectInit ==
    /\ algo \in Algorithms
    /\ \E x \in Paths :
          scan = [idx |-> 0, xor |-> x, skip |-> [p \in Paths |-> 0], count |-> 0]
    /\ crt \in IF algo = "ecmp" THEN Paths ELSE {0}
    /\ ring = EmptyRing /\ list = <<>> /\ sent = 0 /\ last = 0 /\ unused = <<>>
    /\ flying = [p \in Paths |-> 0] /\ used = [p \in Paths |-> 0]

InFlight == SumFunction(flying)

\* A packet leaves on path p.
Leaves(p) ==
    /\ InFlight < MaxFlying
    /\ flying' = [flying EXCEPT ![p] = @ + 1]

NextOblivious ==
    /\ algo = "oblivious"
    /\ Leaves(PathAt(scan))
    /\ \E draw \in Paths : scan' = Ahead(scan, 1, draw)
    /\ LET u == [used EXCEPT ![PathAt(scan)] = @ + 1]
       IN  used' = [p \in Paths |-> u[p] - Min(Range(u))]
    /\ UNCHANGED <<ring, list, crt, sent, last, unused>>

\* Also what mixed does when nothing is left to recycle.
NextBitmap ==
    /\ algo \in {"bitmap", "mixed"} /\ list = <<>>
    /\ \E draw, again \in Paths :
          LET s == Scan(scan, draw)
          IN  /\ Leaves(PathAt(s))
              /\ scan' = Ahead(s, 1, again)
              /\ last' = IF algo = "bitmap" THEN PathAt(s) ELSE last
    /\ UNCHANGED <<ring, list, crt, sent, used, unused>>

\* While exploring, or with nothing to take, any path; otherwise a reported one.
NextReps ==
    /\ algo = "reps"
    /\ \/ /\ ring.explore > 0
          /\ \E p \in Paths : Leaves(p)
          /\ ring' = [ring EXCEPT !.explore = @ - 1]
          /\ UNCHANGED unused
       \/ /\ ring.explore = 0
          /\ ring.count = 0 \/ (~ring.frozen /\ ring.fresh = 0)
          /\ \E p \in Paths : Leaves(p)
          /\ UNCHANGED <<ring, unused>>
       \/ /\ ring.explore = 0 /\ ring.count > 0 /\ ring.frozen
          /\ Leaves(ring.path[ring.frozenHead])
          /\ ring' = TakeFrozen(ring)
          /\ UNCHANGED unused
       \/ /\ ring.explore = 0 /\ ring.fresh > 0 /\ ~ring.frozen
          /\ Leaves(ring.path[EarliestFresh(ring)])
          /\ ring' = TakeFresh(ring)
          /\ unused' = Tail(unused)
    /\ UNCHANGED <<scan, list, crt, sent, last, used>>

\* In the first window (its size in packets is one of the choices) the paths in
\* turn, then the reported ones, or any.  Only new packets move _highest_sent.
NextRepsLegacy ==
    /\ algo = "reps_legacy"
    /\ \/ /\ sent < NPaths
          /\ crt' = (crt + 1) % NPaths
          /\ UNCHANGED list
       \/ /\ list = <<>> /\ crt' \in Paths
          /\ UNCHANGED list
       \/ /\ list # <<>> /\ crt' = Head(list)
          /\ list' = Tail(list)
    /\ Leaves(crt')
    /\ sent' \in {sent, Min({sent + 1, NPaths})}
    /\ UNCHANGED <<scan, ring, last, used, unused>>

\* mixed: nextEntropyRecycle first.
NextRecycled ==
    /\ algo = "mixed" /\ list # <<>>
    /\ Leaves(Head(list))
    /\ list' = Tail(list)
    /\ UNCHANGED <<scan, ring, crt, sent, last, used, unused>>

NextEcmp ==
    /\ algo = "ecmp"
    /\ Leaves(crt)
    /\ UNCHANGED <<scan, ring, list, crt, sent, last, used, unused>>

\* A packet that took path p is accounted for, and path q is reported.
ProcessEv(p, q, feedback) ==
    /\ flying[p] > 0
    /\ flying' = [flying EXCEPT ![p] = @ - 1]
    /\ scan' = IF algo \in {"bitmap", "mixed"} THEN Penalise(scan, q, feedback) ELSE scan
    /\ IF algo \in {"reps_legacy", "mixed"} /\ feedback = "good"
       THEN Len(list) < MaxListed /\ list' = Append(list, q)
       ELSE UNCHANGED list
    /\ IF algo = "reps"
       THEN LET r == Settled(ring, feedback)
                u == IF r.frozen \/ ring.frozen THEN <<>> ELSE unused
            IN  IF feedback = "good"
                THEN /\ ring' = Add(r, q)
                     /\ unused' = IF r.frozen THEN <<>>
                                  ELSE IF Len(u) = RingSize THEN Append(Tail(u), q)
                                  ELSE Append(u, q)
                ELSE ring' = r /\ unused' = u
       ELSE UNCHANGED <<ring, unused>>
    /\ UNCHANGED <<crt, sent, last, used>>

\* An acknowledgement or a NACK reports its packet's path; a timeout path 0.
Report(p) ==
    \/ \E feedback \in {"good", "ecn", "nack"} : ProcessEv(p, p, feedback)
    \/ ProcessEv(p, 0, "timeout")

\* exit_freeze_after has passed.
Thaw ==
    /\ ring.frozen /\ ~ring.thaw
    /\ ring' = [ring EXCEPT !.thaw = TRUE]
    /\ UNCHANGED <<scan, list, crt, sent, flying, last, used, unused>>

SelectNext ==
    /\ \/ NextOblivious \/ NextBitmap \/ NextReps
       \/ NextRepsLegacy \/ NextRecycled \/ NextEcmp
       \/ \E p \in Paths : Report(p)
       \/ Thaw
    /\ UNCHANGED algo

SelectSpec == SelectInit /\ [][SelectNext]_selectVars

-----------------------------------------------------------------------------
(* Properties.                                                             *)

\* Oblivious spraying is even: at no time has one path carried more than one
\* packet more than another, whatever orders are drawn (uec_mp.cpp:30).
SpraysEvenly ==
    algo = "oblivious" => \A p, q \in Paths : used[p] - used[q] <= 1

\* _ev_skip_count is the number of penalised paths, so that the assertion at
\* uec_mp.cpp:108 holds however reports and packets interleave.
SkipCountExact ==
    scan.count = Cardinality({p \in Paths : scan.skip[p] > 0})

\* A packet leaves on a path that is still penalised only if more than half of
\* the paths were: the scan crosses two orders and can miss the others.
AvoidsPenalised ==
    [][NextBitmap /\ algo = "bitmap"
       /\ 2 * Cardinality({p \in Paths : scan.skip[p] = 0}) >= NPaths
       => scan'.skip[last'] = 0]_selectVars

\* The ring of reps, overwritten when full, frozen, replayed and cleared, counts
\* its valid slots and replays only slots that were written; while it is not
\* frozen it is a queue of the latest reports that were not used yet.
RepsIsFifo ==
    /\ ring.fresh = Cardinality({k \in 0 .. RingSize - 1 : ring.valid[k]})
    /\ ring.count < RingSize => ring.head = ring.count
    /\ ring.count > 0 => ring.frozenHead < ring.count
    /\ ~ring.frozen =>
          /\ ring.fresh = Len(unused)
          /\ \A i \in 1 .. ring.fresh :
                LET k == (EarliestFresh(ring) + i - 1) % RingSize
                IN  ring.valid[k] /\ ring.path[k] = unused[i]
=============================================================================
