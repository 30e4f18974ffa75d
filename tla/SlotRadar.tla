------------------------------- MODULE SlotRadar -------------------------------
(***************************************************************************)
(* The detector of freed slots of one shop (postavki/slot_volume.py), run  *)
(* by _postavka_slot_watch_loop.  Uzum does not say how much a slot still  *)
(* takes; it lists the slots that take a given quantity, so a poll asks    *)
(* for a ladder of quantities, keeps the largest one each slot was listed  *)
(* under, and publishes what has grown since the snapshot before.          *)
(*                                                                         *)
(* Five modes: "ladder" reads rung after rung, "deep" all rungs at once,   *)
(* "fast" only when one cheap request shows a new slot; these poll one     *)
(* after another.  "pipeline" and "detect" start a poll while others are   *)
(* still under way, and drop one that ends after a younger one was applied.*)
(*                                                                         *)
(* The specification is RadarSpec: AutoslotProofs extends this module      *)
(* together with AutoslotAllocator, which has a Spec of its own.           *)
(***************************************************************************)
EXTENDS Naturals, FiniteSetsExt

CONSTANTS
    TimeSlot,
    Poll,           \* the polls that may be under way at once (detect_max_inflight)
    Ladder,         \* LADDER
    DetectQ,        \* _DETECT_Q
    Room,           \* what a slot can take
    Modes,          \* the configurations looked at
    Enough,         \* slots of a snapshot from which a drop is suspicious (10)
    MaxMoves,       \* bound on the changes at Uzum
    MaxFaults       \* bound on what fails: an answer, an outage, a commit, a restart

ASSUME RadarAssumption ==
    /\ IsFiniteSet(TimeSlot) /\ Ladder \subseteq Nat \ {0} /\ DetectQ \in Nat \ {0}
    /\ Room \subseteq Nat /\ 0 \in Room
    /\ Modes \subseteq {"ladder", "fast", "deep", "pipeline", "detect"}
    /\ Enough \in Nat /\ MaxMoves \in Nat /\ MaxFaults \in Nat

VARIABLES
    mode,       \* POSTAVKA_FAST_RADAR and the other switches
    free,       \* slot -> what it takes, at Uzum
    known,      \* the snapshots there are: "seen", "shown"
    seen,       \* _SNAPSHOT: slot -> the quantity it was listed under, 0 if none
    shown,      \* _FAST_SNAPSHOT or _DETECT_ONLY_SNAP: the slots that took DetectQ
    poll,       \* poll -> how far it is
    ahead,      \* poll -> the polls under way that began before it (started_at)
    moves, faults,
    rising,     \* ghost: slots and the quantities they have come to take since they
                \* were last announced to take them
    excused     \* ghost: those that may be announced again (see AnnouncedRose)

radarVars == <<mode, free, known, seen, shown, poll, ahead, moves, faults, rising, excused>>
snapshots == <<known, seen, shown>>

Rungs == Ladder \cup {DetectQ}
Nowhere == [s \in TimeSlot |-> 0]
Idle == [at |-> "idle", todo |-> {}, got |-> Nowhere, fits |-> {}, late |-> FALSE,
         out |-> FALSE, after |-> {}]

Progress == [at : {"idle", "detect", "compare", "measure", "write"},
             todo : SUBSET Ladder, got : [TimeSlot -> Ladder \cup {0}],
             fits : SUBSET TimeSlot, late : BOOLEAN, out : BOOLEAN,
             after : SUBSET (TimeSlot \X Rungs)]
UnderWay == {p \in Poll : poll[p].at # "idle"}

RadarTypeOK ==
    /\ mode \in Modes
    /\ free \in [TimeSlot -> Room]
    /\ known \subseteq {"seen", "shown"}
    /\ seen \in [TimeSlot -> Ladder \cup {0}] /\ shown \subseteq TimeSlot
    /\ poll \in [Poll -> Progress]
    /\ ahead \in [Poll -> SUBSET Poll]
    /\ \A p \in Poll : ahead[p] \subseteq UnderWay \ {p}
    /\ moves \in 0..MaxMoves /\ faults \in 0..MaxFaults
    /\ rising \subseteq TimeSlot \X Rungs /\ excused \subseteq TimeSlot \X Rungs

RadarInit ==
    /\ mode \in Modes
    /\ free \in [TimeSlot -> Room]
    /\ known = {} /\ seen = Nowhere /\ shown = {}
    /\ poll = [p \in Poll |-> Idle] /\ ahead = [p \in Poll |-> {}]
    /\ moves = 0 /\ faults = 0
    /\ rising = {} /\ excused = {}

Fault == faults < MaxFaults /\ faults' = faults + 1
Overlapping == mode \in {"pipeline", "detect"}
Snapshot == IF mode = "detect" THEN "shown" ELSE "seen"   \* what events are told from
Detecting == mode \in {"fast", "detect"}

-----------------------------------------------------------------------------
(* Pure operators on snapshots.                                            *)

Listed(snap) == {s \in TimeSlot : snap[s] # 0}

\* diff_snapshots: only what has grown.
Grown(prev, curr) == {s \in TimeSlot : curr[s] > prev[s]}

\* Mutant of Unreliable: an answer is never suspicious.
NeverUnreliable(prev, curr) == prev # prev /\ curr # curr

\* is_unreliable_drop: fewer than 60 % of the slots of a large snapshot.
Unreliable(prev, curr) ==
    /\ Cardinality(Listed(prev)) >= Enough
    /\ 10 * Cardinality(Listed(curr)) < 6 * Cardinality(Listed(prev))

\* The slots that one request for q lists.
Fits(q) == {s \in TimeSlot : free[s] >= q}
Answer(p, q) == IF poll[p].out THEN {} ELSE Fits(q)

\* What a poll measures while Uzum is at rest.
Capacities == [s \in TimeSlot |-> Max({0} \cup {q \in Ladder : q <= free[s]})]

-----------------------------------------------------------------------------
(* A poll begins and reads.                                                *)

\* Poll p is no longer under way.
Leaves(p) == ahead' = [r \in Poll |-> IF r = p THEN {} ELSE ahead[r] \ {p}]

Ends(p) == poll' = [poll EXCEPT ![p] = Idle] /\ Leaves(p)

\* Mutant of Begin: a poll is submitted though none of those allowed is free.
BeginPiledUp(p) ==
    /\ UnderWay = {} \/ Overlapping
    /\ poll' = [poll EXCEPT ![p] = [Idle EXCEPT
                  !.at = IF Detecting THEN "detect" ELSE "measure", !.todo = Ladder]]
    /\ ahead' = [ahead EXCEPT ![p] = UnderWay]
    /\ UNCHANGED <<mode, free, snapshots, moves, faults, rising, excused>>

\* The loop waits for its poll unless the mode overlaps them.  Which free thread
\* of the pool runs it makes no difference.
Begin(p) ==
    /\ poll[p].at = "idle" /\ p = CHOOSE r \in Poll : poll[r].at = "idle"
    /\ UnderWay = {} \/ Overlapping
    /\ poll' = [poll EXCEPT ![p] = [Idle EXCEPT
                  !.at = IF Detecting THEN "detect" ELSE "measure", !.todo = Ladder]]
    /\ ahead' = [ahead EXCEPT ![p] = UnderWay]
    /\ UNCHANGED <<mode, free, snapshots, moves, faults, rising, excused>>

\* From here on Uzum answers the poll with empty lists.
Hiccup(p) ==
    /\ poll[p].at \in {"detect", "measure"} /\ ~poll[p].out /\ Fault
    /\ poll' = [poll EXCEPT ![p].out = TRUE]
    /\ UNCHANGED <<mode, free, snapshots, ahead, moves, rising, excused>>

\* The one cheap request.
Detect(p) ==
    /\ poll[p].at = "detect"
    /\ poll' = [poll EXCEPT ![p].at = "compare", ![p].fits = Answer(p, DetectQ)]
    /\ UNCHANGED <<mode, free, snapshots, ahead, moves, faults, rising, excused>>

\* Rungs in ascending order where they are read one after another.
ReadRung(p) ==
    /\ poll[p].at = "measure"
    /\ \E q \in poll[p].todo :
          /\ mode = "ladder" => \A r \in poll[p].todo : q <= r
          /\ poll' = [poll EXCEPT
                        ![p].todo = @ \ {q},
                        ![p].got = [s \in TimeSlot |-> IF s \in Answer(p, q) /\ q > @[s]
                                                   THEN q ELSE @[s]]]
    /\ UNCHANGED <<mode, free, snapshots, ahead, moves, faults, rising, excused>>

\* A request fails or is too slow: the poll is over and nothing of it is kept.
PollFails(p) ==
    /\ \/ poll[p].at = "detect"
       \/ poll[p].at = "measure" /\ poll[p].todo # {} /\ mode # "detect"
    /\ Fault /\ Ends(p)
    /\ UNCHANGED <<mode, free, snapshots, moves, rising, excused>>

\* In "detect" a rung that fails is passed over.
RungFails(p) ==
    /\ poll[p].at = "measure" /\ mode = "detect" /\ Fault
    /\ \E q \in poll[p].todo : poll' = [poll EXCEPT ![p].todo = @ \ {q}]
    /\ UNCHANGED <<mode, free, snapshots, ahead, moves, rising, excused>>

-----------------------------------------------------------------------------
(* What it read is compared with the snapshot, and replaces it.            *)

\* Mutant of InOrder: whatever ends is applied.
AlwaysInOrder(p) == p \in Poll

\* The guard: no younger poll has been applied (only the overlapping modes ask).
InOrder(p) == ~poll[p].late

\* Both are under way and r has begun after p.
Younger(r, p) == p \in ahead[r]

\* Slot t[1] was listed to poll r for the quantity t[2].
Read(r, t) == IF mode = "detect" THEN t[1] \in poll[r].fits ELSE t[2] <= poll[r].got[t[1]]

\* What r has read has yet to be compared.
Undecided(r) ==
    \/ poll[r].at \in {"detect", "compare"}
    \/ poll[r].at = "measure" /\ mode # "detect"

\* The older polls come too late from now on; the younger ones bear in mind what
\* was announced while they were under way.
Follow(p, told, mine) ==
    [r \in Poll |->
       IF r = p THEN mine
       ELSE IF ~Undecided(r) THEN poll[r]
       ELSE [poll[r] EXCEPT !.late = @ \/ (Overlapping /\ Younger(p, r)),
                            !.after = @ \cup (IF Younger(r, p) THEN told ELSE {})]]

\* Slots that the poll takes off the snapshot although they may never have gone:
\* it began before they were announced, or a younger one has read them before it
\* did (they are gone, and come back with the younger one), or Uzum hid them and it does not show:
\* the snapshot is too small to tell, or the slots still listed are enough of it.
\* "detect" does not look at all.
Excused(p) ==
    LET before == Cardinality(Listed(seen))
        left   == Cardinality(Listed(poll[p].got))
        first  == Snapshot \notin known
        lost   == IF mode = "detect"
                  THEN ((IF first THEN TimeSlot ELSE shown) \ poll[p].fits) \X {DetectQ}
                  ELSE {t \in TimeSlot \X Ladder :
                          (first \/ t[2] <= seen[t[1]]) /\ poll[p].got[t[1]] < t[2]}
    IN  {t \in lost :
            /\ mode = "fast" => poll[p].at = "measure"
            /\ \/ t \in poll[p].after
               \/ \E r \in Poll : Younger(r, p) /\ Read(r, t)
               \/ poll[p].out /\ (mode = "detect" \/ before < Enough \/ 10 * left >= 6 * before)}

\* Poll p has been applied, goes on to `at` or is over, and `told` are the slots
\* and quantities it announces.
Applied(p, at, told) ==
    /\ poll' = Follow(p, told, [Idle EXCEPT
                    !.at = at, !.out = poll[p].out /\ at = "measure",
                    !.todo = IF at = "measure" THEN Ladder ELSE {}])
    /\ IF at = "idle" THEN Leaves(p) ELSE UNCHANGED ahead
    /\ rising' = rising \ told
    /\ excused' = (excused \ told) \cup Excused(p)

\* The cheap request: in "detect" a new slot is announced as it is; in "fast" it
\* is the reason to measure.
Compare(p) ==
    /\ poll[p].at = "compare" /\ InOrder(p)
    /\ LET new == IF "shown" \in known THEN poll[p].fits \ shown ELSE {}
       IN  Applied(p, IF new = {} THEN "idle" ELSE "measure",
                   IF mode = "detect" THEN new \X {DetectQ} ELSE {})
    /\ known' = known \cup {"shown"} /\ shown' = poll[p].fits
    /\ UNCHANGED <<mode, free, seen, moves, faults>>

Measured(p) == poll[p].at = "measure" /\ poll[p].todo = {} /\ mode # "detect"
\* Mutant of Suspicious: any drop is, however few slots there are.
SuspiciousDrop(p) ==
    "seen" \in known /\ Cardinality(Listed(poll[p].got)) < Cardinality(Listed(seen))

Suspicious(p) == "seen" \in known /\ Unreliable(seen, poll[p].got)

\* The measurement replaces the snapshot; the first one is a seed.
Apply(p) ==
    /\ Measured(p) /\ InOrder(p) /\ ~Suspicious(p)
    /\ LET new == IF "seen" \in known THEN Grown(seen, poll[p].got) ELSE {}
       IN  Applied(p, IF new = {} THEN "idle" ELSE "write",
                   {t \in new \X Ladder : seen[t[1]] < t[2] /\ t[2] <= poll[p].got[t[1]]})
    /\ known' = known \cup {"seen"} /\ seen' = poll[p].got
    /\ UNCHANGED <<mode, free, shown, moves, faults>>

\* A suspicious measurement counts as applied and leaves the snapshot.
Suspect(p) ==
    /\ Measured(p) /\ InOrder(p) /\ Suspicious(p)
    /\ poll' = Follow(p, {}, Idle) /\ Leaves(p)
    /\ UNCHANGED <<mode, free, snapshots, moves, faults, rising, excused>>

\* It ends after a younger one.
Outrun(p) ==
    /\ poll[p].at = "compare" \/ Measured(p)
    /\ ~InOrder(p) /\ Ends(p)
    /\ UNCHANGED <<mode, free, snapshots, moves, faults, rising, excused>>

\* "detect" has measured what it found, as far as it could.
Sized(p) ==
    /\ poll[p].at = "measure" /\ poll[p].todo = {} /\ mode = "detect"
    /\ poll' = [poll EXCEPT ![p] = [Idle EXCEPT !.at = "write"]]
    /\ UNCHANGED <<mode, free, snapshots, ahead, moves, faults, rising, excused>>

\* _persist_events: the rows are written and the events published.
Publish(p) ==
    /\ poll[p].at = "write" /\ Ends(p)
    /\ UNCHANGED <<mode, free, snapshots, moves, faults, rising, excused>>

\* The commit fails: the snapshot has moved on and the events are lost.
PublishFails(p) ==
    /\ poll[p].at = "write" /\ Fault /\ Ends(p)
    /\ UNCHANGED <<mode, free, snapshots, moves, rising, excused>>

-----------------------------------------------------------------------------
(* Uzum and the process.                                                   *)

\* Somebody takes of a slot or gives it back.
Move(s) ==
    /\ moves < MaxMoves /\ moves' = moves + 1
    /\ \E v \in Room \ {free[s]} :
          /\ free' = [free EXCEPT ![s] = v]
          /\ rising' = rising \cup ({s} \X {q \in Rungs : free[s] < q /\ q <= v})
    /\ UNCHANGED <<mode, snapshots, poll, ahead, faults, excused>>

RadarRestarts ==
    /\ Fault
    /\ known' = {} /\ seen' = Nowhere /\ shown' = {}
    /\ poll' = [p \in Poll |-> Idle] /\ ahead' = [p \in Poll |-> {}]
    /\ UNCHANGED <<mode, free, moves, rising, excused>>

PollStep(p) ==
    \/ Begin(p) \/ Detect(p) \/ ReadRung(p) \/ Compare(p) \/ Apply(p) \/ Suspect(p)
    \/ Outrun(p) \/ Sized(p) \/ Publish(p)

RadarNext ==
    \/ \E p \in Poll : PollStep(p) \/ Hiccup(p) \/ PollFails(p) \/ RungFails(p)
                       \/ PublishFails(p)
    \/ \E s \in TimeSlot : Move(s)
    \/ RadarRestarts

RadarSpec == RadarInit /\ [][RadarNext]_radarVars

-----------------------------------------------------------------------------
(* Properties.                                                             *)

\* A slot is announced for a quantity only if it has come to take it since it
\* was last announced for it (or since the first look): no answer that is late,
\* cut short or empty makes a slot look freed again.  Except one the snapshot
\* lost without its having gone: by a poll that was younger than the one that
\* announced it and had begun before (the guard goes by beginnings, not by what
\* was read), or by an outage where is_unreliable_drop does not look.
AnnouncedRose ==
    [][\A s \in TimeSlot, q \in Rungs :
          \/ /\ Snapshot = "seen" /\ "seen" \in (known \cap known')
             /\ q \in Ladder /\ seen[s] < q /\ q <= seen'[s]
          \/ /\ Snapshot = "shown" /\ "shown" \in (known \cap known')
             /\ q = DetectQ /\ s \in shown' \ shown
          => <<s, q>> \in rising \/ <<s, q>> \in excused]_radarVars

\* The snapshot of the mode says what Uzum says, or has lost so much that it is
\* frozen: is_unreliable_drop takes a real drop for a hiccup as well.
Current == CASE Detecting -> shown = Fits(DetectQ)
             [] ~Detecting -> seen = Capacities \/ Unreliable(seen, Capacities)

\* Once Uzum and the faults have come to rest, the radar sees what there is, in
\* every mode and in spite of polls that overtake each other.
Settles == <>[]Current

\* The loop polls for ever and every request comes to an end (its timeout).
Fairness == /\ []<><<\E p \in Poll : Begin(p)>>_radarVars
            /\ \A p \in Poll : WF_radarVars(Detect(p) \/ ReadRung(p) \/ Compare(p) \/ Apply(p)
                                       \/ Suspect(p) \/ Outrun(p) \/ Sized(p) \/ Publish(p))

FairRadarSpec == RadarSpec /\ Fairness
=============================================================================
