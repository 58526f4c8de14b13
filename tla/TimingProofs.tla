---------------------------- MODULE TimingProofs ----------------------------
(***************************************************************************)
(* A worker whose calls are timely keeps its lease and its entry, and is   *)
(* shown as alive, whatever the configured times.                          *)
(***************************************************************************)
EXTENDS Timing, TLAPS

\* The clocks start with everything left.
LEMMA TimingInitially == Init => TimingInv
BY LeaseTimes, PresenceTimes
   DEF Init, ClockInit, PresenceInit, TimingInv, ClockTypeOK, IdleInv, TtlInv, PresenceInv, Off,
       Beating, Owning, Expiry

\* Each step of the job and of its heartbeat hands the next await no more time
\* than is left.
LEMMA ClockStepKeeps ==
  ASSUME ClockTypeOK, IdleInv, TtlInv, ClockStep
  PROVE  ClockTypeOK' /\ IdleInv' /\ TtlInv'
<1> USE LeaseTimes, TimelyCalls DEF ClockTypeOK, IdleInv, TtlInv, Await, Off, Sleep, Beating, Owning
<1>1. CASE GetPermit
  BY <1>1 DEF GetPermit
<1>2. CASE SetLease
  BY <1>2 DEF SetLease
<1>3. CASE Acquired
  BY <1>3 DEF Acquired
<1>4. CASE Recorded
  BY <1>4 DEF Recorded
<1>5. CASE RecordFails
  BY <1>5 DEF RecordFails
<1>6. CASE BeatWakes
  BY <1>6 DEF BeatWakes
<1>7. CASE BeatExtends
  BY <1>7 DEF BeatExtends
<1>8. CASE BeatReply
  BY <1>8 DEF BeatReply
<1>9. CASE HandlerEnds
  BY <1>9 DEF HandlerEnds
<1>10. CASE Committed
  BY <1>10 DEF Committed
<1>11. CASE DelLease
  BY <1>11 DEF DelLease
<1>12. CASE Acks
  BY <1>12 DEF Acks
<1>13. CASE Fails
  BY <1>13 DEF Fails
<1>14. CASE DeadLettered
  BY <1>14 DEF DeadLettered
<1>15. CASE Acked
  BY <1>15 DEF Acked
<1>16. QED
  BY <1>1, <1>2, <1>3, <1>4, <1>5, <1>6, <1>7, <1>8, <1>9, <1>10, <1>11, <1>12, <1>13, <1>14,
     <1>15 DEF ClockStep

\* A tick takes the same from the await as from the clocks.
LEMMA ClockTickKeeps ==
  ASSUME ClockTypeOK, IdleInv, TtlInv, ClockTick
  PROVE  ClockTypeOK' /\ IdleInv' /\ TtlInv'
<1> USE LeaseTimes, TimelyCalls DEF ClockTypeOK, IdleInv, TtlInv, Beating, Owning
<1>1. CASE pc = "done"
  BY <1>1 DEF ClockTick, clockVars
<1>2. CASE pc # "done"
  <2>1. ClockTypeOK'
    BY <1>2 DEF ClockTick
  <2>2. IdleInv'
    BY <1>2 DEF ClockTick
  <2>3. TtlInv'
    BY <1>2 DEF ClockTick
  <2>4. QED
    BY <2>1, <2>2, <2>3
<1>3. QED
  BY <1>1, <1>2

LEMMA PresenceStepKeeps == ASSUME PresenceInv, PresenceStep PROVE PresenceInv'
<1> USE PresenceTimes DEF PresenceInv, Expiry
<1>1. CASE WriteStarts
  BY <1>1 DEF WriteStarts
<1>2. CASE Written
  BY <1>2 DEF Written
<1>3. CASE WriteFails
  BY <1>3 DEF WriteFails
<1>4. QED
  BY <1>1, <1>2, <1>3 DEF PresenceStep

LEMMA PresenceTickKeeps == ASSUME PresenceInv, PresenceTick PROVE PresenceInv'
BY PresenceTimes DEF PresenceInv, PresenceTick, Older, Expiry

LEMMA ClockUnchanged ==
  ASSUME ClockTypeOK, IdleInv, TtlInv, UNCHANGED clockVars
  PROVE  ClockTypeOK' /\ IdleInv' /\ TtlInv'
BY DEF clockVars, ClockTypeOK, IdleInv, TtlInv

LEMMA PresenceUnchanged == ASSUME PresenceInv, UNCHANGED presenceVars PROVE PresenceInv'
BY DEF presenceVars, PresenceInv

LEMMA TimingStep == TimingInv /\ [Next]_vars => TimingInv'
<1> SUFFICES ASSUME TimingInv, [Next]_vars PROVE TimingInv'
  OBVIOUS
<1> USE DEF TimingInv
<1>1. CASE ClockStep /\ UNCHANGED presenceVars
  BY <1>1, ClockStepKeeps, PresenceUnchanged
<1>2. CASE PresenceStep /\ UNCHANGED clockVars
  BY <1>2, PresenceStepKeeps, ClockUnchanged
<1>3. CASE Tick
  BY <1>3, ClockTickKeeps, PresenceTickKeeps DEF Tick
<1>4. CASE UNCHANGED vars
  <2>1. UNCHANGED clockVars /\ UNCHANGED presenceVars
    BY <1>4 DEF vars
  <2>2. QED
    BY <2>1, ClockUnchanged, PresenceUnchanged
<1>5. QED
  BY <1>1, <1>2, <1>3, <1>4 DEF Next

\* What every await leaves of the lease, of the idle time and of the presence
\* key is an invariant of executor.py and loop.py.
THEOREM TimingInvariant == Spec => []TimingInv
BY TimingInitially, TimingStep, PTL DEF Spec

\* While execute() owns its lease, between acquire_lease and release_lease, the
\* key does not expire.
THEOREM LeaseOutlives == Spec => []LeaseOutlivesJob
<1>1. TimingInv => LeaseOutlivesJob
  BY LeaseTimes, TimelyCalls
     DEF TimingInv, ClockTypeOK, TtlInv, LeaseOutlivesJob, Beating, Owning
<1>2. QED
  BY <1>1, TimingInvariant, PTL

\* _process_message acknowledges its entry before XAUTOCLAIM would give it away.
THEOREM EntryOutlives == Spec => []EntryOutlivesJob
<1>1. TimingInv => EntryOutlivesJob
  BY LeaseTimes, TimelyCalls
     DEF TimingInv, ClockTypeOK, IdleInv, EntryOutlivesJob, Owning
<1>2. QED
  BY <1>1, TimingInvariant, PTL

\* GET /v1/workers shows a running worker, one missed heartbeat or none.
THEOREM RunningWorkersShown == Spec => []RunningIsShown
<1>1. TimingInv => RunningIsShown
  BY PresenceTimes DEF TimingInv, PresenceInv, RunningIsShown, alive, Expiry
<1>2. QED
  BY <1>1, TimingInvariant, PTL

=============================================================================
