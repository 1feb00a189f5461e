---------------------------- MODULE SelectProofs -----------------------------
(***************************************************************************)
(* Theorems about SelectSignals, for any set of signals.                   *)
(*                                                                         *)
(* The argument.  The handler shares caught with do_select, and do_select  *)
(* takes the mask apart in three steps, so the proof rests on where which  *)
(* signals are blocked (SignalMask): all of them from Harvest to Restore,  *)
(* the signal of the call from Protect to Release.  Hence nothing is noted *)
(* between CopyMask and EmptyMask (Copied), and nothing is noted for a     *)
(* handler that may be rolled back.  What is noted was trapped, and what   *)
(* is trapped is within sigrange or about to be put there (TrapsRanged,    *)
(* NotesRanged), so that Report misses none of it.                         *)
(***************************************************************************)
EXTENDS SelectSignals, TLAPS

InCall == {"install", "decide", "rollback", "release"}

InHarvest == {"clear", "copy", "empty", "restore"}

\* What is blocked at each step, and what the functions will restore.
SignalMask ==
  /\ pc \in InCall \cup InHarvest => call.oldset = Inherited
  /\ pc \notin InCall \cup InHarvest => blocked = Inherited
  /\ pc \in InCall => call.sig \in blocked \cup Uncatchable
  /\ pc \in InHarvest => Signals \ Uncatchable \subseteq blocked

\* The signal a call of select_signal is about.
CallSignalKnown ==
  /\ pc \in InCall \cup {"protect", "range"} => call.sig \in Signals
  /\ pc \in {"decide", "rollback", "release"} => call.sig \notin Uncatchable
  /\ pc = "decide" => disp[call.sig] = call.func
  /\ pc = "rollback" => call.prev = "other" /\ ~call.override
  /\ pc \in {"release", "range"} =>
       (disp[call.sig] = "trap" => call.func = "trap")

Catchable == \A s \in Uncatchable : disp[s] = "default"

Ranged(s) == sigrange.min <= s /\ s <= sigrange.max

\* A trapped signal is in the range, or the call that traps it is not over.
TrapsRanged ==
  \A s \in Signals : disp[s] = "trap" =>
    \/ Ranged(s)
    \/ call.sig = s /\ pc \in {"decide", "rollback", "release", "range"}

\* So is what the handler noted; while it is not, the call has only its range
\* to update.
NotesRanged ==
  \A s \in caught.mask :
    Ranged(s) \/ (call.sig = s /\ call.func = "trap" /\ pc = "range")

\* The copy of the mask.
Copied ==
  /\ pc \notin {"empty", "restore", "report"} => call.trapped = {}
  /\ pc = "empty" => call.trapped = caught.mask
  /\ \A s \in call.trapped : Ranged(s)

IInv ==
  /\ TypeOK
  /\ SignalMask
  /\ CallSignalKnown
  /\ Catchable
  /\ TrapsRanged
  /\ NotesRanged
  /\ Copied
  /\ NoTrappedSignalLost
  /\ FlagTellsMask

-----------------------------------------------------------------------------
\* Signal numbers are positive.
LEMMA SignalNumbers == \A s \in Signals : s \in Nat /\ s > 0
  BY SelectAssumption

\* The initial states satisfy the invariant.
LEMMA InitInv == Init => IInv
  <1> SUFFICES ASSUME Init PROVE IInv
    OBVIOUS
  <1> USE SelectAssumption DEF Init, NoCall
  <1>1. TypeOK
    BY DEF TypeOK, Calls, Dispositions
  <1>2. SignalMask /\ CallSignalKnown
    BY DEF SignalMask, CallSignalKnown, InCall, InHarvest
  <1>3. Catchable /\ TrapsRanged
    BY DEF Catchable, TrapsRanged
  <1>4. NotesRanged /\ Copied /\ NoTrappedSignalLost /\ FlagTellsMask
    BY DEF NotesRanged, Copied, NoTrappedSignalLost, FlagTellsMask
  <1>5. QED
    BY <1>1, <1>2, <1>3, <1>4 DEF IInv

\* UPDATE_RANGE keeps what was in the range and adds the signal trapped.
LEMMA RangeGrows ==
  ASSUME IInv, UpdateRange
  PROVE  /\ TypeOK'
         /\ \A s \in Signals : Ranged(s) => Ranged(s)'
         /\ \A s \in Signals : call.func = "trap" /\ s = call.sig => Ranged(s)'
  <1>1. /\ sigrange \in [min : Signals \cup {0}, max : Signals \cup {0}]
        /\ sigrange.min = 0 <=> sigrange.max = 0
        /\ TypeOK
    BY DEF IInv, TypeOK
  <1>2. call.sig \in Signals
    BY DEF IInv, CallSignalKnown, UpdateRange, At
  <1>3. /\ sigrange.min \in Nat /\ sigrange.max \in Nat
        /\ call.sig \in Nat /\ call.sig > 0
    BY <1>1, <1>2, SignalNumbers
  <1>4. CASE call.func # "trap"
    <2>1. sigrange' = sigrange
      BY <1>4 DEF UpdateRange
    <2>2. QED
      BY <1>1, <1>4, <2>1
      DEF UpdateRange, TypeOK, Calls, Dispositions, NoCall, Ranged, Goto, kernel
  <1>5. CASE call.func = "trap" /\ sigrange.min = 0
    <2>1. sigrange' = [min |-> call.sig, max |-> call.sig]
      BY <1>5 DEF UpdateRange
    <2>2. sigrange'.min = call.sig /\ sigrange'.max = call.sig
      BY <2>1
    <2>3. \A s \in Signals : ~Ranged(s)
      BY <1>1, <1>3, <1>5, SignalNumbers DEF Ranged
    <2>4. \A s \in Signals : s = call.sig => Ranged(s)'
      BY <1>3, <2>2 DEF Ranged
    <2>5. TypeOK'
      BY <1>1, <1>2, <1>3, <2>1, <2>2
      DEF UpdateRange, TypeOK, Calls, Dispositions, NoCall, Goto, kernel
    <2>6. QED
      BY <2>3, <2>4, <2>5
  <1>6. CASE call.func = "trap" /\ sigrange.min # 0
    <2>1. /\ sigrange'.min = IF call.sig < sigrange.min THEN call.sig ELSE sigrange.min
          /\ sigrange'.max = IF call.sig > sigrange.max THEN call.sig ELSE sigrange.max
          /\ sigrange' = [min |-> sigrange'.min, max |-> sigrange'.max]
      BY <1>6 DEF UpdateRange
    <2>2. sigrange.min \in Signals /\ sigrange.max \in Signals
      BY <1>1, <1>6
    <2>3. /\ \A s \in Signals : Ranged(s) => Ranged(s)'
          /\ \A s \in Signals : s = call.sig => Ranged(s)'
      BY <1>3, <2>1, SignalNumbers DEF Ranged
    <2>4. sigrange'.min \in Signals /\ sigrange'.max \in Signals
      BY <1>2, <2>1, <2>2
    <2>5. TypeOK'
      BY <1>1, <2>1, <2>4, SignalNumbers
      DEF UpdateRange, TypeOK, Calls, Dispositions, NoCall, Goto, kernel
    <2>6. QED
      BY <2>3, <2>5
  <1>7. QED
    BY <1>4, <1>5, <1>6

LEMMA UpdateRangeInv == IInv /\ UpdateRange => IInv'
  <1> SUFFICES ASSUME IInv, UpdateRange PROVE IInv'
    OBVIOUS
  <1>1. TypeOK'
    BY RangeGrows
  <1> USE DEF IInv, UpdateRange, NoCall, At, Goto, kernel
  <1>2. SignalMask' /\ CallSignalKnown' /\ Catchable'
    BY DEF SignalMask, CallSignalKnown, Catchable, InCall, InHarvest
  <1>3. TrapsRanged'
    BY RangeGrows DEF TrapsRanged, CallSignalKnown
  <1>4. NotesRanged'
    BY RangeGrows DEF NotesRanged, TypeOK
  <1>5. Copied'
    BY DEF Copied
  <1>6. NoTrappedSignalLost' /\ FlagTellsMask'
    BY DEF NoTrappedSignalLost, FlagTellsMask, Copied
  <1>7. QED
    BY <1>1, <1>2, <1>3, <1>4, <1>5, <1>6

\* Every step preserves it.
LEMMA NextInv == IInv /\ [Next]_vars => IInv'
  <1> SUFFICES ASSUME IInv, [Next]_vars PROVE IInv'
    OBVIOUS
  <1> USE SelectAssumption
        DEF IInv, TypeOK, Calls, Dispositions, SignalMask, CallSignalKnown,
            Catchable, TrapsRanged, NotesRanged, Copied, NoTrappedSignalLost,
            FlagTellsMask, Ranged, InCall, InHarvest, At, Goto, kernel
  <1>1. ASSUME NEW s \in Signals, Raise(s) PROVE IInv'
    BY <1>1 DEF Raise
  <1>2. ASSUME NEW s \in Signals, SignalHandler(s) PROVE IInv'
    BY <1>2 DEF SignalHandler, Deliverable, Interrupt
  <1>3. ASSUME NEW s \in Signals, OtherHandler(s) PROVE IInv'
    BY <1>3 DEF OtherHandler, Deliverable, Interrupt
  <1>4. ASSUME NEW s \in Signals, DefaultAction(s) PROVE IInv'
    BY <1>4 DEF DefaultAction, Deliverable
  <1>5. ASSUME NEW s \in Signals, NEW func \in {"default", "ignore", "trap"},
               NEW override \in BOOLEAN, CallSignal(s, func, override)
        PROVE  IInv'
    <2>1. call' = [sig |-> s, func |-> func, override |-> override,
                   prev |-> "default", dosig |-> FALSE, timeout |-> "none",
                   oldset |-> {}, trapped |-> {}]
      BY <1>5 DEF CallSignal, NoCall
    <2>2. call' \in Calls
      BY <2>1
    <2>3. TypeOK'
      BY <1>5, <2>2 DEF CallSignal
    <2>4. call'.trapped = {}
      BY <2>1
    <2>5. SignalMask' /\ CallSignalKnown'
      BY <1>5, <2>1 DEF CallSignal
    <2>6. Catchable' /\ TrapsRanged' /\ NotesRanged' /\ Copied'
      BY <1>5, <2>4 DEF CallSignal
    <2>7. NoTrappedSignalLost' /\ FlagTellsMask'
      BY <1>5, <2>4 DEF CallSignal
    <2>8. QED
      BY <2>3, <2>5, <2>6, <2>7 DEF IInv
  <1>6. ASSUME Protect PROVE IInv'
    BY <1>6 DEF Protect, Block
  <1>7. ASSUME Install PROVE IInv'
    BY <1>7 DEF Install, SetDisposition
  <1>8. ASSUME InstallFails PROVE IInv'
    BY <1>8 DEF InstallFails, NoCall
  <1>9. ASSUME Decide PROVE IInv'
    BY <1>9 DEF Decide
  <1>10. ASSUME Rollback PROVE IInv'
    BY <1>10 DEF Rollback, SetDisposition
  <1>11. ASSUME Release PROVE IInv'
    BY <1>11 DEF Release
  <1>12. ASSUME UpdateRange PROVE IInv'
    BY <1>12, UpdateRangeInv
  <1>13. ASSUME NEW dosig \in BOOLEAN, NEW timeout \in {"finite", "infinite"},
                CallSelect(dosig, timeout)
         PROVE  IInv'
    <2>1. call' = [sig |-> 0, func |-> "default", override |-> FALSE,
                   prev |-> "default", dosig |-> dosig, timeout |-> timeout,
                   oldset |-> {}, trapped |-> {}]
      BY <1>13 DEF CallSelect, NoCall
    <2>2. call' \in Calls
      BY <2>1
    <2>3. TypeOK'
      BY <1>13, <2>2 DEF CallSelect
    <2>4. call'.trapped = {}
      BY <2>1
    <2>5. SignalMask' /\ CallSignalKnown'
      BY <1>13, <2>1 DEF CallSelect
    <2>6. Catchable' /\ TrapsRanged' /\ NotesRanged' /\ Copied'
      BY <1>13, <2>4 DEF CallSelect
    <2>7. NoTrappedSignalLost' /\ FlagTellsMask'
      BY <1>13, <2>4 DEF CallSelect
    <2>8. QED
      BY <2>3, <2>5, <2>6, <2>7 DEF IInv
  <1>14. ASSUME SelectFails PROVE IInv'
    BY <1>14 DEF SelectFails, NoCall
  <1>15. ASSUME Check PROVE IInv'
    BY <1>15 DEF Check
  <1>16. ASSUME Enter PROVE IInv'
    BY <1>16 DEF Enter
  <1>17. ASSUME Ready PROVE IInv'
    BY <1>17 DEF Ready
  <1>18. ASSUME Expire PROVE IInv'
    BY <1>18 DEF Expire
  <1>19. ASSUME Harvest PROVE IInv'
    <2> USE <1>19 DEF Harvest, Block, NoCall
    <2>1. CASE call.dosig /\ caught.flag
      BY <2>1
    <2>2. CASE ~(call.dosig /\ caught.flag)
      <3>1. /\ pc' = "idle" /\ call' = NoCall /\ blocked = Inherited
            /\ UNCHANGED <<disp, pending, blocked, caught, sigrange, sigarr, owed,
                           killed>>
        BY <2>2
      <3>2. TypeOK'
        BY <3>1
      <3>3. SignalMask' /\ CallSignalKnown' /\ Catchable'
        BY <3>1
      <3>4. TrapsRanged' /\ NotesRanged'
        BY <3>1
      <3>5. Copied' /\ NoTrappedSignalLost' /\ FlagTellsMask'
        BY <3>1
      <3>6. QED
        BY <3>2, <3>3, <3>4, <3>5
    <2>3. QED
      BY <2>1, <2>2
  <1>20. ASSUME ClearFlag PROVE IInv'
    <2> USE <1>20 DEF ClearFlag
    <2>1. TypeOK'
      <3>1. caught' \in [flag : BOOLEAN, mask : SUBSET Signals]
        OBVIOUS
      <3>2. UNCHANGED <<disp, pending, blocked, sigrange, call, sigarr, owed, killed>>
        OBVIOUS
      <3>3. QED
        BY <3>1, <3>2
    <2>2. SignalMask' /\ CallSignalKnown' /\ Catchable'
      OBVIOUS
    <2>3. TrapsRanged' /\ NotesRanged'
      OBVIOUS
    <2>4. Copied'
      OBVIOUS
    <2>5. NoTrappedSignalLost' /\ FlagTellsMask'
      OBVIOUS
    <2>6. QED
      BY <2>1, <2>2, <2>3, <2>4, <2>5
  <1>21. ASSUME CopyMask PROVE IInv'
    BY <1>21 DEF CopyMask
  <1>22. ASSUME EmptyMask PROVE IInv'
    BY <1>22 DEF EmptyMask
  <1>23. ASSUME Restore PROVE IInv'
    BY <1>23 DEF Restore
  <1>24. ASSUME Report PROVE IInv'
    <2> USE <1>24 DEF Report, NoCall, InRange
    <2>1. TypeOK'
      OBVIOUS
    <2>2. SignalMask' /\ CallSignalKnown' /\ Catchable'
      OBVIOUS
    <2>3. TrapsRanged' /\ NotesRanged'
      OBVIOUS
    <2>4. Copied'
      OBVIOUS
    <2>5. NoTrappedSignalLost' /\ FlagTellsMask'
      OBVIOUS
    <2>6. QED
      BY <2>1, <2>2, <2>3, <2>4, <2>5
  <1>25. CASE UNCHANGED vars
    BY <1>25 DEF vars
  <1> HIDE DEF IInv, TypeOK, Calls, Dispositions, SignalMask, CallSignalKnown,
               Catchable, TrapsRanged, NotesRanged, Copied, NoTrappedSignalLost,
               FlagTellsMask, Ranged, InCall, InHarvest, At, Goto, kernel
  <1>26. QED
    BY <1>1, <1>2, <1>3, <1>4, <1>5, <1>6, <1>7, <1>8, <1>9, <1>10, <1>11,
       <1>12, <1>13, <1>14, <1>15, <1>16, <1>17, <1>18, <1>19, <1>20, <1>21,
       <1>22, <1>23, <1>24, <1>25
    DEF Next, Environment, Handler, Signal, Select, Killed

\* The strengthened invariant holds in every reachable state.
THEOREM Invariance == Spec => []IInv
  <1>1. QED
    BY InitInv, NextInv, PTL DEF Spec

\* Types: in particular sigrange, built up by UPDATE_RANGE, is either empty or
\* has two ends that are signal numbers.
THEOREM TypeCorrect == Spec => []TypeOK
  <1>1. IInv => TypeOK
    BY DEF IInv
  <1>2. QED
    BY <1>1, Invariance, PTL

\* A signal noted by signal_handler is in caught.mask or in the copy do_select
\* holds until it is reported, whenever the handler runs.
THEOREM NothingLost == Spec => []NoTrappedSignalLost
  <1>1. IInv => NoTrappedSignalLost
    BY DEF IInv
  <1>2. QED
    BY <1>1, Invariance, PTL

\* Outside the critical section of do_select caught.flag is set whenever
\* caught.mask holds a signal.
THEOREM FlagFaithful == Spec => []FlagTellsMask
  <1>1. IInv => FlagTellsMask
    BY DEF IInv
  <1>2. QED
    BY <1>1, Invariance, PTL

\* do_signal and do_select leave the signal mask as gawk inherited it.
THEOREM MaskKept == Spec => []MaskRestored
  <1>1. IInv => MaskRestored
    BY DEF IInv, SignalMask, MaskRestored, InCall, InHarvest
  <1>2. QED
    BY <1>1, Invariance, PTL

\* The range that do_select scans covers every signal it has copied.
THEOREM ReportComplete == Spec => []ReportMissesNone
  <1>1. IInv => ReportMissesNone
    BY DEF IInv, Copied, ReportMissesNone, InRange, Ranged
  <1>2. QED
    BY <1>1, Invariance, PTL

\* The handler never notes a signal whose handler do_signal is to roll back.
THEOREM RefusalRespected == Spec => RefusedNeverTrapped
  <1>1. ASSUME IInv, [Next]_vars
        PROVE  [\A s \in owed' \ owed : ~Refused(s)]_vars
    <2>1. ASSUME NEW s \in Signals, SignalHandler(s)
          PROVE  \A x \in owed' \ owed : ~Refused(x)
      BY <1>1, <2>1
      DEF IInv, SignalMask, CallSignalKnown, InCall, SignalHandler, Deliverable,
          Refused
    <2>2. CASE UNCHANGED vars
      BY <2>2
    <2>3. CASE Next /\ ~\E s \in Signals : SignalHandler(s)
      <3>1. owed' \subseteq owed
        BY <2>3 DEF Next, Environment, Handler, Signal, Select, Killed, vars,
           Raise, OtherHandler, DefaultAction, CallSignal, Protect, Install,
           InstallFails, Decide, Rollback, Release, UpdateRange, CallSelect,
           SelectFails, Check, Enter, Ready, Expire, Harvest, ClearFlag,
           CopyMask, EmptyMask, Restore, Report
      <3>2. QED
        BY <3>1
    <2>4. QED
      BY <1>1, <2>1, <2>2, <2>3
  <1>2. QED
    BY <1>1, Invariance, PTL DEF Spec, RefusedNeverTrapped
=============================================================================
