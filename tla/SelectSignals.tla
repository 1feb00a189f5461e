--------------------------- MODULE SelectSignals ----------------------------
(***************************************************************************)
(* Signal trapping in select/select.c.  select_signal installs a handler   *)
(* that only notes the signal in caught.mask and caught.flag; select       *)
(* reports what was noted in its <signals> array.  The functions run one   *)
(* after the other in gawk; the handler runs between any two of their      *)
(* steps unless the signal is blocked, with all signals blocked itself.    *)
(* So each function is a sequence of steps (pc), one per access to state   *)
(* that the handler shares or that decides whether the handler may run.    *)
(*                                                                         *)
(* The model is of a platform with sigaction and sigprocmask.  The kernel  *)
(* (external) keeps at most one pending instance of a signal.              *)
(***************************************************************************)
EXTENDS Integers, FiniteSets

CONSTANTS
  Signals,      \* signal numbers
  Uncatchable,  \* those whose disposition sigaction refuses to change
  Foreign,      \* those for which somebody else installed a handler
  Inherited,    \* those blocked when gawk was started
  MayBlock      \* whether select is ever called without a timeout

ASSUME SelectAssumption ==
  /\ Signals \subseteq Nat \ {0}
  /\ IsFiniteSet(Signals)
  /\ Uncatchable \subseteq Signals
  /\ Foreign \cup Inherited \subseteq Signals \ Uncatchable
  /\ MayBlock \in BOOLEAN

VARIABLES
  disp,      \* the disposition of each signal
  pending,   \* generated and not delivered yet
  blocked,   \* the signal mask of the process
  caught,    \* caught.flag and caught.mask
  sigrange,  \* the least and the largest number ever trapped, 0 at first
  pc,        \* the next step of the function being called
  call,      \* the arguments and local variables of that function
  sigarr,    \* the signals the last select reported
  owed,      \* signals the handler noted and select has not reported
  killed     \* a signal with the default disposition ended the process

kernel == <<disp, pending, blocked>>
vars == <<disp, pending, blocked, caught, sigrange, pc, call, sigarr, owed,
          killed>>

Dispositions == {"default", "ignore", "trap", "other"}

NoCall == [sig |-> 0, func |-> "default", override |-> FALSE,
           prev |-> "default", dosig |-> FALSE, timeout |-> "none",
           oldset |-> {}, trapped |-> {}]

Calls ==
  [sig : Signals \cup {0}, func : {"default", "ignore", "trap"},
   override : BOOLEAN, prev : Dispositions, dosig : BOOLEAN,
   timeout : {"none", "finite", "infinite"}, oldset : SUBSET Signals,
   trapped : SUBSET Signals]

\* Types; the range of trapped signals is empty or has two ends
\* (caught, sigrange, and the locals of do_signal and do_select).
TypeOK ==
  /\ disp \in [Signals -> Dispositions]
  /\ pending \subseteq Signals
  /\ blocked \subseteq Signals
  /\ caught \in [flag : BOOLEAN, mask : SUBSET Signals]
  /\ sigrange \in [min : Signals \cup {0}, max : Signals \cup {0}]
  /\ sigrange.min = 0 <=> sigrange.max = 0
  /\ pc \in {"idle", "protect", "install", "decide", "rollback", "release",
             "range", "check", "enter", "wait", "harvest", "clear", "copy",
             "empty", "restore", "report"}
  /\ call \in Calls
  /\ sigarr \subseteq Signals
  /\ owed \subseteq Signals
  /\ killed \in BOOLEAN

Init ==
  /\ disp = [s \in Signals |-> IF s \in Foreign THEN "other" ELSE "default"]
  /\ pending = {}
  /\ blocked = Inherited
  /\ caught = [flag |-> FALSE, mask |-> {}]
  /\ sigrange = [min |-> 0, max |-> 0]
  /\ pc = "idle"
  /\ call = NoCall
  /\ sigarr = {}
  /\ owed = {}
  /\ killed = FALSE

At(step) == pc = step /\ ~killed

-----------------------------------------------------------------------------
(* The kernel and the handler.                                             *)

\* Another process, or do_kill, sends a signal; an ignored one is dropped.
Raise(s) ==
  /\ ~killed
  /\ s \notin pending
  /\ disp[s] # "ignore"
  /\ pending' = pending \cup {s}
  /\ UNCHANGED <<disp, blocked, caught, sigrange, pc, call, sigarr, owed,
                 killed>>

\* A handler that runs while the process waits in select interrupts it.
Interrupt == pc' = IF pc = "wait" THEN "harvest" ELSE pc

Deliverable(s) == ~killed /\ s \in pending \ blocked

\* Mutant of SignalHandler: the flag is not set.
SignalHandlerQuiet(s) ==
  /\ Deliverable(s) /\ disp[s] = "trap"
  /\ pending' = pending \ {s}
  /\ caught' = [caught EXCEPT !.mask = @ \cup {s}]
  /\ owed' = owed \cup {s}
  /\ Interrupt
  /\ UNCHANGED <<disp, blocked, sigrange, call, sigarr, killed>>

\* signal_handler.
SignalHandler(s) ==
  /\ Deliverable(s) /\ disp[s] = "trap"
  /\ pending' = pending \ {s}
  /\ caught' = [flag |-> TRUE, mask |-> caught.mask \cup {s}]
  /\ owed' = owed \cup {s}
  /\ Interrupt
  /\ UNCHANGED <<disp, blocked, sigrange, call, sigarr, killed>>

\* The handler of somebody else.
OtherHandler(s) ==
  /\ Deliverable(s) /\ disp[s] = "other"
  /\ pending' = pending \ {s}
  /\ Interrupt
  /\ UNCHANGED <<disp, blocked, caught, sigrange, call, sigarr, owed, killed>>

DefaultAction(s) ==
  /\ Deliverable(s) /\ disp[s] = "default"
  /\ killed' = TRUE
  /\ UNCHANGED <<kernel, caught, sigrange, pc, call, sigarr, owed>>

-----------------------------------------------------------------------------
(* do_signal                                                               *)

Goto(step) == pc' = step

CallSignal(s, func, override) ==
  /\ At("idle")
  /\ call' = [NoCall EXCEPT !.sig = s, !.func = func, !.override = override]
  /\ Goto("protect")
  /\ UNCHANGED <<kernel, caught, sigrange, sigarr, owed, killed>>

\* sigprocmask; what cannot be caught cannot be blocked either.
Block(set) ==
  /\ blocked' = blocked \cup (set \ Uncatchable)
  /\ call' = [call EXCEPT !.oldset = blocked]

\* Mutant of Protect: the signal is not blocked.
ProtectNothing ==
  /\ At("protect")
  /\ call' = [call EXCEPT !.oldset = blocked]
  /\ Goto("install")
  /\ UNCHANGED <<kernel, caught, sigrange, sigarr, owed, killed>>

\* PROTECT: the signal is blocked in case the handler is to be rolled back.
Protect ==
  /\ At("protect")
  /\ Block({call.sig})
  /\ Goto("install")
  /\ UNCHANGED <<disp, pending, caught, sigrange, sigarr, owed, killed>>

\* The disposition a signal gets; ignoring it discards a pending instance.
SetDisposition(s, d) ==
  /\ disp' = [disp EXCEPT ![s] = d]
  /\ pending' = IF d = "ignore" THEN pending \ {s} ELSE pending

Install ==
  /\ At("install")
  /\ call.sig \notin Uncatchable
  /\ SetDisposition(call.sig, call.func)
  /\ call' = [call EXCEPT !.prev = disp[call.sig]]
  /\ Goto("decide")
  /\ UNCHANGED <<blocked, caught, sigrange, sigarr, owed, killed>>

\* sigaction refuses: RELEASE and return "".
InstallFails ==
  /\ At("install")
  /\ call.sig \in Uncatchable
  /\ blocked' = call.oldset
  /\ call' = NoCall
  /\ Goto("idle")
  /\ UNCHANGED <<disp, pending, caught, sigrange, sigarr, owed, killed>>

\* signal_result: an unknown previous handler is kept unless overridden.
Decide ==
  /\ At("decide")
  /\ Goto(IF call.prev = "other" /\ ~call.override THEN "rollback"
          ELSE "release")
  /\ UNCHANGED <<kernel, caught, sigrange, call, sigarr, owed, killed>>

\* Mutant of Rollback: it returns without RELEASE.
RollbackHolding ==
  /\ At("rollback")
  /\ SetDisposition(call.sig, call.prev)
  /\ call' = NoCall
  /\ Goto("idle")
  /\ UNCHANGED <<blocked, caught, sigrange, sigarr, owed, killed>>

\* The previous handler is put back, then RELEASE and return "".
Rollback ==
  /\ At("rollback")
  /\ SetDisposition(call.sig, call.prev)
  /\ call' = [call EXCEPT !.func = "default"]
  /\ Goto("release")
  /\ UNCHANGED <<blocked, caught, sigrange, sigarr, owed, killed>>

\* RELEASE.  A pending instance may be delivered before the range is updated.
Release ==
  /\ At("release")
  /\ blocked' = call.oldset
  /\ Goto("range")
  /\ UNCHANGED <<disp, pending, caught, sigrange, call, sigarr, owed, killed>>

\* Mutant of UpdateRange: a first signal is compared like a later one.
UpdateRangeFirst ==
  /\ At("range")
  /\ sigrange' =
       IF call.func # "trap" THEN sigrange
       ELSE [min |-> IF call.sig < sigrange.min THEN call.sig ELSE sigrange.min,
             max |-> IF call.sig > sigrange.max THEN call.sig ELSE sigrange.max]
  /\ call' = NoCall
  /\ Goto("idle")
  /\ UNCHANGED <<kernel, caught, sigarr, owed, killed>>

\* Mutant of UpdateRange: the upper end is left alone.
UpdateRangeMin ==
  /\ At("range")
  /\ sigrange' =
       IF call.func # "trap" THEN sigrange
       ELSE IF sigrange.min = 0 THEN [min |-> call.sig, max |-> call.sig]
       ELSE [min |-> IF call.sig < sigrange.min THEN call.sig ELSE sigrange.min,
             max |-> sigrange.max]
  /\ call' = NoCall
  /\ Goto("idle")
  /\ UNCHANGED <<kernel, caught, sigarr, owed, killed>>

\* UPDATE_RANGE, then return the name of the previous disposition.
UpdateRange ==
  /\ At("range")
  /\ sigrange' =
       IF call.func # "trap" THEN sigrange
       ELSE IF sigrange.min = 0 THEN [min |-> call.sig, max |-> call.sig]
       ELSE [min |-> IF call.sig < sigrange.min THEN call.sig ELSE sigrange.min,
             max |-> IF call.sig > sigrange.max THEN call.sig ELSE sigrange.max]
  /\ call' = NoCall
  /\ Goto("idle")
  /\ UNCHANGED <<kernel, caught, sigarr, owed, killed>>

-----------------------------------------------------------------------------
(* do_select                                                               *)

\* The arguments are read and the signals array is cleared.
CallSelect(dosig, timeout) ==
  /\ At("idle")
  /\ call' = [NoCall EXCEPT !.dosig = dosig, !.timeout = timeout]
  /\ sigarr' = IF dosig THEN {} ELSE sigarr
  /\ Goto("check")
  /\ UNCHANGED <<kernel, caught, sigrange, owed, killed>>

\* An array is missing or get_file fails: return -1.
SelectFails ==
  /\ At("check")
  /\ call' = NoCall
  /\ Goto("idle")
  /\ UNCHANGED <<kernel, caught, sigrange, sigarr, owed, killed>>

\* A quick poll if signals have been trapped, else the caller's timeout.
Check ==
  /\ At("check")
  /\ call' = IF call.dosig /\ caught.flag THEN [call EXCEPT !.timeout = "none"]
             ELSE call
  /\ Goto("enter")
  /\ UNCHANGED <<kernel, caught, sigrange, sigarr, owed, killed>>

\* select(2) starts to wait; until then a handler does not interrupt it.
Enter ==
  /\ At("enter")
  /\ Goto("wait")
  /\ UNCHANGED <<kernel, caught, sigrange, call, sigarr, owed, killed>>

\* A file is ready.
Ready ==
  /\ At("wait")
  /\ Goto("harvest")
  /\ UNCHANGED <<kernel, caught, sigrange, call, sigarr, owed, killed>>

\* The timeout expires.
Expire ==
  /\ At("wait")
  /\ call.timeout # "infinite"
  /\ Goto("harvest")
  /\ UNCHANGED <<kernel, caught, sigrange, call, sigarr, owed, killed>>

\* Mutant of Harvest: the signals are not blocked.
HarvestUnblocked ==
  /\ At("harvest")
  /\ IF call.dosig /\ caught.flag
       THEN /\ Goto("clear")
            /\ call' = [call EXCEPT !.oldset = blocked]
       ELSE /\ Goto("idle")
            /\ call' = NoCall
  /\ UNCHANGED <<kernel, caught, sigrange, sigarr, owed, killed>>

\* If a signal was trapped, all are blocked while caught is emptied.
Harvest ==
  /\ At("harvest")
  /\ IF call.dosig /\ caught.flag
       THEN /\ Goto("clear")
            /\ Block(Signals)
       ELSE /\ Goto("idle")
            /\ call' = NoCall
            /\ UNCHANGED blocked
  /\ UNCHANGED <<disp, pending, caught, sigrange, sigarr, owed, killed>>

ClearFlag ==
  /\ At("clear")
  /\ caught' = [caught EXCEPT !.flag = FALSE]
  /\ Goto("copy")
  /\ UNCHANGED <<kernel, sigrange, call, sigarr, owed, killed>>

CopyMask ==
  /\ At("copy")
  /\ call' = [call EXCEPT !.trapped = caught.mask]
  /\ Goto("empty")
  /\ UNCHANGED <<kernel, caught, sigrange, sigarr, owed, killed>>

EmptyMask ==
  /\ At("empty")
  /\ caught' = [caught EXCEPT !.mask = {}]
  /\ Goto("restore")
  /\ UNCHANGED <<kernel, sigrange, call, sigarr, owed, killed>>

Restore ==
  /\ At("restore")
  /\ blocked' = call.oldset
  /\ Goto("report")
  /\ UNCHANGED <<disp, pending, caught, sigrange, call, sigarr, owed, killed>>

InRange(set) == {s \in set : sigrange.min <= s /\ s <= sigrange.max}

\* Mutant of Report: the scan stops before sigrange.max.
ReportBelowMax ==
  /\ At("report")
  /\ sigarr' = {s \in InRange(call.trapped) : s < sigrange.max}
  /\ owed' = owed \ (sigarr' \ caught.mask)
  /\ call' = NoCall
  /\ Goto("idle")
  /\ UNCHANGED <<kernel, caught, sigrange, killed>>

\* The trapped signals between sigrange.min and sigrange.max are reported;
\* one that arrived again since Restore is still owed.
Report ==
  /\ At("report")
  /\ sigarr' = InRange(call.trapped)
  /\ owed' = owed \ (sigarr' \ caught.mask)
  /\ call' = NoCall
  /\ Goto("idle")
  /\ UNCHANGED <<kernel, caught, sigrange, killed>>

-----------------------------------------------------------------------------
Signal ==
  \/ Protect \/ Install \/ InstallFails \/ Decide \/ Rollback \/ Release
  \/ UpdateRange

Select ==
  \/ Check \/ Enter \/ Expire \/ Harvest \/ ClearFlag \/ CopyMask \/ EmptyMask
  \/ Restore \/ Report

\* What the awk program and the world do.
Environment ==
  \/ \E s \in Signals : Raise(s)
  \/ \E s \in Signals, override \in BOOLEAN,
        func \in {"default", "ignore", "trap"} : CallSignal(s, func, override)
  \/ \E dosig \in BOOLEAN, timeout \in {"finite", "infinite"} :
       (timeout = "infinite" => MayBlock) /\ CallSelect(dosig, timeout)
  \/ SelectFails
  \/ Ready

Handler(s) == SignalHandler(s) \/ OtherHandler(s) \/ DefaultAction(s)

\* A killed process does nothing any more.
Killed == killed /\ UNCHANGED vars

Next ==
  \/ Environment
  \/ \E s \in Signals : Handler(s)
  \/ Signal
  \/ Select
  \/ Killed

Spec == Init /\ [][Next]_vars

\* The program's event loop keeps calling select for its signals and its files
\* are not always unopenable then; functions go on, pending signals arrive.
Fairness ==
  /\ \A s \in Signals : WF_vars(Handler(s))
  /\ WF_vars(Signal) /\ WF_vars(Select)
  /\ SF_vars(CallSelect(TRUE, "finite"))
  /\ SF_vars(call.dosig /\ Check)

FairSpec == Spec /\ Fairness

-----------------------------------------------------------------------------
\* A trapped signal stays on record until select has put it in the array: it
\* is in caught.mask, or in the copy that do_select holds.
NoTrappedSignalLost == owed \subseteq caught.mask \cup call.trapped

\* Except while do_select moves the mask, the flag says whether there is
\* anything in it: select looks at the mask only when the flag is set.
FlagTellsMask ==
  pc \notin {"copy", "empty"} => (caught.mask # {} => caught.flag)

\* Whichever way do_signal and do_select return, they leave the signal mask as
\* they found it.
MaskRestored == pc \in {"idle", "check", "wait"} => blocked = Inherited

\* The scan from sigrange.min to sigrange.max in do_select passes over every
\* signal of the copied mask, whichever calls of select_signal set the range.
ReportMissesNone == pc = "report" => InRange(call.trapped) = call.trapped

\* do_signal has replaced somebody else's handler and will put it back.
Refused(s) ==
  /\ pc \in {"decide", "rollback"}
  /\ call.sig = s /\ call.prev = "other" /\ ~call.override

\* While such a call is under way the handler does not run for its signal
\* (PROTECT: "block this signal in case we need to roll back the handler").
RefusedNeverTrapped == [][\A s \in owed' \ owed : ~Refused(s)]_vars

\* In a program that keeps calling select, each trapped signal is reported.
CaughtIsReported ==
  \A s \in Signals : s \in owed ~> (s \in sigarr \/ killed)

\* The comment in do_select: with a trapped signal to report, "do not block".
\* A handler that runs between the test of the flag and select(2) defeats it.
NeverBlocksOnCaught ==
  ~(pc = "wait" /\ call.dosig /\ call.timeout = "infinite" /\ caught.flag)
=============================================================================
