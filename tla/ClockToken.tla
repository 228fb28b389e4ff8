----------------------------- MODULE ClockToken -----------------------------
(***************************************************************************)
(* Tokens with deadlines (base/cancel/clock_token.go, cancel/deadline), on *)
(* top of the token tree.  A clockToken wraps one token of the tree; it    *)
(* fixes its deadline when it is created, arms one timer with the          *)
(* scheduler, and stops that timer when its own Cancel is called.          *)
(*                                                                         *)
(* The tree is TokenTree, which RawToken implements.  Its goroutines are   *)
(* the callers and, for each token, the timer callback of that token       *)
(* (named by the token).  The scheduler is any timex.Scheduler: work with  *)
(* a delay of at most Soon may be run immediately, even before RunAfter    *)
(* returns; other work starts at its due time or later; and no queued work *)
(* starts after Stop.                                                      *)
(***************************************************************************)
EXTENDS Integers, Sequences

CONSTANTS Tokens, Callers, UserErrs, Nil,
          Timeouts,   \* durations given to OnTimeout
          Deadlines,  \* instants given to OnDeadline
          Soon,       \* the longest delay the scheduler may skip
          MaxOpts,    \* bound: options of one NewClockToken call
          MaxTime     \* bound: the clock stops here

VARIABLES
    created, up, cause, call,    \* the tree
    now,                         \* the monotonic clock
    held,                        \* tokens a caller may use
    clock,                       \* those that are clockTokens
    dl, timer, due,              \* deadline; timer state and due time
    pc, tok, from, lazyNow, delay  \* locals of each caller

treeVars == <<created, up, cause, call>>
clockVars == <<held, clock, dl, timer, due>>
callVars == <<pc, tok, from, lazyNow, delay>>
vars == <<treeVars, now, clockVars, callVars>>

\* The kinds of DeadlineSource, and the levels that NewSource demands of each.
OwnKinds == {"timeout", "absolute"}
AncestorKinds == {"ancestorTimeout", "ancestorAbsolute"}
Deadline == [at : Nat, kind : OwnKinds, level : {0}] \cup
            [at : Nat, kind : AncestorKinds, level : Nat \ {0}]
ExceededError(d) == [deadline |-> d]
Exceeded == [deadline : Deadline]

ASSUME ClockAssumption ==
    /\ Nil \notin Tokens \cup UserErrs \cup Exceeded \cup Deadline \cup Nat
    /\ Nil # "DeadlineExceeded"
    /\ Tokens \cap Callers = {}
    /\ UserErrs \cap Exceeded = {}
    /\ Timeouts \subseteq Nat /\ Deadlines \subseteq Nat
    /\ Soon \in Nat /\ MaxOpts \in Nat /\ MaxTime \in Nat

Tree == INSTANCE TokenTree WITH
            Procs <- Callers \cup Tokens,
            Errs  <- UserErrs \cup Exceeded

CancelOption == [kind : {"timeout"}, n : Timeouts] \cup [kind : {"absolute"}, n : Deadlines]
OptionLists == UNION {[1..k -> CancelOption] : k \in 0..MaxOpts}
-----------------------------------------------------------------------------
\* Fault: the level is copied.
ReinterpretAtSameLevel(d) ==
    [at    |-> d.at,
     kind  |-> CASE d.kind = "timeout"  -> "ancestorTimeout"
                 [] d.kind = "absolute" -> "ancestorAbsolute"
                 [] OTHER               -> d.kind,
     level |-> d.level]

\* Deadline.ReinterpretForChild: same instant, one level further up.
ReinterpretForChild(d) ==
    [at    |-> d.at,
     kind  |-> CASE d.kind = "timeout"  -> "ancestorTimeout"
                 [] d.kind = "absolute" -> "ancestorAbsolute"
                 [] OTHER               -> d.kind,
     level |-> d.level + 1]

\* The deadline an option stands for, if now is the instant of creation.
OptionDeadline(o, n) ==
    [at |-> IF o.kind = "timeout" THEN n + o.n ELSE o.n, kind |-> o.kind, level |-> 0]

\* soonest over a list of deadlines: a later one replaces an earlier one only
\* if it is strictly before it.
Soonest(ds) ==
    ds[CHOOSE i \in 1..Len(ds) :
           \A j \in 1..Len(ds) : ds[i].at < ds[j].at \/ (ds[i].at = ds[j].at /\ i <= j)]

Inherited(q) ==
    IF q \in clock /\ dl[q] # Nil THEN <<ReinterpretForChild(dl[q])>> ELSE <<>>

Candidates(q, opts) == Inherited(q) \o [i \in 1..Len(opts) |-> OptionDeadline(opts[i], now)]

\* Err() of AsStdlibContext(): the standard library's view of the cause.
StdlibContextErr(t) ==
    IF cause[t] = Nil THEN Nil
    ELSE IF cause[t] \in UserErrs THEN "Canceled" ELSE "DeadlineExceeded"

Init ==
    /\ Tree!Init
    /\ now = 0
    /\ held = {}
    /\ clock = {}
    /\ dl = [t \in Tokens |-> Nil]
    /\ timer = [t \in Tokens |-> "none"]
    /\ due = [t \in Tokens |-> 0]
    /\ pc = [p \in Callers |-> "idle"]
    /\ tok = [p \in Callers |-> Nil]
    /\ from = [p \in Callers |-> Nil]
    /\ lazyNow = [p \in Callers |-> Nil]
    /\ delay = [p \in Callers |-> 0]

Fresh(t) == t \notin created /\ \A p \in Callers : tok[p] # t

\* A token of the tree below q, or below Never() if q is Nil.
TreeChild(t, q) == IF q = Nil THEN Tree!NewRoot(t) ELSE Tree!NewChild(t, q)

Return(p) ==
    /\ pc' = [pc EXCEPT ![p] = "idle"]
    /\ tok' = [tok EXCEPT ![p] = Nil]
    /\ from' = [from EXCEPT ![p] = Nil]
    /\ lazyNow' = [lazyNow EXCEPT ![p] = Nil]
    /\ delay' = [delay EXCEPT ![p] = 0]

\* The new clockToken is returned to its caller.
ReturnClockToken(p) ==
    /\ Return(p)
    /\ held' = held \cup {tok[p]}
    /\ clock' = clock \cup {tok[p]}

\* NewChild on any token (a clockToken forwards it): the child is a plain
\* token, without a deadline of its own.
NewChild(p, t, q) ==
    /\ pc[p] = "idle"
    /\ Fresh(t)
    /\ q \in held \cup {Nil}
    /\ TreeChild(t, q)
    /\ held' = held \cup {t}
    /\ UNCHANGED <<now, clock, dl, timer, due, callVars>>

\* Fault: the parent's deadline is not among the candidates.
NewClockTokenNotInherited(p, t, q, opts) ==
    /\ pc[p] = "idle"
    /\ Fresh(t)
    /\ q \in held \cup {Nil}
    /\ LET ds == [i \in 1..Len(opts) |-> OptionDeadline(opts[i], now)]
       IN  dl' = [dl EXCEPT ![t] = IF ds = <<>> THEN Nil ELSE Soonest(ds)]
    /\ lazyNow' = [lazyNow EXCEPT ![p] = IF \E i \in 1..Len(opts) : opts[i].kind = "timeout"
                                         THEN now ELSE Nil]
    /\ tok' = [tok EXCEPT ![p] = t]
    /\ from' = [from EXCEPT ![p] = q]
    /\ pc' = [pc EXCEPT ![p] = "newChild"]
    /\ UNCHANGED <<treeVars, now, held, clock, timer, due, delay>>

\* NewClockToken(q, scheduler, opts...): the deadline is fixed first, the clock
\* read only if an option needs it.
NewClockToken(p, t, q, opts) ==
    /\ pc[p] = "idle"
    /\ Fresh(t)
    /\ q \in held \cup {Nil}
    /\ LET ds == Candidates(q, opts)
       IN  dl' = [dl EXCEPT ![t] = IF ds = <<>> THEN Nil ELSE Soonest(ds)]
    /\ lazyNow' = [lazyNow EXCEPT ![p] = IF \E i \in 1..Len(opts) : opts[i].kind = "timeout"
                                         THEN now ELSE Nil]
    /\ tok' = [tok EXCEPT ![p] = t]
    /\ from' = [from EXCEPT ![p] = q]
    /\ pc' = [pc EXCEPT ![p] = "newChild"]
    /\ UNCHANGED <<treeVars, now, held, clock, timer, due, delay>>

\* newClockTokenImpl: parent.NewChild(); without a deadline that is all ...
CreateWithoutDeadline(p) ==
    /\ pc[p] = "newChild"
    /\ dl[tok[p]] = Nil
    /\ TreeChild(tok[p], from[p])
    /\ ReturnClockToken(p)
    /\ UNCHANGED <<now, dl, timer, due>>

\* ... else the deadline is looked at next.
CreateWithDeadline(p) ==
    /\ pc[p] = "newChild"
    /\ dl[tok[p]] # Nil
    /\ TreeChild(tok[p], from[p])
    /\ pc' = [pc EXCEPT ![p] = "readClock"]
    /\ UNCHANGED <<now, clockVars, tok, from, lazyNow, delay>>

\* Fault: the operands of Sub are swapped.
ReadClockSwapped(p) ==
    LET n == IF lazyNow[p] = Nil THEN now ELSE lazyNow[p]
        d == n - dl[tok[p]].at
    IN  /\ pc[p] = "readClock"
        /\ delay' = [delay EXCEPT ![p] = d]
        /\ pc' = [pc EXCEPT ![p] = IF d <= 0 THEN "expire" ELSE "arm"]
        /\ UNCHANGED <<treeVars, now, clockVars, tok, from, lazyNow>>

\* delay := deadline - now, where now is the clock read earlier, if it was.
ReadClock(p) ==
    LET n == IF lazyNow[p] = Nil THEN now ELSE lazyNow[p]
        d == dl[tok[p]].at - n
    IN  /\ pc[p] = "readClock"
        /\ delay' = [delay EXCEPT ![p] = d]
        /\ pc' = [pc EXCEPT ![p] = IF d <= 0 THEN "expire" ELSE "arm"]
        /\ UNCHANGED <<treeVars, now, clockVars, tok, from, lazyNow>>

\* Fault: the error names the deadline as a child would see it.
ExpireNowReinterpreted(p) ==
    /\ pc[p] = "expire"
    /\ Tree!CallCancel(p, tok[p], ExceededError(ReinterpretForChild(dl[tok[p]])))
    /\ pc' = [pc EXCEPT ![p] = "expiring"]
    /\ UNCHANGED <<now, clockVars, tok, from, lazyNow, delay>>

\* delay <= 0: the child is canceled right away ...
ExpireNow(p) ==
    /\ pc[p] = "expire"
    /\ Tree!CallCancel(p, tok[p], ExceededError(dl[tok[p]]))
    /\ pc' = [pc EXCEPT ![p] = "expiring"]
    /\ UNCHANGED <<now, clockVars, tok, from, lazyNow, delay>>

\* (and if it was RunAfter that did it, c.timer is the handle of work that is over)
ExpireNowDone(p) ==
    /\ pc[p] = "expiring"
    /\ Tree!TakeEffect(p) \/ Tree!Ignore(p)
    /\ timer' = [timer EXCEPT ![tok[p]] = IF delay[p] > 0 THEN "done" ELSE @]
    /\ ReturnClockToken(p)
    /\ UNCHANGED <<now, dl, due>>

\* When RunAfter(d, f) may run f: after d or, if d is small, immediately.
RunTimes(d) == {now + d} \cup (IF d <= Soon THEN {now} ELSE {})

\* ... or a callback that cancels it is scheduled,
Arm(p) ==
    /\ pc[p] = "arm"
    /\ timer' = [timer EXCEPT ![tok[p]] = "armed"]
    /\ \E n \in RunTimes(delay[p]) : due' = [due EXCEPT ![tok[p]] = n]
    /\ ReturnClockToken(p)
    /\ UNCHANGED <<treeVars, now, dl>>

\* which RunAfter may also run itself before it returns.
RunAtOnce(p) ==
    /\ pc[p] = "arm"
    /\ now \in RunTimes(delay[p])
    /\ Tree!CallCancel(p, tok[p], ExceededError(dl[tok[p]]))
    /\ pc' = [pc EXCEPT ![p] = "expiring"]
    /\ UNCHANGED <<now, clockVars, tok, from, lazyNow, delay>>

\* Fault: Cancel stops the timer before it cancels the child.
CancelStopsFirst(p, t, e) ==
    /\ pc[p] = "idle"
    /\ t \in held
    /\ Tree!CallCancel(p, t, e)
    /\ pc' = [pc EXCEPT ![p] = "cancel"]
    /\ tok' = [tok EXCEPT ![p] = t]
    /\ timer' = [timer EXCEPT ![t] = IF @ = "armed" THEN "stopped" ELSE @]
    /\ UNCHANGED <<now, held, clock, dl, due, from, lazyNow, delay>>

\* Cancel(e) on a held token.
Cancel(p, t, e) ==
    /\ pc[p] = "idle"
    /\ t \in held
    /\ Tree!CallCancel(p, t, e)
    /\ pc' = [pc EXCEPT ![p] = "cancel"]
    /\ tok' = [tok EXCEPT ![p] = t]
    /\ UNCHANGED <<now, clockVars, from, lazyNow, delay>>

\* child.Cancel has returned; c.timer is nil ...
CancelWithoutTimer(p) ==
    /\ pc[p] = "cancel"
    /\ Tree!TakeEffect(p) \/ Tree!Ignore(p)
    /\ timer[tok[p]] = "none"
    /\ Return(p)
    /\ UNCHANGED <<now, clockVars>>

\* ... or has to be stopped,
CancelWithTimer(p) ==
    /\ pc[p] = "cancel"
    /\ Tree!TakeEffect(p) \/ Tree!Ignore(p)
    /\ timer[tok[p]] # "none"
    /\ pc' = [pc EXCEPT ![p] = "stop"]
    /\ UNCHANGED <<now, clockVars, tok, from, lazyNow, delay>>

\* Fault: Cancel tries again until Stop says that it stopped the timer.
StopTimerInsists(p) ==
    /\ pc[p] = "stop"
    /\ IF timer[tok[p]] = "armed"
       THEN /\ timer' = [timer EXCEPT ![tok[p]] = "stopped"]
            /\ Return(p)
            /\ UNCHANGED <<treeVars, now, held, clock, dl, due>>
       ELSE UNCHANGED vars

\* which may come too late.
StopTimer(p) ==
    /\ pc[p] = "stop"
    /\ timer' = [timer EXCEPT ![tok[p]] = IF @ = "armed" THEN "stopped" ELSE @]
    /\ Return(p)
    /\ UNCHANGED <<treeVars, now, held, clock, dl, due>>

\* The scheduler starts t's callback, which calls child.Cancel.
FireTimer(t) ==
    /\ timer[t] = "armed"
    /\ now >= due[t]
    /\ Tree!CallCancel(t, t, ExceededError(dl[t]))
    /\ timer' = [timer EXCEPT ![t] = "running"]
    /\ UNCHANGED <<now, held, clock, dl, due, callVars>>

\* Fault: the callback forgets to cancel the child.
TimerDoneNoCancel(t) ==
    /\ timer[t] = "running"
    /\ call' = [call EXCEPT ![t] = Tree!NoCall]
    /\ timer' = [timer EXCEPT ![t] = "done"]
    /\ UNCHANGED <<created, up, cause, now, held, clock, dl, due, callVars>>

\* The callback's child.Cancel: it cancels the token, or is too late.
TimerDone(t) ==
    /\ timer[t] = "running"
    /\ Tree!TakeEffect(t) \/ Tree!Ignore(t)
    /\ timer' = [timer EXCEPT ![t] = "done"]
    /\ UNCHANGED <<now, held, clock, dl, due, callVars>>

\* The propagation inside somebody's Cancel reaches t; it does not touch the
\* timer of t.
Propagate(t) ==
    /\ Tree!Propagate(t)
    /\ UNCHANGED <<now, clockVars, callVars>>

Tick ==
    /\ now < MaxTime
    /\ now' = now + 1
    /\ UNCHANGED <<treeVars, clockVars, callVars>>

CallerStep(p) ==
    \/ CreateWithoutDeadline(p)
    \/ CreateWithDeadline(p)
    \/ ReadClock(p)
    \/ ExpireNow(p)
    \/ ExpireNowDone(p)
    \/ Arm(p)
    \/ RunAtOnce(p)
    \/ CancelWithoutTimer(p)
    \/ CancelWithTimer(p)
    \/ StopTimer(p)

TimerStep(t) == FireTimer(t) \/ TimerDone(t)

Next ==
    \/ \E p \in Callers :
           \/ CallerStep(p)
           \/ \E t \in Tokens, q \in Tokens \cup {Nil} :
                  NewChild(p, t, q) \/ \E opts \in OptionLists : NewClockToken(p, t, q, opts)
           \/ \E t \in Tokens, e \in UserErrs : Cancel(p, t, e)
    \/ \E t \in Tokens : TimerStep(t) \/ Propagate(t)
    \/ Tick

SafeSpec == Init /\ [][Next]_vars

\* Goroutines inside a call are scheduled, due callbacks start, the clock goes
\* on; nobody has to call anything.
Spec ==
    /\ SafeSpec
    /\ \A p \in Callers : WF_vars(CallerStep(p))
    /\ \A t \in Tokens : WF_vars(TimerStep(t)) /\ WF_vars(Propagate(t))
    /\ WF_vars(Tick)
-----------------------------------------------------------------------------
\* The fields of clockToken and the locals of NewClockToken and Cancel.  Every
\* deadline satisfies the preconditions of NewSource, and every clockToken that
\* exists for others has been handed out.
TypeOK ==
    /\ Tree!TypeOK
    /\ now \in Nat
    /\ held \in SUBSET Tokens /\ clock \in SUBSET held
    /\ dl \in [Tokens -> Deadline \cup {Nil}]
    /\ timer \in [Tokens -> {"none", "armed", "running", "done", "stopped"}]
    /\ due \in [Tokens -> Nat]
    /\ pc \in [Callers -> {"idle", "newChild", "readClock", "expire", "expiring", "arm", "cancel", "stop"}]
    /\ tok \in [Callers -> Tokens \cup {Nil}]
    /\ from \in [Callers -> Tokens \cup {Nil}]
    /\ lazyNow \in [Callers -> Nat \cup {Nil}]
    /\ delay \in [Callers -> Int]

\* No token is canceled for a deadline that is further ahead than the delay the
\* scheduler may skip, on whichever way the error got there: the token's own
\* timer, an expiry during construction, or the propagation from a canceled
\* ancestor; so Err() of the context does not say DeadlineExceeded earlier.
\* NewClockToken adds nothing to what RunAfter may do: with a scheduler that
\* skips no delay (Soon = 0, as time.AfterFunc) no expiry is early.
NoEarlyExpiry ==
    \A t \in created :
        StdlibContextErr(t) = "DeadlineExceeded" => cause[t].deadline.at <= now + Soon

\* A DeadlineExceeded error comes from the token's own deadline or from a
\* parent that has the same error: it can be traced to the ancestor whose
\* deadline it names.
CauseTraceable ==
    \A t \in created :
        StdlibContextErr(t) = "DeadlineExceeded" =>
            \/ dl[t] = cause[t].deadline
            \/ up[t] # Nil /\ cause[up[t]] = cause[t]

\* Whatever a token's deadline is, it fits the parent q it has or will have.
DeadlineFits(t, q) ==
    /\ q \in clock /\ dl[q] # Nil => dl[t] # Nil /\ dl[t].at <= dl[q].at
    /\ dl[t] # Nil =>
           IF dl[t].kind \in OwnKinds
           THEN dl[t].level = 0
           ELSE q \in clock /\ dl[t] = ReinterpretForChild(dl[q])

\* A clockToken below a clockToken never outlives it: it has a deadline if the
\* parent has one, and not a later one; and its DeadlineSource says truthfully
\* whether that deadline is its own or the parent's.
TightestDeadline == \A t \in clock : DeadlineFits(t, up[t])

\* A deadline is given up only for a token that is canceled: Cancel stops the
\* timer after it has canceled the child, and a clockToken that was returned
\* with a deadline and is alive has its callback still to come.
LiveTokensHaveTimers ==
    \A t \in clock :
        cause[t] = Nil /\ dl[t] # Nil =>
            timer[t] \in {"armed", "running"} /\ (timer[t] = "armed" => due[t] + Soon >= dl[t].at)

Building == {"newChild", "readClock", "expire", "expiring", "arm"}

\* A token that NewClockToken has not returned yet belongs to that call alone.
OwnsToken(p) ==
    /\ pc[p] = "idle" => tok[p] = Nil
    /\ pc[p] \in {"cancel", "stop"} => tok[p] \in held
    /\ pc[p] \in Building =>
           /\ tok[p] \in Tokens \ held
           /\ from[p] \in held \cup {Nil}
           /\ \A r \in Callers \ {p} : tok[r] # tok[p]
           /\ DeadlineFits(tok[p], from[p])
           /\ IF pc[p] = "newChild" THEN tok[p] \notin created
              ELSE tok[p] \in created /\ up[tok[p]] = from[p] /\ dl[tok[p]] # Nil

\* The instant a call works with, against the deadline; Cancel stops a timer
\* only when the token is canceled.
OnTime(p) ==
    /\ lazyNow[p] # Nil => lazyNow[p] <= now
    /\ pc[p] = "expire" => dl[tok[p]].at <= now
    /\ pc[p] = "expiring" => dl[tok[p]].at <= now + Soon
    /\ pc[p] = "arm" => delay[p] > 0 /\ dl[tok[p]].at <= now + delay[p]
    /\ pc[p] = "stop" => cause[tok[p]] # Nil

\* The Cancel call a caller is in, and the one of a timer callback.
CallerCall(p) ==
    call[p] # Tree!NoCall =>
        \/ pc[p] = "cancel" /\ call[p].err \in UserErrs /\ call[p].tok = tok[p]
        \/ pc[p] = "expiring" /\ call[p] = [tok |-> tok[p], err |-> ExceededError(dl[tok[p]])]

CallbackCall(t) ==
    IF timer[t] = "running"
    THEN call[t] = [tok |-> t, err |-> ExceededError(dl[t])]
    ELSE call[t] = Tree!NoCall

\* A timer belongs to a clockToken with a deadline, does not come due more than
\* Soon before it, and is given up only when the token is canceled.
TimerSound(t) ==
    /\ timer[t] # "none" => t \in clock /\ dl[t] # Nil
    /\ timer[t] = "armed" => dl[t].at <= due[t] + Soon
    /\ timer[t] = "running" => dl[t].at <= now + Soon
    /\ timer[t] \in {"done", "stopped"} => cause[t] # Nil
    /\ timer[t] = "none" /\ t \in clock => dl[t] = Nil \/ cause[t] # Nil

\* The tree below the deadlines: what is held exists, parents are held, and a
\* token that does not exist yet has no parent and no cause.
TreeSound ==
    /\ held \subseteq created
    /\ \A t \in created : up[t] \in held \cup {Nil}
    /\ \A t \in Tokens \ created : up[t] = Nil /\ cause[t] = Nil

\* An expiry names a deadline that is over or at most Soon ahead, the token's
\* own or the parent's cause.
ExpirySound ==
    \A t \in Tokens :
        cause[t] \in Exceeded =>
            /\ cause[t].deadline.at <= now + Soon
            /\ dl[t] = cause[t].deadline \/ (up[t] # Nil /\ cause[up[t]] = cause[t])

\* An inductive invariant: it implies the five invariants above and is preserved by
\* every step of every caller, callback, propagation and of the clock.
IInv ==
    /\ TypeOK
    /\ TreeSound
    /\ \A p \in Callers : OwnsToken(p) /\ OnTime(p) /\ CallerCall(p)
    /\ \A t \in Tokens : CallbackCall(t) /\ TimerSound(t)
    /\ TightestDeadline
    /\ ExpirySound

\* An armed timer that comes due before the clock stops cancels the token,
\* unless somebody else does.
DeadlineHappens ==
    \A t \in Tokens : (timer[t] = "armed" /\ due[t] <= MaxTime) ~> (cause[t] # Nil)

\* Every call returns.
CallsReturn == \A p \in Callers : (pc[p] # "idle") ~> (pc[p] = "idle")
=============================================================================
