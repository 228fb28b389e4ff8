-------------------------- MODULE ClockTokenProofs --------------------------
(*****************************************************************************)
(* The safety of tokens with deadlines, for every set of tokens, callers,    *)
(* errors, timeouts and deadlines.  Every step of a caller (NewClockToken,   *)
(* NewChild and Cancel of clock_token.go) and of a timer's callback keeps    *)
(* the invariant of ClockToken; so it is one, and the properties follow.     *)
(*****************************************************************************)
EXTENDS ClockTokenLemmas

\* NewClockToken fixes the deadline of a token nobody knows yet.
LEMMA NewClockTokenStep ==
    ASSUME IInv, NEW p \in Callers, NEW t \in Tokens, NEW q \in Tokens \cup {Nil},
           NEW opts \in OptionLists, NewClockToken(p, t, q, opts)
    PROVE  IInv'
<1>. DEFINE d == LET ds == Candidates(q, opts) IN IF ds = <<>> THEN Nil ELSE Soonest(ds)
<1>1. /\ t \notin created /\ (\A r \in Callers : tok[r] # t) /\ q \in held \cup {Nil} /\ pc[p] = "idle"
      /\ t \notin held /\ t \notin clock /\ t # q
    BY Parts, Zenon DEF NewClockToken, Fresh
<1>2. dl' = [dl EXCEPT ![t] = d]
    BY Zenon DEF NewClockToken
<1>3. /\ d \in Deadline \cup {Nil}
      /\ q \in clock /\ dl[q] # Nil => d # Nil /\ d.at <= dl[q].at
      /\ d # Nil =>
             IF d.kind \in OwnKinds
             THEN d.level = 0
             ELSE q \in clock /\ d = ReinterpretForChild(dl[q])
    <2>. HIDE DEF d
    <2>. QED BY <1>1, ChosenDeadlineFits DEF d
<1>. HIDE DEF d
<1>4. dl'[t] = d /\ (\A u \in Tokens \ {t} : dl'[u] = dl[u]) /\ dl' \in [Tokens -> Deadline \cup {Nil}]
    BY <1>2, <1>3, Parts, Zenon DEF FieldsTyped
<1>5. UNCHANGED <<created, up, cause, call, now, held, clock, timer, due>>
    BY Zenon DEF NewClockToken, treeVars
<1>6. /\ Others(p) /\ pc'[p] = "newChild" /\ tok'[p] = t /\ from'[p] = q
      /\ lazyNow'[p] \in {Nil, now} /\ LocalsTyped'
    <2>1. now \in Nat
        BY Parts, Zenon DEF FieldsTyped
    <2>. QED BY <2>1, Parts, Zenon DEF LocalsTyped, Others, NewClockToken
<1>7. TreeTyped' /\ FieldsTyped'
    BY <1>4, <1>5, Parts, Zenon DEF TreeTyped, Tree!TypeOK, Tree!Calls, Tree!NoCall, FieldsTyped
<1>8. OnlyNew(t)
    BY <1>1, <1>4, <1>5, Zenon DEF OnlyNew, CausesStay
<1>9. TreeSound'
    BY <1>5, Parts, Zenon DEF TreeSound
<1>10. ExpirySound'
    <2>1. cause[t] \notin Exceeded
        BY <1>1, Parts, ClockAssumption, Zenon DEF TreeSound
    <2>. QED BY <1>4, <1>5, <2>1, Parts, Zenon DEF ExpirySound
<1>11. OwnsToken(p)'
    <2>1. DeadlineFits(t, q)'
        <3>1. clock' = clock /\ dl'[t] = d
            BY <1>4, <1>5, Zenon
        <3>2. CASE q \in clock
            <4>1. q \in Tokens \ {t} /\ dl'[q] = dl[q]
                BY <1>1, <1>4, <3>2, Parts, Zenon
            <4>. QED BY <1>3, <3>1, <3>2, <4>1, Zenon DEF DeadlineFits, ReinterpretForChild
        <3>3. CASE q \notin clock
            BY <1>3, <3>1, <3>3, Zenon DEF DeadlineFits
        <3>. QED BY <3>2, <3>3, Zenon
    <2>2. DeadlineFits(tok[p], from[p])'
        BY <1>6, <2>1, Zenon DEF DeadlineFits
    <2>3. \A r \in Callers \ {p} : tok'[r] # t
        BY <1>1, <1>6, Zenon DEF Others
    <2>. QED BY <1>1, <1>5, <1>6, <2>2, <2>3, Zenon DEF OwnsToken, Building
<1>12. OnTime(p)'
    BY <1>5, <1>6, Parts DEF OnTime, FieldsTyped
<1>13. CallerCall(p)'
    BY <1>1, <1>5, Apart, Zenon DEF CallerCall, Tree!NoCall
<1>14. timer[t] = "none"
    BY <1>1, Parts, Zenon DEF TimerSound
<1>15. CallbackCall(t)' /\ TimerSound(t)'
    <2>1. CallbackCall(t) /\ call'[t] = call[t] /\ timer'[t] = "none" /\ t \notin clock'
        BY <1>1, <1>5, <1>14, Parts, Zenon
    <2>. QED BY <1>14, <2>1, NotRunning, NoTimerYet, Zenon
<1>. QED BY <1>1, <1>5, <1>6, <1>7, <1>8, <1>9, <1>10, <1>11, <1>12, <1>13, <1>15, CallerStepKeeps,
            Zenon

\* NewChild hands out a token without a deadline.
LEMMA NewChildStep ==
    ASSUME IInv, NEW p \in Callers, NEW t \in Tokens, NEW q \in Tokens \cup {Nil}, NewChild(p, t, q)
    PROVE  IInv'
<1>1. /\ (\A r \in Callers : tok[r] # t) /\ q \in held \cup {Nil} /\ pc[p] = "idle" /\ TreeChild(t, q)
      /\ held' = held \cup {t} /\ UNCHANGED <<now, clock, dl, timer, due>>
      /\ UNCHANGED <<pc, tok, from, lazyNow, delay>>
    BY Zenon DEF NewChild, Fresh, callVars
<1>2. /\ t \notin created /\ created' = created \cup {t} /\ UNCHANGED call
      /\ up'[t] = q /\ (\A u \in Tokens \ {t} : up'[u] = up[u] /\ cause'[u] = cause[u])
      /\ TreeTyped' /\ CausesStay /\ ExpirySound'
    BY <1>1, ChildAdded, Zenon
<1>3. t \notin held /\ t \notin clock
    BY <1>2, Parts, Zenon
<1>4. Others(p) /\ LocalsTyped' /\ FieldsTyped'
    BY <1>1, Parts, Zenon DEF Others, LocalsTyped, FieldsTyped
<1>5. OnlyNew(t)
    BY <1>1, <1>2, <1>3, Zenon DEF OnlyNew
<1>6. TreeSound'
    BY <1>1, <1>2, Parts, Zenon DEF TreeSound
<1>7. OwnsToken(p) /\ OnTime(p) /\ tok[p] = Nil /\ call[p] = Tree!NoCall
    BY <1>1, Parts, Apart, Zenon DEF OwnsToken
<1>8. OwnsToken(p)' /\ OnTime(p)' /\ CallerCall(p)'
    BY <1>1, <1>2, <1>7, Zenon DEF OwnsToken, OnTime, CallerCall, Building, Tree!NoCall
<1>9. CallbackCall(t)' /\ TimerSound(t)'
    BY <1>1, <1>2, <1>3, Parts, Zenon DEF CallbackCall, TimerSound, Tree!NoCall
<1>10. \A r \in Callers \ {p} : pc[r] \in Building => tok[r] # t /\ tok'[p] # tok[r]
    BY <1>1, <1>7, Apart, Parts, Zenon
<1>. QED BY <1>1, <1>2, <1>3, <1>4, <1>5, <1>6, <1>8, <1>9, <1>10, CallerStepKeeps, Zenon

\* newClockTokenImpl without a deadline hands out the child as it is.
LEMMA CreateWithoutDeadlineStep ==
    ASSUME IInv, NEW p \in Callers, CreateWithoutDeadline(p)
    PROVE  IInv'
<1>1. pc[p] = "newChild" /\ pc[p] \in Building
    BY Zenon DEF CreateWithoutDeadline, Building
<1>2. PICK x \in Tokens : x = tok[p]
    BY <1>1, Apart, Zenon
<1>3. /\ x \notin created /\ created' = created \cup {x} /\ UNCHANGED call
      /\ up'[x] = from[p] /\ (\A u \in Tokens \ {x} : up'[u] = up[u] /\ cause'[u] = cause[u])
      /\ TreeTyped' /\ CausesStay /\ ExpirySound'
    BY <1>1, <1>2, Apart, ChildAdded DEF CreateWithoutDeadline
<1>4. UNCHANGED <<now, dl, timer, due>> /\ ReturnClockToken(p) /\ dl[x] = Nil
    BY <1>2, Zenon DEF CreateWithoutDeadline
<1>5. call[p] = Tree!NoCall /\ timer[x] = "none"
    BY <1>1, <1>2, Apart, Zenon
<1>6. CallbackCall(x)' /\ TimerSound(x)'
    <2>1. CallbackCall(x) /\ call'[x] = call[x] /\ timer'[x] = "none"
        BY <1>3, <1>4, <1>5, Parts, Zenon
    <2>2. dl'[x] = Nil \/ cause'[x] # Nil
        BY <1>4, <1>5, Zenon
    <2>. QED BY <1>5, <2>1, <2>2, NotRunning, NoTimerYet, Zenon
<1>7. /\ timer' \in [Tokens -> {"none", "armed", "running", "done", "stopped"}] /\ due' \in [Tokens -> Nat]
      /\ \A u \in Tokens \ created : cause[u] = Nil
    BY <1>4, Parts, Zenon DEF FieldsTyped, TreeSound
<1>8. call'[p] = Tree!NoCall
    BY <1>3, <1>5, Zenon DEF Tree!NoCall
<1>. QED BY <1>1, <1>2, <1>3, <1>4, <1>6, <1>7, <1>8, BuilderReturns, Zenon

\* newClockTokenImpl with a deadline keeps the child to itself for now.
LEMMA CreateWithDeadlineStep ==
    ASSUME IInv, NEW p \in Callers, CreateWithDeadline(p)
    PROVE  IInv'
<1>1. pc[p] = "newChild" /\ pc[p] \in Building
    BY Zenon DEF CreateWithDeadline, Building
<1>2. PICK x \in Tokens : x = tok[p]
    BY <1>1, Apart, Zenon
<1>3. UNCHANGED <<now, held, clock, dl, timer, due, tok, from, lazyNow, delay>> /\ dl[x] # Nil
    BY <1>2, Zenon DEF CreateWithDeadline, clockVars
<1>4. /\ x \notin created /\ created' = created \cup {x} /\ UNCHANGED call
      /\ up'[x] = from[p] /\ (\A u \in Tokens \ {x} : up'[u] = up[u] /\ cause'[u] = cause[u])
      /\ TreeTyped' /\ CausesStay /\ ExpirySound'
    BY <1>1, <1>2, <1>3, Apart, ChildAdded, Zenon DEF CreateWithDeadline
<1>5. Others(p) /\ LocalsTyped' /\ pc'[p] = "readClock"
    <2>1. pc' = [pc EXCEPT ![p] = "readClock"] /\ UNCHANGED <<tok, from, lazyNow, delay>>
        BY Zenon DEF CreateWithDeadline
    <2>. QED BY <2>1, Parts, Zenon DEF LocalsTyped, Others
<1>6. /\ x \notin held /\ x \notin clock /\ timer[x] = "none" /\ call[p] = Tree!NoCall
      /\ \A r \in Callers \ {p} : tok[r] # x
    BY <1>1, <1>2, Apart, Parts, Zenon
<1>7. FieldsTyped' /\ OnlyNew(x)
    BY <1>3, <1>4, <1>6, Parts, Zenon DEF FieldsTyped, OnlyNew
<1>8. TreeSound'
    <2>1. from[p] \in held \cup {Nil}
        BY <1>1, Apart, Zenon
    <2>2. held' \subseteq created' /\ \A t \in created' : up'[t] \in held' \cup {Nil}
        BY <1>2, <1>3, <1>4, <2>1, Parts, Zenon DEF TreeSound
    <2>3. \A t \in Tokens \ created' : up'[t] = Nil /\ cause'[t] = Nil
        BY <1>4, Parts, Zenon DEF TreeSound
    <2>. QED BY <2>2, <2>3, Zenon DEF TreeSound
<1>9. OwnsToken(p)'
    <2>1. OwnsToken(p)
        BY Parts, Zenon
    <2>2. tok'[p] = tok[p] /\ from'[p] = from[p] /\ \A r \in Callers : tok'[r] = tok[r]
        BY <1>3, Zenon
    <2>3. DeadlineFits(tok[p], from[p])'
        BY <1>1, <1>3, <2>1, Zenon DEF OwnsToken, DeadlineFits, ReinterpretForChild
    <2>. QED BY <1>1, <1>2, <1>3, <1>4, <1>5, <2>1, <2>2, <2>3, Zenon DEF OwnsToken, Building
<1>10. OnTime(p)' /\ CallerCall(p)'
    BY <1>3, <1>4, <1>5, <1>6, Parts, Zenon DEF OnTime, CallerCall, Tree!NoCall
<1>11. CallbackCall(x)' /\ TimerSound(x)'
    BY <1>3, <1>4, <1>6, Parts, Zenon DEF CallbackCall, TimerSound, Tree!NoCall
<1>12. \A r \in Callers \ {p} : pc[r] \in Building => tok[r] # x /\ tok'[p] # tok[r]
    BY <1>2, <1>3, <1>6, Zenon
<1>. QED BY <1>3, <1>4, <1>5, <1>6, <1>7, <1>8, <1>9, <1>10, <1>11, <1>12, CallerStepKeeps, Zenon

\* The delay is measured from an instant that is not in the future.
LEMMA ReadClockStep ==
    ASSUME IInv, NEW p \in Callers, ReadClock(p)
    PROVE  IInv'
<1>. DEFINE n == IF lazyNow[p] = Nil THEN now ELSE lazyNow[p]
            e == dl[tok[p]].at - n
<1>1. pc[p] = "readClock" /\ pc[p] \in Building /\ OwnsToken(p) /\ OnTime(p)
    BY Parts, Zenon DEF ReadClock, Building
<1>2. tok[p] \in Tokens /\ dl[tok[p]].at \in Nat
    BY <1>1, Parts, Zenon DEF OwnsToken
<1>3. n \in Nat /\ n <= now /\ now \in Nat
    <2>1. now \in Nat /\ lazyNow[p] \in Nat \cup {Nil}
        BY Parts, Zenon DEF FieldsTyped, LocalsTyped
    <2>2. lazyNow[p] # Nil => lazyNow[p] <= now
        BY <1>1, Zenon DEF OnTime
    <2>. QED BY <2>1, <2>2
<1>4. /\ delay' = [delay EXCEPT ![p] = e] /\ pc' = [pc EXCEPT ![p] = IF e <= 0 THEN "expire" ELSE "arm"]
      /\ UNCHANGED <<tok, from, lazyNow>> /\ UNCHANGED <<created, up, cause, call, now, held, clock, dl, timer, due>>
    BY Zenon DEF ReadClock, treeVars, clockVars
<1>. HIDE DEF n
<1>5. e \in Int /\ (e <= 0 => dl[tok[p]].at <= now) /\ dl[tok[p]].at <= now + e
    <2>1. PICK d \in Nat : d = dl[tok[p]].at
        BY <1>2, Zenon
    <2>2. e = d - n
        BY <2>1, Zenon
    <2>. QED BY <1>3, <2>1, <2>2
<1>. HIDE DEF e
<1>6. Others(p) /\ LocalsTyped' /\ pc'[p] = (IF e <= 0 THEN "expire" ELSE "arm") /\ delay'[p] = e
    BY <1>4, <1>5, Parts, Zenon DEF Others, LocalsTyped
<1>7. TreeTyped' /\ FieldsTyped' /\ CausesStay /\ TreeSound' /\ ExpirySound'
    BY <1>4, Parts, TreeStays, Zenon DEF TreeTyped, Tree!TypeOK, Tree!Calls, Tree!NoCall, FieldsTyped
<1>8. OwnsToken(p)'
    BY <1>1, <1>4, <1>6, StillOwns, Zenon
<1>9. OnTime(p)'
    <2>1. lazyNow'[p] = lazyNow[p] /\ now' = now /\ dl'[tok'[p]].at = dl[tok[p]].at
        BY <1>4, Zenon
    <2>2. lazyNow[p] # Nil => lazyNow[p] <= now
        BY <1>1, Zenon DEF OnTime
    <2>3. CASE e <= 0
        <3>1. pc'[p] = "expire" /\ dl[tok[p]].at <= now
            BY <1>5, <1>6, <2>3, Zenon
        <3>. QED BY <2>1, <2>2, <3>1, Zenon DEF OnTime
    <2>4. CASE ~(e <= 0)
        <3>1. pc'[p] = "arm" /\ delay'[p] > 0 /\ delay'[p] = e /\ dl[tok[p]].at <= now + e
            BY <1>5, <1>6, <2>4
        <3>. QED BY <2>1, <2>2, <3>1, Zenon DEF OnTime
    <2>. QED BY <2>3, <2>4, Zenon
<1>10. CallerCall(p)'
    BY <1>1, <1>4, Apart, Zenon DEF CallerCall, Tree!NoCall
<1>11. OnlyNew(Nil)
    BY <1>4, <1>7, OnlyNothing, Zenon
<1>12. \A r \in Callers \ {p} : pc[r] \in Building => tok[r] # Nil /\ tok'[p] # tok[r]
    BY <1>4, Apart, Parts, Zenon
<1>. QED BY <1>4, <1>6, <1>7, <1>8, <1>9, <1>10, <1>11, <1>12, CallerStepKeeps, Parts, Zenon

\* RunAfter's work is run at most Soon before the delay is over (scheduler.go).
LEMMA RunTimesBound ==
    ASSUME NEW d \in Int, d > 0, now \in Nat, NEW n \in RunTimes(d)
    PROVE  n \in Nat /\ now + d <= n + Soon
<1>1. Soon \in Nat
    BY ClockAssumption, Zenon
<1>. QED BY <1>1 DEF RunTimes

\* A deadline that is over, or close, is the error of the Cancel that the
\* construction makes.
LEMMA ExpiringStarts ==
    ASSUME IInv, NEW p \in Callers, pc[p] \in {"expire", "arm"}, dl[tok[p]].at <= now + Soon,
           Tree!CallCancel(p, tok[p], ExceededError(dl[tok[p]])),
           pc' = [pc EXCEPT ![p] = "expiring"],
           UNCHANGED <<now, clockVars, tok, from, lazyNow, delay>>
    PROVE  IInv'
<1>1. OwnsToken(p) /\ OnTime(p) /\ pc[p] \in Building
    BY Parts, Zenon DEF Building
<1>2. tok[p] \in Tokens /\ ExceededError(dl[tok[p]]) \in Exceeded
    BY <1>1, Parts, Zenon DEF OwnsToken, ExceededError, Exceeded
<1>3. /\ UNCHANGED <<created, up, cause>> /\ call'[p] = [tok |-> tok[p], err |-> ExceededError(dl[tok[p]])]
      /\ (\A r \in (Callers \cup Tokens) \ {p} : call'[r] = call[r])
      /\ TreeTyped'
    BY <1>2, CancelStarts, Zenon
<1>4. UNCHANGED <<now, held, clock, dl, timer, due, tok, from, lazyNow, delay>>
    BY Zenon DEF clockVars
<1>5. Others(p) /\ LocalsTyped' /\ pc'[p] = "expiring"
    <2>1. pc' = [pc EXCEPT ![p] = "expiring"] /\ UNCHANGED <<tok, from, lazyNow, delay>>
        BY Zenon
    <2>. QED BY <2>1, Parts, Zenon DEF LocalsTyped, Others
<1>6. FieldsTyped' /\ CausesStay /\ TreeSound' /\ ExpirySound'
    BY <1>3, <1>4, Parts, TreeStays, Zenon DEF FieldsTyped
<1>7. OwnsToken(p)'
    BY <1>1, <1>3, <1>4, <1>5, StillOwns, Zenon
<1>8. OnTime(p)' /\ CallerCall(p)'
    BY <1>1, <1>3, <1>4, <1>5, Zenon DEF OnTime, CallerCall
<1>9. OnlyNew(Nil)
    BY <1>3, <1>4, <1>6, OnlyNothing, Zenon
<1>10. \A r \in Callers \ {p} : pc[r] \in Building => tok[r] # Nil /\ tok'[p] # tok[r]
    BY <1>4, Apart, Parts
<1>. QED BY <1>3, <1>4, <1>5, <1>6, <1>7, <1>8, <1>9, <1>10, CallerStepKeeps, Parts, Zenon

\* The construction's own Cancel, called because the deadline is over or, from
\* RunAfter, close.
LEMMA ExpireNowStep ==
    ASSUME IInv, NEW p \in Callers, ExpireNow(p)
    PROVE  IInv'
<1>1. pc[p] = "expire" /\ OnTime(p) /\ OwnsToken(p)
    BY Parts, Zenon DEF ExpireNow
<1>2. dl[tok[p]].at <= now + Soon
    <2>1. dl[tok[p]].at \in Nat /\ now \in Nat /\ Soon \in Nat /\ dl[tok[p]].at <= now
        BY <1>1, Parts, ClockAssumption, Zenon DEF OwnsToken, OnTime, Building, FieldsTyped
    <2>. QED BY <2>1
<1>. QED BY <1>1, <1>2, ExpiringStarts, Zenon DEF ExpireNow

\* RunAfter runs the callback itself only if the deadline is at most Soon ahead.
LEMMA RunAtOnceStep ==
    ASSUME IInv, NEW p \in Callers, RunAtOnce(p)
    PROVE  IInv'
<1>1. pc[p] = "arm" /\ OnTime(p) /\ OwnsToken(p)
    BY Parts, Zenon DEF RunAtOnce
<1>2. dl[tok[p]].at <= now + Soon
    <2>1. /\ dl[tok[p]].at \in Nat /\ now \in Nat /\ delay[p] \in Int
          /\ delay[p] > 0 /\ dl[tok[p]].at <= now + delay[p] /\ now \in RunTimes(delay[p])
        BY <1>1, Parts, Zenon DEF RunAtOnce, OwnsToken, OnTime, Building, FieldsTyped, LocalsTyped
    <2>2. now + delay[p] <= now + Soon
        BY <2>1, RunTimesBound, Zenon
    <2>3. Soon \in Nat
        BY ClockAssumption, Zenon
    <2>. QED BY <2>1, <2>2, <2>3
<1>. QED BY <1>1, <1>2, ExpiringStarts, Zenon DEF RunAtOnce

\* A token that expired during construction is handed out canceled.
LEMMA ExpireNowDoneStep ==
    ASSUME IInv, NEW p \in Callers, ExpireNowDone(p)
    PROVE  IInv'
<1>1. pc[p] = "expiring" /\ pc[p] \in Building /\ OwnsToken(p)
    BY Parts, Zenon DEF ExpireNowDone, Building
<1>2. PICK x \in Tokens : x = tok[p]
    BY <1>1, Apart, Zenon
<1>3. /\ UNCHANGED <<now, dl, due>> /\ ReturnClockToken(p)
      /\ timer' = [timer EXCEPT ![x] = IF delay[p] > 0 THEN "done" ELSE timer[x]]
    BY <1>2, Zenon DEF ExpireNowDone
<1>4. /\ UNCHANGED <<created, up>> /\ call'[p] = Tree!NoCall
      /\ (\A r \in (Callers \cup Tokens) \ {p} : call'[r] = call[r])
      /\ call[p].tok = tok[p] /\ cause'[call[p].tok] # Nil
      /\ TreeTyped' /\ CausesStay /\ ExpirySound' /\ \A t \in Tokens \ created : cause'[t] = Nil
    BY <1>3, CancelReturns, Zenon DEF ExpireNowDone
<1>5. x \in created /\ up[x] = from[p] /\ timer[x] = "none" /\ cause'[x] # Nil /\ x \notin Callers
    BY <1>1, <1>2, <1>4, Apart, ClockAssumption, Zenon DEF OwnsToken
<1>6. CallbackCall(x)' /\ TimerSound(x)'
    <2>1. CallbackCall(x) /\ call'[x] = call[x] /\ timer'[x] \in {"none", "done"}
        BY <1>3, <1>4, <1>5, Parts, Zenon DEF FieldsTyped
    <2>2. x \in clock' /\ dl'[x] # Nil
        BY <1>1, <1>2, <1>3, Apart, Zenon DEF OwnsToken, ReturnClockToken
    <2>3. TimerSound(x)'
        BY <1>5, <2>1, <2>2, Zenon DEF TimerSound
    <2>. QED BY <1>5, <2>1, <2>3, NotRunning, Zenon
<1>7. /\ timer' \in [Tokens -> {"none", "armed", "running", "done", "stopped"}] /\ due' \in [Tokens -> Nat]
      /\ \A u \in Tokens \ {x} : timer'[u] = timer[u] /\ due'[u] = due[u]
    BY <1>3, Parts, Zenon DEF FieldsTyped
<1>8. created' = created \cup {x} /\ up'[x] = from[p]
    BY <1>4, <1>5, Zenon
<1>. QED BY <1>1, <1>2, <1>3, <1>4, <1>6, <1>7, <1>8, BuilderReturns, Zenon

\* The timer is due at most Soon before the deadline.
LEMMA ArmStep ==
    ASSUME IInv, NEW p \in Callers, Arm(p)
    PROVE  IInv'
<1>1. pc[p] = "arm" /\ pc[p] \in Building /\ OwnsToken(p) /\ OnTime(p)
    BY Parts, Zenon DEF Arm, Building
<1>2. PICK x \in Tokens : x = tok[p]
    BY <1>1, Apart, Zenon
<1>3. /\ UNCHANGED <<created, up, cause, call, now, dl>> /\ ReturnClockToken(p)
      /\ timer' = [timer EXCEPT ![x] = "armed"]
    BY <1>2, Zenon DEF Arm, treeVars
<1>4. now \in Nat /\ delay[p] \in Int /\ delay[p] > 0 /\ dl[x].at <= now + delay[p]
    BY <1>1, <1>2, Parts, Zenon DEF OnTime, FieldsTyped, LocalsTyped
<1>5. PICK n \in RunTimes(delay[p]) : due' = [due EXCEPT ![x] = n]
    BY <1>2, Zenon DEF Arm
<1>. n \in Nat /\ now + delay[p] <= n + Soon
    BY <1>4, RunTimesBound, Zenon
<1>6. /\ timer' \in [Tokens -> {"none", "armed", "running", "done", "stopped"}] /\ due' \in [Tokens -> Nat]
      /\ timer'[x] = "armed" /\ due'[x] = n
      /\ \A u \in Tokens \ {x} : timer'[u] = timer[u] /\ due'[u] = due[u]
    BY <1>3, <1>5, Parts, Zenon DEF FieldsTyped
<1>7. x \in created /\ up[x] = from[p] /\ timer[x] = "none" /\ dl[x] # Nil /\ call[p] = Tree!NoCall
    BY <1>1, <1>2, Apart, Zenon DEF OwnsToken
<1>8. TreeTyped' /\ CausesStay /\ ExpirySound'
    BY <1>3, Parts, Zenon DEF TreeTyped, Tree!TypeOK, Tree!Calls, Tree!NoCall, CausesStay, ExpirySound
<1>9. CallbackCall(x)' /\ call'[p] = Tree!NoCall
    <2>1. CallbackCall(x) /\ call' = call /\ timer[x] # "running" /\ timer'[x] # "running"
        BY <1>3, <1>6, <1>7, Parts, Zenon
    <2>2. CallbackCall(x)'
        BY <2>1, NotRunning, Zenon
    <2>. QED BY <1>7, <2>1, <2>2, Zenon DEF Tree!NoCall
<1>10. TimerSound(x)'
    <2>1. dl[x].at <= n + Soon
        <3>1. dl[x].at \in Nat /\ Soon \in Nat
            BY <1>7, Parts, ClockAssumption, Zenon
        <3>. QED BY <1>4, <3>1
    <2>. QED BY <1>2, <1>3, <1>6, <1>7, <2>1, Zenon DEF TimerSound, ReturnClockToken
<1>11. created' = created \cup {x} /\ up'[x] = from[p] /\ \A u \in Tokens \ created : cause'[u] = Nil
    BY <1>3, <1>7, Parts, Zenon DEF TreeSound
<1>. QED BY <1>1, <1>2, <1>3, <1>6, <1>8, <1>9, <1>10, <1>11, BuilderReturns

\* A caller's Cancel starts with an error of its own.
LEMMA CancelStep ==
    ASSUME IInv, NEW p \in Callers, NEW t \in Tokens, NEW e \in UserErrs, Cancel(p, t, e)
    PROVE  IInv'
<1>1. pc[p] = "idle" /\ t \in held /\ UNCHANGED <<now, held, clock, dl, timer, due, from, lazyNow, delay>>
      /\ pc' = [pc EXCEPT ![p] = "cancel"] /\ tok' = [tok EXCEPT ![p] = t]
    BY Zenon DEF Cancel, clockVars
<1>2. /\ UNCHANGED <<created, up, cause>> /\ call'[p] = [tok |-> t, err |-> e]
      /\ (\A r \in (Callers \cup Tokens) \ {p} : call'[r] = call[r])
      /\ TreeTyped'
    BY CancelStarts, Zenon DEF Cancel
<1>3. Others(p) /\ LocalsTyped' /\ pc'[p] = "cancel" /\ tok'[p] = t
    BY <1>1, Parts, Zenon DEF Others, LocalsTyped
<1>4. FieldsTyped' /\ CausesStay /\ TreeSound' /\ ExpirySound'
    BY <1>1, <1>2, Parts, TreeStays, Zenon DEF FieldsTyped
<1>5. OwnsToken(p)' /\ CallerCall(p)'
    <2>1. OwnsToken(p)'
        <3>1. pc'[p] = "cancel" /\ tok'[p] \in held'
            BY <1>1, <1>3
        <3>. QED BY <3>1, Zenon DEF OwnsToken, Building
    <2>2. call'[p].err = e /\ call'[p].tok = t
        <3>1. call'[p] = [tok |-> t, err |-> e]
            BY <1>2, Zenon
        <3>. QED BY <3>1
    <2>3. CallerCall(p)'
        BY <1>3, <2>2, Zenon DEF CallerCall
    <2>. QED BY <2>1, <2>3, Zenon
<1>6. OnTime(p)'
    BY <1>1, <1>3, Parts, Zenon DEF OnTime
<1>7. OnlyNew(Nil)
    BY <1>1, <1>2, <1>4, OnlyNothing, Zenon
<1>8. \A r \in Callers \ {p} : pc[r] \in Building => tok[r] # Nil /\ tok'[p] # tok[r]
    <2>1. ASSUME NEW r \in Callers \ {p}, pc[r] \in Building PROVE tok[r] \in Tokens \ held
        BY <2>1, Apart, Zenon
    <2>2. Nil \notin Tokens
        BY Parts, Zenon
    <2>. QED BY <1>1, <1>3, <2>1, <2>2, Zenon
<1>. QED BY <1>1, <1>2, <1>3, <1>4, <1>5, <1>6, <1>7, <1>8, CallerStepKeeps, Parts, Zenon

\* A call returns, or goes on to stop the timer, with its token canceled.
LEMMA CancelWithoutTimerStep ==
    ASSUME IInv, NEW p \in Callers, CancelWithoutTimer(p)
    PROVE  IInv'
<1>1. UNCHANGED <<now, held, clock, dl, timer, due>> /\ Return(p)
    BY Zenon DEF CancelWithoutTimer, clockVars
<1>2. /\ UNCHANGED <<created, up>> /\ call'[p] = Tree!NoCall
      /\ (\A r \in (Callers \cup Tokens) \ {p} : call'[r] = call[r])
      /\ TreeTyped' /\ CausesStay /\ ExpirySound' /\ \A t \in Tokens \ created : cause'[t] = Nil
    BY <1>1, CancelReturns, Zenon DEF CancelWithoutTimer
<1>3. Others(p) /\ LocalsTyped' /\ pc'[p] = "idle" /\ tok'[p] = Nil /\ lazyNow'[p] = Nil
    BY <1>1, LocalsReturn, Zenon
<1>4. FieldsTyped' /\ TreeSound'
    BY <1>1, <1>2, Parts, Zenon DEF FieldsTyped, TreeSound
<1>5. OwnsToken(p)' /\ OnTime(p)' /\ CallerCall(p)'
    BY <1>2, <1>3, IdleOwnsNothing, Zenon
<1>6. OnlyNew(Nil)
    BY <1>1, <1>2, OnlyNothing, Zenon
<1>7. \A r \in Callers \ {p} : pc[r] \in Building => tok[r] # Nil /\ tok'[p] # tok[r]
    BY <1>3, Apart, Parts
<1>. QED BY <1>1, <1>2, <1>3, <1>4, <1>5, <1>6, <1>7, CallerStepKeeps, Parts, Zenon

LEMMA CancelWithTimerStep ==
    ASSUME IInv, NEW p \in Callers, CancelWithTimer(p)
    PROVE  IInv'
<1>1. UNCHANGED <<now, held, clock, dl, timer, due, tok, from, lazyNow, delay>> /\ pc[p] = "cancel"
    BY Zenon DEF CancelWithTimer, clockVars
<1>2. /\ UNCHANGED <<created, up>> /\ call'[p] = Tree!NoCall
      /\ (\A r \in (Callers \cup Tokens) \ {p} : call'[r] = call[r])
      /\ call[p].tok = tok[p] /\ cause'[call[p].tok] # Nil
      /\ TreeTyped' /\ CausesStay /\ ExpirySound' /\ \A t \in Tokens \ created : cause'[t] = Nil
    BY <1>1, CancelReturns, Zenon DEF CancelWithTimer
<1>3. Others(p) /\ LocalsTyped' /\ pc'[p] = "stop"
    <2>1. pc' = [pc EXCEPT ![p] = "stop"] /\ UNCHANGED <<tok, from, lazyNow, delay>>
        BY Zenon DEF CancelWithTimer
    <2>. QED BY <2>1, Parts, Zenon DEF LocalsTyped, Others
<1>4. FieldsTyped' /\ TreeSound'
    BY <1>1, <1>2, Parts, Zenon DEF FieldsTyped, TreeSound
<1>5. OwnsToken(p)' /\ OnTime(p)' /\ CallerCall(p)'
    <2>1. OwnsToken(p) /\ OnTime(p)
        BY Parts, Zenon
    <2>. QED BY <1>1, <1>2, <1>3, <2>1, Zenon DEF OwnsToken, OnTime, CallerCall, Building, Tree!NoCall
<1>6. OnlyNew(Nil)
    BY <1>1, <1>2, OnlyNothing, Zenon
<1>7. \A r \in Callers \ {p} : pc[r] \in Building => tok[r] # Nil /\ tok'[p] # tok[r]
    BY <1>1, Apart, Parts, Zenon
<1>. QED BY <1>1, <1>2, <1>3, <1>4, <1>5, <1>6, <1>7, CallerStepKeeps, Parts, Zenon

\* Stop gives up the timer of a token that is canceled.
LEMMA StopTimerStep ==
    ASSUME IInv, NEW p \in Callers, StopTimer(p)
    PROVE  IInv'
<1>1. pc[p] = "stop" /\ UNCHANGED <<created, up, cause, call, now, held, clock, dl, due>> /\ Return(p)
      /\ timer' = [timer EXCEPT ![tok[p]] = IF @ = "armed" THEN "stopped" ELSE @]
    BY Zenon DEF StopTimer, treeVars
<1>2. PICK y \in Tokens : y = tok[p] /\ cause[y] # Nil
    BY <1>1, Parts, Zenon DEF OwnsToken, OnTime
<1>3. /\ timer'[y] = (IF timer[y] = "armed" THEN "stopped" ELSE timer[y])
      /\ \A u \in Tokens \ {y} : timer'[u] = timer[u] /\ due'[u] = due[u]
    BY <1>1, <1>2, Parts, Zenon DEF FieldsTyped
<1>4. timer' \in [Tokens -> {"none", "armed", "running", "done", "stopped"}]
    BY <1>1, <1>2, Parts, Zenon DEF FieldsTyped
<1>5. Others(p) /\ LocalsTyped' /\ pc'[p] = "idle" /\ tok'[p] = Nil /\ lazyNow'[p] = Nil
    BY <1>1, LocalsReturn, Zenon
<1>6. TreeTyped' /\ FieldsTyped' /\ CausesStay /\ TreeSound' /\ ExpirySound'
    BY <1>1, <1>4, Parts, TreeStays, Zenon DEF TreeTyped, Tree!TypeOK, Tree!Calls, Tree!NoCall,
       FieldsTyped
<1>7. call[p] = Tree!NoCall /\ call'[p] = Tree!NoCall
    BY <1>1, Apart, Zenon DEF Tree!NoCall
<1>8. OwnsToken(p)' /\ OnTime(p)' /\ CallerCall(p)'
    BY <1>5, <1>7, IdleOwnsNothing, Zenon
<1>9. CallbackCall(y) /\ TimerSound(y)
    BY Parts, Zenon
<1>10. CallbackCall(y)'
    BY <1>1, <1>3, <1>9 DEF CallbackCall, Tree!NoCall
<1>11. TimerSound(y)'
    <2>1. cause'[y] # Nil /\ clock' = clock /\ dl' = dl /\ due' = due /\ now' = now
        BY <1>1, <1>2, Zenon
    <2>2. CASE timer[y] = "armed"
        <3>1. timer'[y] = "stopped" /\ y \in clock /\ dl[y] # Nil
            BY <1>3, <1>9, <2>2, Zenon DEF TimerSound
        <3>. QED BY <2>1, <3>1, Zenon DEF TimerSound
    <2>3. CASE timer[y] # "armed"
        <3>1. timer'[y] = timer[y]
            BY <1>3, <2>3, Zenon
        <3>. QED BY <1>9, <2>1, <2>3, <3>1, Zenon DEF TimerSound
    <2>. QED BY <2>2, <2>3, Zenon
<1>12. OnlyNew(Nil)
    BY <1>1, <1>6, OnlyNothing, Zenon
<1>13. \A r \in Callers \ {p} : pc[r] \in Building => tok[r] # Nil /\ tok'[p] # tok[r]
    BY <1>5, Apart, Parts
<1>14. \A r \in (Callers \cup Tokens) \ {p} : call'[r] = call[r]
    BY <1>1, Zenon
<1>15. Nil \in {y, Nil} /\ y \in Tokens \cup {Nil} /\ now' = now /\ Nil \notin clock'
    BY <1>1, <1>2, Parts, ClockAssumption, Zenon DEF FieldsTyped
<1>. QED BY <1>3, <1>5, <1>6, <1>8, <1>10, <1>11, <1>12, <1>13, <1>14, <1>15, CallerStepKeeps, Zenon


\* A step of the callback of t, or of the propagation that reaches t, keeps the
\* invariant if it keeps the part that is about t.
LEMMA TokenStepKeeps ==
    ASSUME IInv, NEW t \in Tokens,
           UNCHANGED <<now, created, up, held, clock, dl, due>>, UNCHANGED callVars,
           TreeTyped', FieldsTyped', CausesStay, ExpirySound',
           \A u \in Tokens \ created : cause'[u] = Nil,
           \A r \in (Callers \cup Tokens) \ {t} : call'[r] = call[r],
           \A u \in Tokens \ {t} : timer'[u] = timer[u],
           CallbackCall(t)', TimerSound(t)'
    PROVE  IInv'
<1>0. UNCHANGED <<pc, tok, from, lazyNow, delay>> /\ clock \subseteq held /\ held \subseteq Tokens /\ t \notin Callers
    BY Parts, ClockAssumption, Zenon DEF callVars
<1>1. TypeOK' /\ TreeSound'
    BY <1>0, Parts, Zenon DEF TreeTyped, FieldsTyped, LocalsTyped, TypeOK, TreeSound
<1>2. ASSUME NEW r \in Callers PROVE OwnsToken(r)' /\ OnTime(r)' /\ CallerCall(r)'
    <2>1. OwnsToken(r) /\ OnTime(r) /\ CallerCall(r) /\ call'[r] = call[r]
        BY <1>0, Parts, Zenon
    <2>2. OwnsToken(r)'
        BY <1>0, <2>1, Zenon DEF OwnsToken, DeadlineFits
    <2>3. pc[r] = "stop" => cause'[tok[r]] = cause[tok[r]]
        BY <1>0, <2>1, Zenon DEF OwnsToken, OnTime, CausesStay
    <2>4. OnTime(r)' /\ CallerCall(r)'
        BY <1>0, <2>1, <2>3, Zenon DEF OnTime, CallerCall, Tree!NoCall
    <2>. QED BY <2>2, <2>4, Zenon
<1>3. ASSUME NEW u \in Tokens, u # t PROVE CallbackCall(u)' /\ TimerSound(u)'
    <2>1. CallbackCall(u) /\ TimerSound(u) /\ call'[u] = call[u] /\ timer'[u] = timer[u]
        BY <1>3, Parts, Zenon
    <2>. QED BY <2>1, Zenon DEF CallbackCall, TimerSound, CausesStay, Tree!NoCall
<1>4. \A u \in clock' : DeadlineFits(u, up[u])'
    BY Parts, Zenon DEF DeadlineFits
<1>5. \A r \in Callers : OwnsToken(r)' /\ OnTime(r)' /\ CallerCall(r)'
    BY <1>2, Zenon
<1>6. \A u \in Tokens : CallbackCall(u)' /\ TimerSound(u)'
    BY <1>3, Zenon
<1>. QED BY <1>1, <1>4, <1>5, <1>6, Zenon DEF IInv, TightestDeadline

\* A due timer starts its callback, whose error is the token's deadline.
LEMMA FireTimerStep ==
    ASSUME IInv, NEW t \in Tokens, FireTimer(t)
    PROVE  IInv'
<1>1. /\ timer[t] = "armed" /\ now >= due[t] /\ timer' = [timer EXCEPT ![t] = "running"]
      /\ UNCHANGED <<now, held, clock, dl, due>> /\ UNCHANGED callVars
    BY Zenon DEF FireTimer
<1>2. /\ dl[t] \in Deadline /\ t \in clock /\ dl[t].at <= now + Soon
    <2>1. TimerSound(t)
        BY Parts, Zenon
    <2>2. t \in clock /\ dl[t] # Nil /\ dl[t].at <= due[t] + Soon
        BY <1>1, <2>1, Zenon DEF TimerSound
    <2>3. dl[t] \in Deadline /\ dl[t].at \in Nat /\ due[t] \in Nat /\ now \in Nat /\ Soon \in Nat
        BY <2>2, Parts, ClockAssumption, Zenon DEF FieldsTyped
    <2>. QED BY <1>1, <2>2, <2>3
<1>3. ExceededError(dl[t]) \in Exceeded
    BY <1>2, Zenon DEF ExceededError, Exceeded
<1>4. /\ UNCHANGED <<created, up, cause>> /\ call'[t] = [tok |-> t, err |-> ExceededError(dl[t])]
      /\ (\A r \in (Callers \cup Tokens) \ {t} : call'[r] = call[r])
      /\ TreeTyped'
    BY <1>3, CancelStarts, Zenon DEF FireTimer
<1>5. FieldsTyped' /\ timer'[t] = "running" /\ \A u \in Tokens \ {t} : timer'[u] = timer[u]
    BY <1>1, Parts, Zenon DEF FieldsTyped
<1>6. CausesStay /\ ExpirySound' /\ \A u \in Tokens \ created : cause'[u] = Nil
    BY <1>1, <1>4, Parts, TreeStays, Zenon DEF TreeSound
<1>7. CallbackCall(t)' /\ TimerSound(t)'
    BY <1>1, <1>2, <1>4, <1>5, ClockAssumption, Zenon DEF CallbackCall, TimerSound
<1>. QED BY <1>1, <1>4, <1>5, <1>6, <1>7, TokenStepKeeps, Zenon

\* When the callback is done, its token is canceled.
LEMMA TimerDoneStep ==
    ASSUME IInv, NEW t \in Tokens, TimerDone(t)
    PROVE  IInv'
<1>1. /\ timer[t] = "running" /\ timer' = [timer EXCEPT ![t] = "done"]
      /\ UNCHANGED <<now, held, clock, dl, due>> /\ UNCHANGED callVars
    BY Zenon DEF TimerDone
<1>2. /\ UNCHANGED <<created, up>> /\ call'[t] = Tree!NoCall
      /\ (\A r \in (Callers \cup Tokens) \ {t} : call'[r] = call[r])
      /\ cause'[t] # Nil
      /\ TreeTyped' /\ CausesStay /\ ExpirySound' /\ \A u \in Tokens \ created : cause'[u] = Nil
    BY <1>1, CancelReturns, Zenon DEF TimerDone
<1>3. FieldsTyped' /\ timer'[t] = "done" /\ \A u \in Tokens \ {t} : timer'[u] = timer[u]
    BY <1>1, Parts, Zenon DEF FieldsTyped
<1>4. CallbackCall(t)' /\ TimerSound(t)'
    BY <1>1, <1>2, <1>3, Parts, Zenon DEF CallbackCall, TimerSound, Tree!NoCall
<1>. QED BY <1>1, <1>2, <1>3, <1>4, TokenStepKeeps, Zenon

\* Propagation hands down a cause that is sound for the parent.
LEMMA PropagateStep ==
    ASSUME IInv, NEW t \in Tokens, Propagate(t)
    PROVE  IInv'
<1>1. /\ UNCHANGED <<created, up, call>> /\ t \in created /\ up[t] \in Tokens /\ cause[t] = Nil
      /\ cause' = [cause EXCEPT ![t] = cause[up[t]]] /\ cause[up[t]] # Nil
      /\ UNCHANGED <<now, held, clock, dl, timer, due>> /\ UNCHANGED callVars
    BY Parts, Zenon DEF Propagate, Tree!Propagate, TreeTyped, Tree!TypeOK, clockVars
<1>2. /\ TreeTyped' /\ CausesStay /\ cause'[t] = cause[up[t]]
      /\ \A u \in Tokens \ {t} : cause'[u] = cause[u]
    BY <1>1, Parts, Zenon DEF TreeTyped, CausesStay, Tree!TypeOK, Tree!Calls, Tree!NoCall
<1>3. ExpirySound'
    <2>. SUFFICES ASSUME NEW u \in Tokens, cause'[u] \in Exceeded
                  PROVE  /\ cause'[u].deadline.at <= now + Soon
                         /\ dl[u] = cause'[u].deadline
                            \/ (up[u] # Nil /\ cause'[up[u]] = cause'[u])
        BY <1>1, Zenon DEF ExpirySound
    <2>1. CASE u = t
        <3>1. up[u] # Nil /\ cause'[up[u]] = cause[up[u]] /\ cause'[u] = cause[up[u]]
            BY <1>1, <1>2, <2>1, Parts, Zenon DEF CausesStay
        <3>. QED BY <1>1, <2>1, <3>1, Parts, Zenon DEF ExpirySound
    <2>2. CASE u # t
        <3>1. cause'[u] = cause[u] /\ cause[u] # Nil
            BY <1>2, <2>2, ClockAssumption, Zenon
        <3>2. up[u] # Nil /\ cause[up[u]] = cause[u] => cause'[up[u]] = cause[u]
            BY <1>2, <3>1, Parts, Zenon DEF CausesStay, TreeTyped, Tree!TypeOK
        <3>. QED BY <3>1, <3>2, Parts, Zenon DEF ExpirySound
    <2>. QED BY <2>1, <2>2, Zenon
<1>4. FieldsTyped' /\ \A u \in Tokens \ created : cause'[u] = Nil
    BY <1>1, <1>2, Parts, Zenon DEF FieldsTyped, TreeSound
<1>5. CallbackCall(t)' /\ TimerSound(t)'
    BY <1>1, <1>2, Parts, Zenon DEF CallbackCall, TimerSound, Tree!NoCall
<1>. QED BY <1>1, <1>2, <1>3, <1>4, <1>5, TokenStepKeeps, Zenon

\* Time passes: what was over stays over, and what was ahead of the timers too.
LEMMA TickStep ==
    ASSUME IInv, Tick
    PROVE  IInv'
<1>. Soon \in Nat
    BY ClockAssumption, Zenon
<1>1. /\ now \in Nat /\ now' = now + 1 /\ UNCHANGED <<created, up, cause, call>>
      /\ UNCHANGED <<held, clock, dl, timer, due>> /\ UNCHANGED <<pc, tok, from, lazyNow, delay>>
    BY Parts, Zenon DEF Tick, treeVars, clockVars, callVars, FieldsTyped
<1>2. TypeOK' /\ TreeSound'
    <2>1. TypeOK
        BY Zenon DEF IInv
    <2>2. (Tree!TypeOK)'
        BY <1>1, <2>1, Zenon DEF TypeOK, Tree!TypeOK, Tree!Calls, Tree!NoCall
    <2>3. TypeOK'
        BY <1>1, <2>1, <2>2 DEF TypeOK
    <2>4. TreeSound'
        BY <1>1, Parts, Zenon DEF TreeSound
    <2>. QED BY <2>3, <2>4, Zenon
<1>3. ASSUME NEW r \in Callers PROVE OwnsToken(r)' /\ OnTime(r)' /\ CallerCall(r)'
    <2>1. OwnsToken(r) /\ OnTime(r) /\ CallerCall(r)
        BY Parts, Zenon
    <2>2. pc[r] \in {"expire", "expiring", "arm"} => dl[tok[r]].at \in Nat
        BY <2>1, Parts, Zenon DEF OwnsToken, Building
    <2>3. (lazyNow[r] # Nil => lazyNow[r] \in Nat) /\ delay[r] \in Int
        BY Parts, Zenon DEF LocalsTyped
    <2>4. OnTime(r)'
        <3>1. lazyNow'[r] # Nil => lazyNow'[r] <= now'
            BY <1>1, <2>1, <2>3 DEF OnTime
        <3>2. /\ pc'[r] = "expire" => dl'[tok'[r]].at <= now'
              /\ pc'[r] = "expiring" => dl'[tok'[r]].at <= now' + Soon
            BY <1>1, <2>1, <2>2 DEF OnTime
        <3>3. pc'[r] = "arm" => delay'[r] > 0 /\ dl'[tok'[r]].at <= now' + delay'[r]
            BY <1>1, <2>1, <2>2, <2>3 DEF OnTime
        <3>4. pc'[r] = "stop" => cause'[tok'[r]] # Nil
            BY <1>1, <2>1, Zenon DEF OnTime
        <3>. QED BY <3>1, <3>2, <3>3, <3>4, Zenon DEF OnTime
    <2>. QED BY <1>1, <2>1, <2>4, Zenon DEF OwnsToken, DeadlineFits, CallerCall, Tree!NoCall
<1>4. ASSUME NEW t \in Tokens PROVE CallbackCall(t)' /\ TimerSound(t)'
    <2>1. CallbackCall(t) /\ TimerSound(t) /\ (dl[t] # Nil => dl[t].at \in Nat)
        BY Parts, Zenon
    <2>2. CallbackCall(t)'
        BY <1>1, <2>1, Zenon DEF CallbackCall, Tree!NoCall
    <2>3. TimerSound(t)'
        BY <1>1, <2>1 DEF TimerSound
    <2>. QED BY <2>2, <2>3, Zenon
<1>5. \A t \in clock' : DeadlineFits(t, up[t])'
    BY <1>1, Parts, Zenon DEF DeadlineFits
<1>6. ExpirySound'
    <2>1. \A t \in Tokens : cause[t] \in Exceeded => cause[t].deadline.at \in Nat
        BY Zenon DEF Exceeded, Deadline
    <2>2. ExpirySound
        BY Parts, Zenon
    <2>3. \A t \in Tokens : cause[t] \in Exceeded => cause[t].deadline.at <= now' + Soon
        BY <1>1, <2>1, <2>2 DEF ExpirySound
    <2>. QED BY <1>1, <2>2, <2>3, Zenon DEF ExpirySound
<1>. QED BY <1>2, <1>3, <1>4, <1>5, <1>6, Zenon DEF IInv, TightestDeadline
-----------------------------------------------------------------------------
\* Nothing is created, canceled or due before the first call.
LEMMA InitHolds == ASSUME Init PROVE IInv
<1>. USE ClockAssumption DEF Init, Tree!Init
<1>1. TypeOK
    BY DEF TypeOK, Tree!TypeOK, Tree!Calls, Tree!NoCall
<1>2. TreeSound /\ ExpirySound /\ TightestDeadline
    BY Zenon DEF TreeSound, ExpirySound, TightestDeadline
<1>3. \A p \in Callers : OwnsToken(p) /\ OnTime(p) /\ CallerCall(p)
    BY Zenon DEF OwnsToken, OnTime, CallerCall, Building, Tree!NoCall
<1>4. \A t \in Tokens : CallbackCall(t) /\ TimerSound(t)
    BY Zenon DEF CallbackCall, TimerSound, Tree!NoCall
<1>. QED BY <1>1, <1>2, <1>3, <1>4, Zenon DEF IInv

\* A step that changes nothing keeps everything.
LEMMA Stutter == ASSUME IInv, UNCHANGED vars PROVE IInv'
<1>. USE DEF vars, treeVars, clockVars, callVars
<1>1. TypeOK' /\ TreeSound'
    BY Zenon DEF IInv, TypeOK, Tree!TypeOK, Tree!Calls, Tree!NoCall, TreeSound
<1>2. (\A p \in Callers : OwnsToken(p) /\ OnTime(p) /\ CallerCall(p))'
    <2>. SUFFICES ASSUME NEW p \in Callers PROVE OwnsToken(p)' /\ OnTime(p)' /\ CallerCall(p)'
        OBVIOUS
    <2>1. OwnsToken(p) /\ OnTime(p) /\ CallerCall(p)
        BY Zenon DEF IInv
    <2>2. OwnsToken(p)'
        BY <2>1, Zenon DEF OwnsToken, DeadlineFits
    <2>3. OnTime(p)'
        BY <2>1, Zenon DEF OnTime
    <2>4. CallerCall(p)'
        BY <2>1, Zenon DEF CallerCall, Tree!NoCall
    <2>. QED BY <2>2, <2>3, <2>4, Zenon
<1>3. (\A t \in Tokens : CallbackCall(t) /\ TimerSound(t))'
    BY Zenon DEF IInv, CallbackCall, TimerSound, Tree!NoCall
<1>4. TightestDeadline' /\ ExpirySound'
    BY Zenon DEF IInv, TightestDeadline, DeadlineFits, ExpirySound
<1>. QED BY <1>1, <1>2, <1>3, <1>4, Zenon DEF IInv

\* IInv holds in every state of every behaviour of the tokens, callers, timer
\* callbacks and the clock (clock_token.go).
THEOREM ClockInvariance == SafeSpec => []IInv
<1>1. Init => IInv
    BY InitHolds, Zenon
<1>2. IInv /\ [Next]_vars => IInv'
    <2>. SUFFICES ASSUME IInv, [Next]_vars PROVE IInv'
        OBVIOUS
    <2>1. ASSUME NEW p \in Callers, CallerStep(p) PROVE IInv'
        BY <2>1, CreateWithoutDeadlineStep, CreateWithDeadlineStep, ReadClockStep, ExpireNowStep,
           ExpireNowDoneStep, ArmStep, RunAtOnceStep, CancelWithoutTimerStep, CancelWithTimerStep, StopTimerStep, Zenon
           DEF CallerStep
    <2>2. ASSUME NEW p \in Callers, NEW t \in Tokens, NEW q \in Tokens \cup {Nil},
                 NewChild(p, t, q) \/ \E opts \in OptionLists : NewClockToken(p, t, q, opts)
          PROVE  IInv'
        BY <2>2, NewChildStep, NewClockTokenStep, Zenon
    <2>3. ASSUME NEW p \in Callers, NEW t \in Tokens, NEW e \in UserErrs, Cancel(p, t, e) PROVE IInv'
        BY <2>3, CancelStep, Zenon
    <2>4. ASSUME NEW t \in Tokens, TimerStep(t) \/ Propagate(t) PROVE IInv'
        BY <2>4, FireTimerStep, TimerDoneStep, PropagateStep, Zenon DEF TimerStep
    <2>5. CASE Tick
        BY <2>5, TickStep, Zenon
    <2>6. CASE UNCHANGED vars
        BY <2>6, Stutter, Zenon
    <2>. QED BY <2>1, <2>2, <2>3, <2>4, <2>5, <2>6, Zenon DEF Next
<1>. QED BY <1>1, <1>2, PTL DEF SafeSpec

\* What the error of AsStdlibContext says of the cause (clock_token.go).
LEMMA DeadlineErrMeansExceeded ==
    ASSUME IInv, NEW t \in created, StdlibContextErr(t) = "DeadlineExceeded"
    PROVE  t \in Tokens /\ cause[t] \in Exceeded
<1>1. t \in Tokens /\ cause[t] \in UserErrs \cup Exceeded \cup {Nil}
    BY Zenon DEF IInv, TypeOK, Tree!TypeOK
<1>2. cause[t] \notin UserErrs
    <2>. SUFFICES ASSUME cause[t] \in UserErrs PROVE FALSE
        OBVIOUS
    <2>1. cause[t] # Nil
        BY ClockAssumption, Zenon
    <2>. QED BY <2>1, Zenon DEF StdlibContextErr
<1>3. cause[t] # Nil
    <2>. SUFFICES ASSUME cause[t] = Nil PROVE FALSE
        OBVIOUS
    <2>. QED BY ClockAssumption, Zenon DEF StdlibContextErr
<1>. QED BY <1>1, <1>2, <1>3, Zenon

\* The fields of every clockToken and the locals of every call keep their types.
THEOREM ClockTypeCorrect == SafeSpec => []TypeOK
<1>1. IInv => TypeOK
    BY Zenon DEF IInv
<1>. QED BY <1>1, ClockInvariance, PTL

\* Whichever way the error got there, no token is canceled for a deadline that
\* is further ahead than the delay RunAfter may skip; with a scheduler that
\* skips none (Soon = 0, as time.AfterFunc behind syscaps.Clock), for none that
\* is ahead.
THEOREM NeverEarly == SafeSpec => []NoEarlyExpiry
<1>1. IInv => NoEarlyExpiry
    BY DeadlineErrMeansExceeded, Zenon DEF IInv, ExpirySound, NoEarlyExpiry
<1>. QED BY <1>1, ClockInvariance, PTL

\* Every DeadlineExceeded error can be traced, parent by parent, to the token
\* whose deadline it names.
THEOREM ExpiryTraceable == SafeSpec => []CauseTraceable
<1>1. IInv => CauseTraceable
    BY DeadlineErrMeansExceeded, Zenon DEF IInv, ExpirySound, CauseTraceable
<1>. QED BY <1>1, ClockInvariance, PTL

\* A clockToken never has a later deadline than the clockToken above it, and
\* its DeadlineSource says where the deadline comes from.
THEOREM ChildrenNotLater == SafeSpec => []TightestDeadline
<1>1. IInv => TightestDeadline
    BY Zenon DEF IInv
<1>. QED BY <1>1, ClockInvariance, PTL

\* A clockToken that was returned with a deadline and is alive has a timer, due
\* at most Soon before the deadline, or its callback is running.
THEOREM DeadlinesNotDropped == SafeSpec => []LiveTokensHaveTimers
<1>1. IInv => LiveTokensHaveTimers
    <2>. SUFFICES ASSUME IInv, NEW t \in clock, cause[t] = Nil, dl[t] # Nil
                  PROVE  timer[t] \in {"armed", "running"} /\ (timer[t] = "armed" => due[t] + Soon >= dl[t].at)
        BY Zenon DEF LiveTokensHaveTimers
    <2>1. t \in Tokens /\ due[t] \in Nat /\ dl[t].at \in Nat
          /\ timer[t] \in {"none", "armed", "running", "done", "stopped"}
        BY Zenon DEF IInv, TypeOK, Deadline
    <2>. QED BY <2>1, Zenon DEF IInv, TimerSound
<1>. QED BY <1>1, ClockInvariance, PTL
=============================================================================
