------------------------- MODULE ClockTokenLemmas --------------------------
(*****************************************************************************)
(* What the steps of ClockToken have in common: the deadline that            *)
(* NewClockToken chooses, and which parts of the invariant a step of a       *)
(* caller leaves alone.                                                      *)
(*****************************************************************************)
EXTENDS ClockToken, WellFoundedInduction, TLAPS

\* Every nonempty set of natural numbers has a least element.
LEMMA LeastNat ==
    ASSUME NEW S \in SUBSET Nat, S # {}
    PROVE  \E n \in S : \A m \in S : n <= m
<1>. DEFINE R == {ss \in Nat \X Nat : ss[1] < ss[2]}
<1>1. IsWellFoundedOn(R, Nat)
    BY NatLessThanWellFounded, Zenon DEF OpToRel
<1>2. PICK n \in S : \A m \in S : ~ (<<m, n>> \in R)
    <2>. HIDE DEF R
    <2>. QED BY <1>1, WFMin, Zenon
<1>3. \A m \in S : ~ (m < n)
    BY <1>2, Zenon
<1>4. \A m \in S : m \in Nat /\ n \in Nat
    OBVIOUS
<1>. QED BY <1>3, <1>4

\* soonest (clock_token.go) returns one of the deadlines it is given, and none
\* of them is earlier.
LEMMA SoonestIsMinimal ==
    ASSUME NEW ds \in Seq(Deadline), ds # <<>>
    PROVE  \E i \in 1..Len(ds) :
               Soonest(ds) = ds[i] /\ \A j \in 1..Len(ds) : ds[i].at <= ds[j].at
<1>. DEFINE First(i) == \A j \in 1..Len(ds) :
                            ds[i].at < ds[j].at \/ (ds[i].at = ds[j].at /\ i <= j)
            Ats == {ds[i].at : i \in 1..Len(ds)}
<1>1. Len(ds) \in Nat /\ 1 \in 1..Len(ds) /\ \A i \in 1..Len(ds) : ds[i].at \in Nat
    <2>1. Len(ds) \in Nat /\ Len(ds) # 0
        OBVIOUS
    <2>2. \A i \in 1..Len(ds) : ds[i] \in Deadline
        OBVIOUS
    <2>3. \A i \in 1..Len(ds) : ds[i].at \in Nat
        BY <2>2, Zenon DEF Deadline
    <2>. QED BY <2>1, <2>3
<1>2. PICK a \in Ats : \A b \in Ats : a <= b
    <2>1. Ats \in SUBSET Nat /\ Ats # {}
        BY <1>1, Zenon
    <2>. QED BY <2>1, LeastNat, Zenon
<1>. DEFINE Where == {i \in 1..Len(ds) : ds[i].at = a}
<1>3. PICK i \in Where : \A j \in Where : i <= j
    <2>1. Where \in SUBSET Nat /\ Where # {}
        BY <1>1, <1>2
    <2>. QED BY <2>1, LeastNat, Zenon
<1>4. i \in 1..Len(ds) /\ First(i)
    <2>1. i \in 1..Len(ds) /\ ds[i].at = a
        OBVIOUS
    <2>2. ASSUME NEW j \in 1..Len(ds)
          PROVE  ds[i].at < ds[j].at \/ (ds[i].at = ds[j].at /\ i <= j)
        <3>1. a <= ds[j].at
            BY <1>2, Zenon
        <3>2. CASE ds[j].at = a
            BY <2>1, <3>2, <1>3, Zenon
        <3>3. CASE ds[j].at # a
            BY <1>1, <2>1, <3>1, <3>3
        <3>. QED BY <3>2, <3>3, Zenon
    <2>. QED BY <2>1, <2>2, Zenon
<1>. DEFINE c == CHOOSE k \in 1..Len(ds) : First(k)
<1>5. c \in 1..Len(ds) /\ First(c)
    <2>. HIDE DEF First
    <2>. QED BY <1>4, Zenon
<1>6. Soonest(ds) = ds[c]
    BY Zenon DEF Soonest
<1>7. \A j \in 1..Len(ds) : ds[c].at <= ds[j].at
    <2>. HIDE DEF c
    <2>. QED BY <1>1, <1>5
<1>. QED BY <1>5, <1>6, <1>7, Zenon

\* NewClockToken chooses a deadline that fits the parent: the parent's own,
\* reinterpreted, or an option's that is not later.
LEMMA ChosenDeadlineFits ==
    ASSUME IInv, NEW q \in held \cup {Nil}, NEW opts \in OptionLists, NEW d,
           d = LET ds == Candidates(q, opts) IN IF ds = <<>> THEN Nil ELSE Soonest(ds)
    PROVE  /\ d \in Deadline \cup {Nil}
           /\ q \in clock /\ dl[q] # Nil => d # Nil /\ d.at <= dl[q].at
           /\ d # Nil =>
                  IF d.kind \in OwnKinds
                  THEN d.level = 0
                  ELSE q \in clock /\ d = ReinterpretForChild(dl[q])
<1>. DEFINE ds == Candidates(q, opts)
            os == [i \in 1..Len(opts) |-> OptionDeadline(opts[i], now)]
            own(x) == x.kind \in OwnKinds /\ x.level = 0
<1>1. now \in Nat /\ clock \subseteq Tokens /\ dl \in [Tokens -> Deadline \cup {Nil}]
    BY Zenon DEF IInv, TightestDeadline, TypeOK
<1>2. opts \in Seq(CancelOption) /\ Len(opts) \in Nat
    BY ClockAssumption DEF OptionLists
<1>3. os \in Seq(Deadline) /\ Len(os) = Len(opts) /\ \A i \in 1..Len(os) : own(os[i])
    <2>1. ASSUME NEW i \in 1..Len(opts)
          PROVE  OptionDeadline(opts[i], now) \in Deadline /\ own(OptionDeadline(opts[i], now))
        <3>1. opts[i] \in CancelOption
            BY <1>2
        <3>2. opts[i].n \in Nat /\ opts[i].kind \in {"timeout", "absolute"}
            BY <3>1, ClockAssumption, Zenon DEF CancelOption
        <3>. QED BY <3>2, <1>1 DEF OptionDeadline, Deadline, OwnKinds
    <2>. QED BY <2>1, <1>2
<1>4. CASE q \in clock /\ dl[q] # Nil
    <2>. DEFINE r == ReinterpretForChild(dl[q])
    <2>1. dl[q] \in Deadline
        BY <1>1, <1>4, Zenon
    <2>2. r \in Deadline /\ r.at = dl[q].at /\ r.kind \notin OwnKinds
        BY <2>1 DEF ReinterpretForChild, Deadline, OwnKinds, AncestorKinds
    <2>3. ds = <<r>> \o os
        BY <1>4, Zenon DEF Candidates, Inherited
    <2>. HIDE DEF r, os, ds
    <2>4. ds \in Seq(Deadline) /\ Len(ds) = Len(os) + 1 /\ ds[1] = r
          /\ \A i \in 2..Len(ds) : ds[i] = os[i - 1]
        BY <1>3, <2>2, <2>3
    <2>5. ds # <<>> /\ 1 \in 1..Len(ds) /\ Len(os) \in Nat
        BY <2>4, <1>2, <1>3
    <2>6. PICK i \in 1..Len(ds) :
              Soonest(ds) = ds[i] /\ \A j \in 1..Len(ds) : ds[i].at <= ds[j].at
        BY <2>4, <2>5, SoonestIsMinimal, Zenon
    <2>7. d = ds[i] /\ d \in Deadline
        BY <2>4, <2>5, <2>6 DEF ds
    <2>8. d # Nil
        BY <2>7, ClockAssumption, Zenon
    <2>9. d.at <= dl[q].at
        BY <2>2, <2>4, <2>5, <2>6, <2>7, Zenon
    <2>10. d = r \/ own(d)
        <3>1. CASE i = 1
            BY <3>1, <2>4, <2>7, Zenon
        <3>2. CASE i # 1
            <4>1. i \in 2..Len(ds) /\ i - 1 \in 1..Len(os)
                BY <3>2, <2>4, <2>6
            <4>. QED BY <4>1, <1>3, <2>4, <2>7, Zenon
        <3>. QED BY <3>1, <3>2, Zenon
    <2>. QED BY <1>4, <2>2, <2>7, <2>8, <2>9, <2>10, Zenon DEF r
<1>5. CASE ~(q \in clock /\ dl[q] # Nil)
    <2>1. ds = os
        BY <1>3, <1>5 DEF Candidates, Inherited
    <2>2. CASE os = <<>>
        BY <2>1, <2>2, <1>5, Zenon
    <2>3. CASE os # <<>>
        <3>. HIDE DEF os, ds
        <3>1. PICK i \in 1..Len(os) : Soonest(os) = os[i]
            BY <1>3, <2>3, SoonestIsMinimal, Zenon
        <3>2. d = os[i]
            BY <2>1, <2>3, <3>1, Zenon DEF ds
        <3>3. d \in Deadline /\ own(d)
            BY <3>2, <1>3
        <3>. QED BY <3>3, <1>5, Zenon
    <2>. QED BY <2>2, <2>3, Zenon
<1>. QED BY <1>4, <1>5, Zenon
-----------------------------------------------------------------------------
\* TypeOK in three parts: the tree, the fields of the tokens, the locals.
TreeTyped == Tree!TypeOK

FieldsTyped ==
    /\ now \in Nat
    /\ held \in SUBSET Tokens /\ clock \in SUBSET held
    /\ dl \in [Tokens -> Deadline \cup {Nil}]
    /\ timer \in [Tokens -> {"none", "armed", "running", "done", "stopped"}]
    /\ due \in [Tokens -> Nat]

LocalsTyped ==
    /\ pc \in [Callers -> {"idle", "newChild", "readClock", "expire", "expiring", "arm", "cancel", "stop"}]
    /\ tok \in [Callers -> Tokens \cup {Nil}]
    /\ from \in [Callers -> Tokens \cup {Nil}]
    /\ lazyNow \in [Callers -> Nat \cup {Nil}]
    /\ delay \in [Callers -> Int]

\* The cause of a token never changes once it has one.
CausesStay == \A t \in Tokens : cause[t] # Nil => cause'[t] = cause[t]

\* Only caller p moves.
Others(p) ==
    \A r \in Callers \ {p} :
        /\ pc'[r] = pc[r] /\ tok'[r] = tok[r] /\ from'[r] = from[r]
        /\ lazyNow'[r] = lazyNow[r] /\ delay'[r] = delay[r]

\* Nothing is new about the tokens but x, which nobody holds yet.
OnlyNew(x) ==
    /\ x \notin held
    /\ held \subseteq held' /\ held' \subseteq held \cup {x}
    /\ clock \subseteq clock' /\ clock' \subseteq clock \cup {x}
    /\ created \subseteq created' /\ created' \subseteq created \cup {x}
    /\ \A u \in Tokens \ {x} : dl'[u] = dl[u] /\ up'[u] = up[u]
    /\ CausesStay

\* The parts of the invariant, and what follows from the types.
LEMMA Parts ==
    ASSUME IInv
    PROVE  /\ TreeTyped /\ FieldsTyped /\ LocalsTyped /\ TreeSound /\ ExpirySound
           /\ Nil \notin Tokens /\ clock \subseteq held /\ held \subseteq created /\ created \subseteq Tokens
           /\ \A p \in Callers : OwnsToken(p) /\ OnTime(p) /\ CallerCall(p)
           /\ \A t \in Tokens : CallbackCall(t) /\ TimerSound(t)
           /\ \A t \in clock : DeadlineFits(t, up[t])
           /\ \A t \in Tokens : dl[t] # Nil => dl[t] \in Deadline /\ dl[t].at \in Nat
           /\ \A t \in created : up[t] \in held \cup {Nil}
<1>1. TypeOK /\ TreeSound /\ ExpirySound
      /\ (\A p \in Callers : OwnsToken(p) /\ OnTime(p) /\ CallerCall(p))
      /\ (\A t \in Tokens : CallbackCall(t) /\ TimerSound(t))
      /\ \A t \in clock : DeadlineFits(t, up[t])
    BY Zenon DEF IInv, TightestDeadline
<1>2. TreeTyped /\ FieldsTyped /\ LocalsTyped
    BY <1>1, Zenon DEF TypeOK, TreeTyped, FieldsTyped, LocalsTyped
<1>3. \A t \in Tokens : dl[t] # Nil => dl[t] \in Deadline /\ dl[t].at \in Nat
    BY <1>2, Zenon DEF FieldsTyped, Deadline
<1>4. Nil \notin Tokens /\ clock \subseteq held /\ held \subseteq created /\ created \subseteq Tokens
    BY <1>1, <1>2, ClockAssumption, Zenon DEF TreeSound, FieldsTyped, TreeTyped, Tree!TypeOK
<1>5. \A t \in created : up[t] \in held \cup {Nil}
    BY <1>1, Zenon DEF TreeSound
<1>. QED BY <1>1, <1>2, <1>3, <1>4, <1>5, Zenon

\* A deadline that fits a parent keeps fitting it: the parent is held, so it
\* neither changes its deadline nor becomes a clockToken later.
LEMMA FitsStays ==
    ASSUME IInv, NEW x, OnlyNew(x), FieldsTyped', NEW t \in Tokens, dl'[t] = dl[t], NEW q \in held \cup {Nil}, DeadlineFits(t, q)
    PROVE  DeadlineFits(t, q)'
<1>1. Nil \notin Tokens /\ clock \subseteq held /\ held \subseteq Tokens
    BY Parts, Zenon
<1>3. q \in clock' => q \in clock
    <2>1. clock' \subseteq Tokens
        BY Zenon DEF FieldsTyped
    <2>. QED BY <1>1, <2>1, Zenon DEF OnlyNew
<1>4. q \in clock => q \in clock' /\ dl'[q] = dl[q]
    BY <1>1, Zenon DEF OnlyNew
<1>. QED BY <1>3, <1>4, Zenon DEF DeadlineFits, ReinterpretForChild

\* A step of caller p keeps the invariant if it keeps the part that is about p,
\* the new token x and the token y whose timer it touches.
LEMMA CallerStepKeeps ==
    ASSUME IInv, NEW p \in Callers, NEW x, NEW y \in Tokens \cup {Nil}, x \in {y, Nil},
           Others(p), OnlyNew(x), now' = now,
           TreeTyped', FieldsTyped', LocalsTyped', TreeSound', ExpirySound',
           \A r \in Callers \ {p} : pc[r] \in Building => tok[r] # x /\ tok'[p] # tok[r],
           \A r \in (Callers \cup Tokens) \ {p} : call'[r] = call[r],
           \A u \in Tokens \ {y} : timer'[u] = timer[u] /\ due'[u] = due[u],
           OwnsToken(p)', OnTime(p)', CallerCall(p)',
           y \in Tokens => CallbackCall(y)' /\ TimerSound(y)',
           x \in clock' => DeadlineFits(x, up[x])'
    PROVE  IInv'
<1>0. /\ Nil \notin Tokens /\ clock \subseteq held /\ held \subseteq created /\ created \subseteq Tokens
      /\ p \notin Tokens
    BY Parts, ClockAssumption, Zenon
<1>1. TypeOK'
    BY Zenon DEF TreeTyped, FieldsTyped, LocalsTyped, TypeOK
<1>2. ASSUME NEW r \in Callers, r # p PROVE OwnsToken(r)' /\ OnTime(r)' /\ CallerCall(r)'
    <2>1. /\ pc'[r] = pc[r] /\ tok'[r] = tok[r] /\ from'[r] = from[r]
          /\ lazyNow'[r] = lazyNow[r] /\ delay'[r] = delay[r] /\ call'[r] = call[r]
        BY <1>2, Zenon DEF Others
    <2>2. OwnsToken(r) /\ OnTime(r) /\ CallerCall(r)
        BY Parts, Zenon
    <2>3. pc[r] \in {"cancel", "stop"} => tok[r] \in Tokens /\ tok[r] \in held /\ tok[r] # x
        BY <1>0, <2>2, Zenon DEF OwnsToken, OnlyNew
    <2>4. pc[r] \in Building => tok[r] \in Tokens /\ tok[r] # x
        BY <2>2, <1>2, Zenon DEF OwnsToken
    <2>5. OwnsToken(r)'
        <3>1. pc[r] \in {"cancel", "stop"} => tok[r] \in held'
            BY <2>3, Zenon DEF OnlyNew
        <3>2. ASSUME pc[r] \in Building
              PROVE  /\ tok[r] \in Tokens \ held'
                     /\ from[r] \in held' \cup {Nil}
                     /\ \A z \in Callers \ {r} : tok'[z] # tok[r]
                     /\ DeadlineFits(tok[r], from[r])'
                     /\ IF pc[r] = "newChild" THEN tok[r] \notin created'
                        ELSE tok[r] \in created' /\ up'[tok[r]] = from[r] /\ dl'[tok[r]] # Nil
            <4>1. tok[r] \in Tokens \ held' /\ from[r] \in held' \cup {Nil}
                BY <2>2, <2>4, <3>2, Zenon DEF OwnsToken, OnlyNew
            <4>2. ASSUME NEW z \in Callers \ {r} PROVE tok'[z] # tok[r]
                <5>1. CASE z = p
                    BY <1>2, <3>2, <5>1, Zenon
                <5>2. CASE z # p
                    BY <2>2, <3>2, <5>2, Zenon DEF OwnsToken, Others
                <5>. QED BY <5>1, <5>2, Zenon
            <4>3. DeadlineFits(tok[r], from[r])
                BY <2>2, <3>2, Zenon DEF OwnsToken
            <4>4. from[r] \in held \cup {Nil}
                BY <2>2, <3>2, Zenon DEF OwnsToken
            <4>6. DeadlineFits(tok[r], from[r])'
                <5>1. tok[r] \in Tokens
                    BY <2>4, <3>2, Zenon
                <5>2. PICK v \in Tokens, w \in held \cup {Nil} : v = tok[r] /\ w = from[r]
                    BY <4>4, <5>1, Zenon
                <5>3. DeadlineFits(v, w)
                    BY <4>3, <5>2, Zenon
                <5>4. dl'[v] = dl[v]
                    BY <2>4, <3>2, <5>2, Zenon DEF OnlyNew
                <5>5. DeadlineFits(v, w)'
                    BY <5>3, <5>4, FitsStays, Zenon
                <5>6. v = tok'[r] /\ w = from'[r]
                    BY <2>1, <5>2, Zenon
                <5>. QED BY <5>5, <5>6, Zenon DEF DeadlineFits
            <4>7. IF pc[r] = "newChild" THEN tok[r] \notin created'
                  ELSE tok[r] \in created' /\ up'[tok[r]] = from[r] /\ dl'[tok[r]] # Nil
                BY <2>2, <2>4, <3>2, Zenon DEF OwnsToken, OnlyNew
            <4>. QED BY <4>1, <4>2, <4>6, <4>7, Zenon
        <3>. QED BY <2>1, <2>2, <3>1, <3>2, Zenon DEF OwnsToken
    <2>6. OnTime(r)'
        <3>1. pc[r] \in {"expire", "expiring", "arm"} => dl'[tok[r]] = dl[tok[r]]
            BY <2>4, Zenon DEF OnlyNew, Building
        <3>2. pc[r] = "stop" => cause'[tok[r]] = cause[tok[r]]
            BY <2>2, <2>3, Zenon DEF OnTime, OnlyNew, CausesStay
        <3>. QED BY <2>1, <2>2, <3>1, <3>2, Zenon DEF OnTime
    <2>7. CallerCall(r)'
        <3>1. pc[r] = "expiring" => dl'[tok[r]] = dl[tok[r]]
            BY <2>4, Zenon DEF OnlyNew, Building
        <3>. QED BY <2>1, <2>2, <3>1, Zenon DEF CallerCall, ExceededError
    <2>. QED BY <2>5, <2>6, <2>7, Zenon
<1>3. ASSUME NEW t \in Tokens, t # y PROVE CallbackCall(t)' /\ TimerSound(t)'
    <2>1. CallbackCall(t) /\ TimerSound(t)
        BY Parts, Zenon
    <2>2. /\ timer'[t] = timer[t] /\ due'[t] = due[t] /\ call'[t] = call[t] /\ dl'[t] = dl[t]
          /\ (cause[t] # Nil => cause'[t] = cause[t])
        BY <1>0, <1>3 DEF OnlyNew, CausesStay
    <2>3. t \in clock' <=> t \in clock
        BY <1>0, <1>3 DEF OnlyNew
    <2>4. CallbackCall(t)'
        BY <2>1, <2>2, Zenon DEF CallbackCall, ExceededError
    <2>5. TimerSound(t)'
        BY <2>1, <2>2, <2>3, Zenon DEF TimerSound
    <2>. QED BY <2>4, <2>5, Zenon
<1>4. ASSUME NEW t \in clock' PROVE DeadlineFits(t, up[t])'
    <2>1. CASE t = x
        BY <2>1, Zenon
    <2>2. CASE t # x
        <3>1. t \in clock /\ t \in Tokens /\ up'[t] = up[t] /\ up[t] \in held \cup {Nil} /\ DeadlineFits(t, up[t])
            BY <1>0, <1>4, <2>2, Parts, Zenon DEF OnlyNew
        <3>2. PICK q \in held \cup {Nil} : q = up[t]
            BY <3>1, Zenon
        <3>3. DeadlineFits(t, q)'
            <4>1. dl'[t] = dl[t] /\ DeadlineFits(t, q)
                BY <2>2, <3>1, <3>2, Zenon DEF OnlyNew
            <4>. QED BY <3>1, <4>1, FitsStays, Zenon
        <3>. QED BY <3>1, <3>2, <3>3, Zenon DEF DeadlineFits
    <2>. QED BY <2>1, <2>2, Zenon
<1>5. \A r \in Callers : OwnsToken(r)' /\ OnTime(r)' /\ CallerCall(r)'
    BY <1>2, Zenon
<1>6. \A t \in Tokens : CallbackCall(t)' /\ TimerSound(t)'
    BY <1>3, Zenon
<1>. QED BY <1>1, <1>4, <1>5, <1>6, Zenon DEF IInv, TightestDeadline
-----------------------------------------------------------------------------
\* Cancel on the tree, as a caller or a callback runs it: the token of the call
\* is canceled afterwards, by it or by somebody before it.
LEMMA CancelReturns ==
    ASSUME IInv, NEW p \in Callers \cup Tokens, Tree!TakeEffect(p) \/ Tree!Ignore(p),
           UNCHANGED <<now, dl>>
    PROVE  /\ UNCHANGED <<created, up>> /\ call'[p] = Tree!NoCall
           /\ \A r \in (Callers \cup Tokens) \ {p} : call'[r] = call[r]
           /\ p \in Callers => call[p].tok = tok[p]
           /\ p \in Tokens => call[p].tok = p
           /\ call[p].tok \in created /\ cause'[call[p].tok] # Nil
           /\ TreeTyped' /\ CausesStay /\ ExpirySound' /\ \A t \in Tokens \ created : cause'[t] = Nil
<1>. DEFINE c == call[p]
<1>1. Tree!TypeOK /\ call[p] \in Tree!Calls /\ Nil \notin Tokens /\ Nil \notin UserErrs \cup Exceeded
    BY Parts, ClockAssumption, Zenon DEF TreeTyped, Tree!TypeOK
<1>2. call[p] # Tree!NoCall /\ UNCHANGED <<created, up>> /\ call' = [call EXCEPT ![p] = Tree!NoCall]
    BY Zenon DEF Tree!TakeEffect, Tree!Ignore
<1>3. c.tok \in Tokens /\ c.err \in UserErrs \cup Exceeded /\ c.err # Nil
    BY <1>1, <1>2, Zenon DEF Tree!Calls
<1>4. ASSUME p \in Callers
      PROVE  /\ c.tok = tok[p]
             /\ \/ pc[p] = "cancel" /\ c.err \in UserErrs
                \/ pc[p] = "expiring" /\ c.err = ExceededError(dl[tok[p]])
    <2>1. \/ pc[p] = "cancel" /\ c.err \in UserErrs /\ c.tok = tok[p]
          \/ pc[p] = "expiring" /\ c = [tok |-> tok[p], err |-> ExceededError(dl[tok[p]])]
        BY <1>2, <1>4, Parts, Zenon DEF CallerCall
    <2>. QED BY <2>1
<1>5. ASSUME p \in Tokens
      PROVE  timer[p] = "running" /\ c.tok = p /\ c.err = ExceededError(dl[p])
    <2>1. CallbackCall(p)
        BY <1>5, Parts, Zenon
    <2>2. timer[p] = "running" /\ c = [tok |-> p, err |-> ExceededError(dl[p])]
        BY <2>1, <1>2, Zenon DEF CallbackCall
    <2>. QED BY <2>2
<1>6. cause' = [cause EXCEPT ![c.tok] = IF cause[c.tok] = Nil THEN c.err ELSE @]
    BY <1>1, <1>3, Zenon DEF Tree!TakeEffect, Tree!Ignore, Tree!TypeOK
<1>. HIDE DEF c
<1>7. c.tok \in created
    <2>1. CASE p \in Callers
        <3>1. OwnsToken(p) /\ held \subseteq created
            BY <2>1, Parts, Zenon
        <3>. QED BY <1>4, <2>1, <3>1, Zenon DEF OwnsToken, Building
    <2>2. CASE p \in Tokens
        <3>1. TimerSound(p) /\ clock \subseteq created
            BY <2>2, Parts, Zenon
        <3>. QED BY <1>5, <2>2, <3>1, Zenon DEF TimerSound
    <2>. QED BY <2>1, <2>2, Zenon
<1>8. c.err \in Exceeded => dl[c.tok] = c.err.deadline /\ c.err.deadline.at <= now + Soon
    <2>1. CASE p \in Callers
        <3>1. OnTime(p)
            BY <2>1, Parts, Zenon
        <3>. QED BY <1>4, <2>1, <3>1, ClockAssumption DEF OnTime, ExceededError
    <2>2. CASE p \in Tokens
        <3>1. TimerSound(p)
            BY <2>2, Parts, Zenon
        <3>. QED BY <1>5, <2>2, <3>1 DEF TimerSound, ExceededError
    <2>. QED BY <2>1, <2>2, Zenon
<1>9. cause'[c.tok] # Nil /\ CausesStay
    BY <1>1, <1>3, <1>6, Zenon DEF CausesStay, Tree!TypeOK
<1>10. \A t \in Tokens \ created : cause'[t] = Nil
    BY <1>1, <1>6, <1>7, Parts, Zenon DEF Tree!TypeOK, TreeSound
<1>11. TreeTyped'
    BY <1>1, <1>2, <1>3, <1>6, Zenon DEF TreeTyped, Tree!TypeOK, Tree!Calls
<1>12. ExpirySound'
    <2>. SUFFICES ASSUME NEW t \in Tokens, cause'[t] \in Exceeded
                  PROVE  /\ cause'[t].deadline.at <= now + Soon
                         /\ dl[t] = cause'[t].deadline
                            \/ (up[t] # Nil /\ cause'[up[t]] = cause'[t])
        BY <1>2, Zenon DEF ExpirySound
    <2>1. CASE cause[t] # Nil
        <3>1. cause'[t] = cause[t]
            BY <1>9, <2>1, Zenon DEF CausesStay
        <3>2. up[t] # Nil /\ cause[up[t]] = cause[t] => cause'[up[t]] = cause[t]
            BY <1>1, <1>9, <2>1, Zenon DEF CausesStay, Tree!TypeOK
        <3>. QED BY <3>1, <3>2, Parts, Zenon DEF ExpirySound
    <2>2. CASE cause[t] = Nil
        <3>1. t = c.tok /\ cause'[t] = c.err
            BY <1>1, <1>6, <2>2, Zenon DEF Tree!TypeOK
        <3>. QED BY <1>8, <3>1, Zenon
    <2>. QED BY <2>1, <2>2, Zenon
<1>13. call'[p] = Tree!NoCall /\ \A r \in (Callers \cup Tokens) \ {p} : call'[r] = call[r]
    BY <1>1, <1>2, Zenon DEF Tree!TypeOK
<1>. QED BY <1>2, <1>4, <1>5, <1>7, <1>9, <1>10, <1>11, <1>12, <1>13, Zenon DEF c

\* NewChild on the tree: the child exists, below its parent and with its cause.
LEMMA ChildAdded ==
    ASSUME IInv, NEW t \in Tokens, NEW q \in held \cup {Nil}, TreeChild(t, q), UNCHANGED <<now, dl>>
    PROVE  /\ t \notin created /\ created' = created \cup {t} /\ UNCHANGED call
           /\ up'[t] = q /\ \A u \in Tokens \ {t} : up'[u] = up[u] /\ cause'[u] = cause[u]
           /\ TreeTyped' /\ CausesStay /\ ExpirySound'
<1>1. Tree!TypeOK /\ up[t] = Nil /\ cause[t] = Nil /\ t \notin created /\ Nil \notin Tokens /\ held \subseteq Tokens
    BY Parts, Zenon DEF TreeTyped, TreeSound, TreeChild, Tree!NewRoot, Tree!NewChild
<1>2. UNCHANGED call /\ created' = created \cup {t} /\ up' = [up EXCEPT ![t] = q]
    BY <1>1, Zenon DEF TreeChild, Tree!NewRoot, Tree!NewChild, Tree!TypeOK
<1>3. cause' = [cause EXCEPT ![t] = IF q = Nil THEN Nil ELSE cause[q]]
    BY <1>1, Zenon DEF TreeChild, Tree!NewRoot, Tree!NewChild, Tree!TypeOK
<1>4. TreeTyped' /\ CausesStay
    BY <1>1, <1>2, <1>3, Zenon DEF TreeTyped, Tree!TypeOK, CausesStay
<1>5. up'[t] = q /\ \A u \in Tokens \ {t} : up'[u] = up[u] /\ cause'[u] = cause[u]
    BY <1>1, <1>2, <1>3, Zenon DEF Tree!TypeOK
<1>6. ExpirySound'
    <2>. SUFFICES ASSUME NEW u \in Tokens, cause'[u] \in Exceeded
                  PROVE  /\ cause'[u].deadline.at <= now + Soon
                         /\ dl[u] = cause'[u].deadline
                            \/ (up'[u] # Nil /\ cause'[up'[u]] = cause'[u])
        BY Zenon DEF ExpirySound
    <2>0. cause'[u] # Nil
        BY ClockAssumption, Zenon
    <2>1. CASE u = t
        <3>1. q # Nil /\ cause'[u] = cause[q] /\ up'[u] = q
            BY <1>1, <1>2, <1>3, <2>0, <2>1, Zenon DEF Tree!TypeOK
        <3>2. q \in Tokens /\ cause'[q] = cause[q]
            BY <1>1, <1>4, <2>0, <3>1, Zenon DEF CausesStay
        <3>3. cause'[q].deadline.at <= now + Soon
            BY <3>1, <3>2, Parts, Zenon DEF ExpirySound
        <3>. QED BY <3>1, <3>2, <3>3, Zenon
    <2>2. CASE u # t
        <3>1. cause'[u] = cause[u] /\ up'[u] = up[u]
            BY <1>5, <2>2, Zenon
        <3>2. up[u] # Nil /\ cause[up[u]] = cause[u] => cause'[up[u]] = cause[u]
            BY <1>1, <1>4, <2>0, <3>1, Zenon DEF CausesStay, Tree!TypeOK
        <3>. QED BY <3>1, <3>2, Parts, Zenon DEF ExpirySound
    <2>. QED BY <2>1, <2>2, Zenon
<1>. QED BY <1>1, <1>2, <1>4, <1>5, <1>6, Zenon

\* The tree does not change.
LEMMA TreeStays ==
    ASSUME IInv, UNCHANGED <<created, up, cause>>, UNCHANGED <<now, dl, held>>
    PROVE  CausesStay /\ ExpirySound' /\ TreeSound'
    BY Parts, Zenon DEF CausesStay, ExpirySound, TreeSound

\* A call starts: Cancel on a token that exists.
LEMMA CancelStarts ==
    ASSUME IInv, NEW p \in Callers \cup Tokens, NEW t \in Tokens, NEW e \in UserErrs \cup Exceeded,
           Tree!CallCancel(p, t, e)
    PROVE  /\ UNCHANGED <<created, up, cause>> /\ call'[p] = [tok |-> t, err |-> e]
           /\ \A r \in (Callers \cup Tokens) \ {p} : call'[r] = call[r]
           /\ TreeTyped'
    BY Parts, Zenon DEF TreeTyped, Tree!TypeOK, Tree!Calls, Tree!CallCancel

\* The locals of a call that returns.
LEMMA LocalsReturn ==
    ASSUME IInv, NEW p \in Callers, Return(p)
    PROVE  /\ Others(p) /\ LocalsTyped'
           /\ pc'[p] = "idle" /\ tok'[p] = Nil /\ lazyNow'[p] = Nil
    BY Parts DEF LocalsTyped, Others, Return

\* A token under construction is nobody else's, and no Cancel call is under way
\* except in the steps that have one.
LEMMA Apart ==
    ASSUME IInv, NEW p \in Callers
    PROVE  /\ pc[p] \in Building => /\ tok[p] \in Tokens \ held
                                    /\ from[p] \in held \cup {Nil}
                                    /\ timer[tok[p]] = "none"
                                    /\ \A r \in Callers \ {p} : tok[r] # tok[p]
           /\ pc[p] \notin {"cancel", "expiring"} => call[p] = Tree!NoCall
           /\ pc[p] \notin Building => tok[p] \in held \cup {Nil}
<1>1. OwnsToken(p) /\ CallerCall(p) /\ clock \subseteq held
    BY Parts, Zenon
<1>2. pc[p] \in Building => timer[tok[p]] = "none"
    <2>. SUFFICES ASSUME pc[p] \in Building PROVE timer[tok[p]] = "none"
        OBVIOUS
    <2>1. tok[p] \in Tokens \ held
        BY <1>1, Zenon DEF OwnsToken
    <2>2. TimerSound(tok[p])
        BY <2>1, Parts, Zenon
    <2>. QED BY <1>1, <2>1, <2>2, Zenon DEF TimerSound
<1>3. pc[p] \notin {"cancel", "expiring"} => call[p] = Tree!NoCall
    BY <1>1, Zenon DEF CallerCall
<1>4. pc[p] \notin Building => pc[p] \in {"idle", "cancel", "stop"}
    BY Parts, Zenon DEF LocalsTyped, Building
<1>. QED BY <1>1, <1>2, <1>3, <1>4, Zenon DEF OwnsToken

\* A caller outside any call owns nothing.
LEMMA IdleOwnsNothing ==
    ASSUME NEW p \in Callers, pc'[p] = "idle", tok'[p] = Nil, lazyNow'[p] = Nil, call'[p] = Tree!NoCall
    PROVE  OwnsToken(p)' /\ OnTime(p)' /\ CallerCall(p)'
    BY Zenon DEF OwnsToken, OnTime, CallerCall, Building, Tree!NoCall

\* Between its steps, NewClockToken keeps the token to itself.
LEMMA StillOwns ==
    ASSUME NEW p \in Callers, OwnsToken(p), pc[p] \in {"readClock", "expire", "expiring", "arm"},
           pc'[p] \in {"readClock", "expire", "expiring", "arm"},
           UNCHANGED <<created, up, held, clock, dl, tok, from>>
    PROVE  OwnsToken(p)'
<1>1. /\ tok[p] \in Tokens \ held /\ from[p] \in held \cup {Nil}
      /\ \A r \in Callers \ {p} : tok[r] # tok[p]
      /\ tok[p] \in created /\ up[tok[p]] = from[p] /\ dl[tok[p]] # Nil
    BY Zenon DEF OwnsToken, Building
<1>2. DeadlineFits(tok[p], from[p])
    BY Zenon DEF OwnsToken, Building
<1>3. DeadlineFits(tok[p], from[p])'
    BY <1>2, Zenon DEF DeadlineFits
<1>4. pc'[p] \notin {"idle", "cancel", "stop", "newChild"}
    OBVIOUS
<1>. QED BY <1>1, <1>3, <1>4, Zenon DEF OwnsToken

\* A timer that is not running makes no call.
LEMMA NotRunning ==
    ASSUME NEW x \in Tokens, CallbackCall(x), timer[x] # "running", timer'[x] # "running", call'[x] = call[x]
    PROVE  CallbackCall(x)'
    BY Zenon DEF CallbackCall, Tree!NoCall

\* A token without a timer has no deadline, or is canceled, once it is returned.
LEMMA NoTimerYet ==
    ASSUME NEW x \in Tokens, timer'[x] = "none", x \notin clock' \/ dl'[x] = Nil \/ cause'[x] # Nil
    PROVE  TimerSound(x)'
    BY Zenon DEF TimerSound

\* NewClockToken returns the token it has built: it is held from now on, with
\* its timer or canceled.
LEMMA BuilderReturns ==
    ASSUME IInv, NEW p \in Callers, NEW x \in Tokens, x = tok[p],
           pc[p] \in Building, ReturnClockToken(p), UNCHANGED <<now, dl>>,
           created' = created \cup {x}, up'[x] = from[p],
           \A u \in Tokens \ {x} : up'[u] = up[u] /\ (u \notin created => cause'[u] = Nil),
           TreeTyped', CausesStay, ExpirySound',
           call'[p] = Tree!NoCall, \A r \in (Callers \cup Tokens) \ {p} : call'[r] = call[r],
           \A u \in Tokens \ {x} : timer'[u] = timer[u] /\ due'[u] = due[u],
           timer' \in [Tokens -> {"none", "armed", "running", "done", "stopped"}],
           due' \in [Tokens -> Nat], CallbackCall(x)', TimerSound(x)'
    PROVE  IInv'
<1>1. /\ x \notin held /\ from[p] \in held \cup {Nil} /\ \A r \in Callers \ {p} : tok[r] # x
      /\ dl'[x] = dl[x] /\ DeadlineFits(x, from[p])
    BY Apart, Parts, Zenon DEF OwnsToken
<1>2. Others(p) /\ LocalsTyped' /\ pc'[p] = "idle" /\ tok'[p] = Nil /\ lazyNow'[p] = Nil
    BY LocalsReturn, Zenon DEF ReturnClockToken
<1>3. held' = held \cup {x} /\ clock' = clock \cup {x}
    BY Zenon DEF ReturnClockToken
<1>4. FieldsTyped'
    BY <1>1, <1>3, Parts, Zenon DEF FieldsTyped
<1>5. OnlyNew(x)
    BY <1>1, <1>3, Zenon DEF OnlyNew
<1>6. TreeSound'
    <2>1. held' \subseteq created'
        BY <1>3, Parts, Zenon
    <2>2. \A u \in created' : up'[u] \in held' \cup {Nil}
        BY <1>1, <1>3, Parts, Zenon
    <2>3. \A u \in Tokens \ created' : up'[u] = Nil /\ cause'[u] = Nil
        BY Parts, Zenon DEF TreeSound
    <2>. QED BY <2>1, <2>2, <2>3, Zenon DEF TreeSound
<1>7. DeadlineFits(x, up[x])'
    <2>1. PICK q \in held \cup {Nil} : q = from[p]
        BY <1>1, Zenon
    <2>2. DeadlineFits(x, q)'
        BY <1>1, <1>4, <1>5, <2>1, FitsStays, Zenon
    <2>. QED BY <2>1, <2>2, Zenon DEF DeadlineFits
<1>8. OwnsToken(p)' /\ OnTime(p)' /\ CallerCall(p)'
    BY <1>2, IdleOwnsNothing, Zenon
<1>9. \A r \in Callers \ {p} : pc[r] \in Building => tok[r] # x /\ tok'[p] # tok[r]
    <2>1. ASSUME NEW r \in Callers \ {p}, pc[r] \in Building PROVE tok[r] \in Tokens
        BY <2>1, Apart, Zenon
    <2>2. Nil \notin Tokens
        BY Parts, Zenon
    <2>. QED BY <1>1, <1>2, <2>1, <2>2
<1>. QED BY <1>2, <1>4, <1>5, <1>6, <1>7, <1>8, <1>9, CallerStepKeeps

\* A call ends or goes on, and nothing is new about any token.
LEMMA OnlyNothing ==
    ASSUME IInv, UNCHANGED <<created, up, held, clock, dl>>, CausesStay
    PROVE  OnlyNew(Nil)
    BY Parts, Zenon DEF OnlyNew
=============================================================================
