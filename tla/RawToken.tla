------------------------------ MODULE RawToken ------------------------------
(***************************************************************************)
(* The cancellation tree of base/cancel/token.go: rawToken, its child list *)
(* with back-indices, and the breadth-first propagation of Cancel, run by  *)
(* any number of goroutines.                                               *)
(*                                                                         *)
(* Every read or write of err, children and parentIdx happens under one    *)
(* mutex, and no goroutine ever holds two, so one critical section is one  *)
(* action.  The propagation queue is a local variable: pushing the         *)
(* detached children after the unlock is part of the step that detached    *)
(* them.  The done channel is closed in the critical section that sets     *)
(* err, so "done is closed" is "err is not nil".                           *)
(***************************************************************************)
EXTENDS Integers, Sequences

CONSTANTS Tokens,   \* addresses at which a rawToken may be allocated
          Procs,    \* goroutines
          Errs,     \* non-nil errors
          Nil       \* Go's nil

ASSUME NilAssumption == Nil \notin Tokens /\ Nil \notin Errs

VARIABLES
    \* fields of rawToken
    parent, parentIdx, children, err,
    \* tokens that newChildToken has returned to some caller
    published,
    \* history: the parent argument of the newChildToken call that made t
    origin,
    \* per goroutine: control point, receiver and cause of the Cancel it
    \* runs, and that Cancel's queue
    pc, tok, cause, queue

tokenVars == <<parent, parentIdx, children, err, published, origin>>
procVars == <<pc, tok, cause, queue>>
vars == <<tokenVars, procVars>>

Canceled(t) == err[t] # Nil

\* A token whose construction is under way: newChildToken found its parent
\* canceled and is about to cancel it before returning it.
UnderConstruction(t) == \E p \in Procs : pc[p] # "idle" /\ tok[p] = t

Allocated(t) == t \in published \/ UnderConstruction(t)

Elems(s) == {s[i] : i \in 1..Len(s)}

\* The fields of rawToken and the locals of Cancel and newChildToken.
TypeOK ==
    /\ parent \in [Tokens -> Tokens \cup {Nil}]
    /\ parentIdx \in [Tokens -> Nat]
    /\ children \in [Tokens -> Seq(Tokens)]
    /\ err \in [Tokens -> Errs \cup {Nil}]
    /\ published \in SUBSET Tokens
    /\ origin \in [Tokens -> Tokens \cup {Nil}]
    /\ pc \in [Procs -> {"idle", "cancelSelf", "unregister", "drain"}]
    /\ tok \in [Procs -> Tokens \cup {Nil}]
    /\ cause \in [Procs -> Errs \cup {Nil}]
    /\ queue \in [Procs -> Seq(Tokens)]

Init ==
    /\ parent = [t \in Tokens |-> Nil]
    /\ parentIdx = [t \in Tokens |-> 0]
    /\ children = [t \in Tokens |-> <<>>]
    /\ err = [t \in Tokens |-> Nil]
    /\ published = {}
    /\ origin = [t \in Tokens |-> Nil]
    /\ pc = [p \in Procs |-> "idle"]
    /\ tok = [p \in Procs |-> Nil]
    /\ cause = [p \in Procs |-> Nil]
    /\ queue = [p \in Procs |-> <<>>]
-----------------------------------------------------------------------------
\* Never().NewChild(): newChildToken(nil), a root of the tree.
NewRoot(p, t) ==
    /\ pc[p] = "idle"
    /\ ~Allocated(t)
    /\ published' = published \cup {t}
    /\ UNCHANGED <<parent, parentIdx, children, err, origin, procVars>>

\* Faults: the index is one too small; the parent's err is not looked at.
RegisterChildOffByOne(p, t, q) ==
    /\ pc[p] = "idle"
    /\ ~Allocated(t)
    /\ q \in published
    /\ ~Canceled(q)
    /\ parent' = [parent EXCEPT ![t] = q]
    /\ origin' = [origin EXCEPT ![t] = q]
    /\ parentIdx' = [parentIdx EXCEPT ![t] = Len(children[q]) - 1]
    /\ children' = [children EXCEPT ![q] = Append(@, t)]
    /\ published' = published \cup {t}
    /\ UNCHANGED <<err, procVars>>

RegisterChildUnchecked(p, t, q) ==
    /\ pc[p] = "idle"
    /\ ~Allocated(t)
    /\ q \in published
    /\ parent' = [parent EXCEPT ![t] = q]
    /\ origin' = [origin EXCEPT ![t] = q]
    /\ parentIdx' = [parentIdx EXCEPT ![t] = Len(children[q])]
    /\ children' = [children EXCEPT ![q] = Append(@, t)]
    /\ published' = published \cup {t}
    /\ UNCHANGED <<err, procVars>>

\* q.NewChild() while q is alive: registerChild appends t to q's list and the
\* token is returned.
RegisterChild(p, t, q) ==
    /\ pc[p] = "idle"
    /\ ~Allocated(t)
    /\ q \in published
    /\ ~Canceled(q)
    /\ parent' = [parent EXCEPT ![t] = q]
    /\ origin' = [origin EXCEPT ![t] = q]
    /\ parentIdx' = [parentIdx EXCEPT ![t] = Len(children[q])]
    /\ children' = [children EXCEPT ![q] = Append(@, t)]
    /\ published' = published \cup {t}
    /\ UNCHANGED <<err, procVars>>

\* q.NewChild() after q was canceled: registerChild returns q.err, t.parent
\* is reset to nil and newChildToken goes on to t.Cancel(q.err).
RegisterRefused(p, t, q) ==
    /\ pc[p] = "idle"
    /\ ~Allocated(t)
    /\ q \in published
    /\ Canceled(q)
    /\ origin' = [origin EXCEPT ![t] = q]
    /\ pc' = [pc EXCEPT ![p] = "cancelSelf"]
    /\ tok' = [tok EXCEPT ![p] = t]
    /\ cause' = [cause EXCEPT ![p] = err[q]]
    /\ UNCHANGED <<parent, parentIdx, children, err, published, queue>>

\* A caller that holds t calls t.Cancel(e), with e # nil.
CallCancel(p, t, e) ==
    /\ pc[p] = "idle"
    /\ t \in published
    /\ pc' = [pc EXCEPT ![p] = "cancelSelf"]
    /\ tok' = [tok EXCEPT ![p] = t]
    /\ cause' = [cause EXCEPT ![p] = e]
    /\ UNCHANGED <<tokenVars, queue>>

\* The call returns: the goroutine is free, and a token that was under
\* construction is handed to the caller of newChildToken.
Finish(p) ==
    /\ pc' = [pc EXCEPT ![p] = "idle"]
    /\ tok' = [tok EXCEPT ![p] = Nil]
    /\ cause' = [cause EXCEPT ![p] = Nil]
    /\ published' = published \cup {tok[p]}

\* cancelSelfAndDetachChildren(cause[p], queue) on a token t that is alive:
\* fix the cause, detach the children and push them on p's queue q0.
CancelSelfAndDetachChildren(p, t, q0) ==
    /\ err' = [err EXCEPT ![t] = cause[p]]
    /\ children' = [children EXCEPT ![t] = <<>>]
    /\ queue' = [queue EXCEPT ![p] = q0 \o children[t]]

\* Cancel: the receiver was already canceled (AlreadyCanceled).
CancelTooLate(p) ==
    /\ pc[p] = "cancelSelf"
    /\ Canceled(tok[p])
    /\ Finish(p)
    /\ UNCHANGED <<parent, parentIdx, children, err, origin, queue>>

\* Fault: Cancel forgets unregisterChild.
CancelReceiverStaysListed(p) ==
    /\ pc[p] = "cancelSelf"
    /\ ~Canceled(tok[p])
    /\ CancelSelfAndDetachChildren(p, tok[p], queue[p])
    /\ pc' = [pc EXCEPT ![p] = "drain"]
    /\ UNCHANGED <<parent, parentIdx, published, origin, tok, cause>>

\* Cancel: this call cancels the receiver (CanceledByUs).
CancelReceiver(p) ==
    /\ pc[p] = "cancelSelf"
    /\ ~Canceled(tok[p])
    /\ CancelSelfAndDetachChildren(p, tok[p], queue[p])
    /\ pc' = [pc EXCEPT ![p] = IF parent[tok[p]] = Nil THEN "drain" ELSE "unregister"]
    /\ UNCHANGED <<parent, parentIdx, published, origin, tok, cause>>

\* s without its element i (counted from 0), the last one moved into the gap.
SwapRemove(s, i) ==
    [j \in 1..Len(s) - 1 |-> IF j = i + 1 THEN s[Len(s)] ELSE s[j]]

\* parent.unregisterChild(t): the parent's list is already gone ...
UnregisterFromCanceled(p) ==
    /\ pc[p] = "unregister"
    /\ Canceled(parent[tok[p]])
    /\ pc' = [pc EXCEPT ![p] = "drain"]
    /\ UNCHANGED <<tokenVars, tok, cause, queue>>

\* Fault: the moved child keeps its old index.
UnregisterKeepsMovedIndex(p) ==
    LET q == parent[tok[p]]
    IN  /\ pc[p] = "unregister"
        /\ ~Canceled(q)
        /\ children' = [children EXCEPT ![q] = SwapRemove(@, parentIdx[tok[p]])]
        /\ pc' = [pc EXCEPT ![p] = "drain"]
        /\ UNCHANGED <<parent, parentIdx, err, published, origin, tok, cause, queue>>

\* ... or t is swapped with the last child and cut off.
UnregisterFromAlive(p) ==
    LET t     == tok[p]
        q     == parent[t]
        idx   == parentIdx[t]
        moved == children[q][Len(children[q])]
    IN  /\ pc[p] = "unregister"
        /\ ~Canceled(q)
        /\ children' = [children EXCEPT ![q] = SwapRemove(@, idx)]
        /\ parentIdx' = IF idx = Len(children[q]) - 1
                        THEN parentIdx
                        ELSE [parentIdx EXCEPT ![moved] = idx]
        /\ pc' = [pc EXCEPT ![p] = "drain"]
        /\ UNCHANGED <<parent, err, published, origin, tok, cause, queue>>

\* The propagation loop pops a descendant that is still alive and cancels it.
DrainAlive(p) ==
    /\ pc[p] = "drain"
    /\ queue[p] # <<>>
    /\ ~Canceled(Head(queue[p]))
    /\ CancelSelfAndDetachChildren(p, Head(queue[p]), Tail(queue[p]))
    /\ UNCHANGED <<parent, parentIdx, published, origin, pc, tok, cause>>

\* Faults: a canceled descendant gets this propagation's cause as well; the
\* loop looks at the front of the queue and does not pop it.
DrainOverwrites(p) ==
    /\ pc[p] = "drain"
    /\ queue[p] # <<>>
    /\ Canceled(Head(queue[p]))
    /\ CancelSelfAndDetachChildren(p, Head(queue[p]), Tail(queue[p]))
    /\ UNCHANGED <<parent, parentIdx, published, origin, pc, tok, cause>>

DrainPeeks(p) ==
    /\ pc[p] = "drain"
    /\ queue[p] # <<>>
    /\ Canceled(Head(queue[p]))
    /\ UNCHANGED vars

\* The propagation loop pops a descendant that somebody else has canceled.
DrainCanceled(p) ==
    /\ pc[p] = "drain"
    /\ queue[p] # <<>>
    /\ Canceled(Head(queue[p]))
    /\ queue' = [queue EXCEPT ![p] = Tail(@)]
    /\ UNCHANGED <<tokenVars, pc, tok, cause>>

\* Fault: Cancel gives up the rest of its queue.
CancelReturnsEarly(p) ==
    /\ pc[p] = "drain"
    /\ Finish(p)
    /\ queue' = [queue EXCEPT ![p] = <<>>]
    /\ UNCHANGED <<parent, parentIdx, children, err, origin>>

\* The queue is empty: Cancel returns CanceledByUs.
CancelReturns(p) ==
    /\ pc[p] = "drain"
    /\ queue[p] = <<>>
    /\ Finish(p)
    /\ UNCHANGED <<parent, parentIdx, children, err, origin, queue>>

CancelStep(p) ==
    \/ CancelTooLate(p)
    \/ CancelReceiver(p)
    \/ UnregisterFromCanceled(p)
    \/ UnregisterFromAlive(p)
    \/ DrainAlive(p)
    \/ DrainCanceled(p)
    \/ CancelReturns(p)

Next ==
    \E p \in Procs :
        \/ CancelStep(p)
        \/ \E t \in Tokens : NewRoot(p, t)
        \/ \E t, q \in Tokens : RegisterChild(p, t, q) \/ RegisterRefused(p, t, q)
        \/ \E t \in Tokens, e \in Errs : CallCancel(p, t, e)

SafeSpec == Init /\ [][Next]_vars

\* A goroutine inside Cancel is scheduled again; nobody has to call anything.
Spec == SafeSpec /\ \A p \in Procs : WF_vars(CancelStep(p))
-----------------------------------------------------------------------------
\* p's propagation still has to visit t.
Owns(p, t) == pc[p] \in {"unregister", "drain"} /\ t \in Elems(queue[p])

Registered(c, q) == c \in Elems(children[q])

\* p has canceled c and has not yet taken it off its parent's list.
Unregistering(p, c) == pc[p] = "unregister" /\ tok[p] = c

\* The cancellation of a parent is never lost on the way to a child, however
\* NewChild, Cancel on either of them and the propagations of other goroutines
\* interleave: a child that is alive under a canceled parent is in the queue
\* of a Cancel that is still running ("only one caller owns propagation").
NoLostCancellation ==
    \A t \in published :
        ~Canceled(t) /\ origin[t] # Nil /\ Canceled(origin[t])
            => \E p \in Procs : Owns(p, t)

\* The four assertions of unregisterChild never fail, whatever swap-removes
\* other goroutines did on the same list between the child's registration and
\* its removal: a canceled parent has no list, parentIdx is inside the list,
\* it is the child's own slot, and the child moved into the gap has the same
\* parent.
UnregisterAssertions ==
    \A p \in Procs :
        pc[p] = "unregister" =>
            LET t == tok[p]
                q == parent[t]
                n == Len(children[q])
            IN  IF Canceled(q)
                THEN children[q] = <<>>
                ELSE /\ parentIdx[t] \in 0..n - 1
                     /\ children[q][parentIdx[t] + 1] = t
                     /\ parent[children[q][n]] = q

\* The child list of a token that is alive is exactly its children that are
\* alive, plus those whose Cancel is just about to unregister them: nobody is
\* dropped, and no canceled token stays reachable from its parent (it could
\* not be garbage collected) once its Cancel has gone past unregisterChild.
ChildrenExact ==
    \A q \in published :
        ~Canceled(q) =>
            Elems(children[q]) =
                {c \in published : /\ parent[c] = q
                                   /\ ~Canceled(c) \/ \E p \in Procs : Unregistering(p, c)}

\* What holders of tokens see: only tokens that newChildToken has returned, and
\* a call only until its first critical section decides it.
Held(f) == [t \in Tokens |-> IF t \in published THEN f[t] ELSE Nil]
PendingCall(p) ==
    IF pc[p] = "cancelSelf" /\ tok[p] \in published
    THEN [tok |-> tok[p], err |-> cause[p]]
    ELSE [tok |-> Nil, err |-> Nil]

Tree == INSTANCE TokenTree WITH
            created <- published,
            up      <- Held(origin),
            cause   <- Held(err),
            call    <- [p \in Procs |-> PendingCall(p)]

\* The detailed tree implements TokenTree: a token is canceled by a Cancel
\* call on itself, with that call's error, or with the cause of the token it
\* was created under; the first cause stays; a child made under a canceled
\* parent is already canceled when NewChild returns it.
ImplementsTree == Tree!SafeSpec

\* Cancellation reaches every token below a canceled one.
CancelReachesChildren ==
    \A t \in Tokens :
        (t \in published /\ origin[t] # Nil /\ Canceled(origin[t])) ~> Canceled(t)

\* Every Cancel call returns, and so does a NewChild under a canceled parent.
CancelTerminates == \A p \in Procs : (pc[p] # "idle") ~> (pc[p] = "idle")
-----------------------------------------------------------------------------
(***************************************************************************)
(* The inductive invariant behind the safety properties.                   *)
(***************************************************************************)
\* A token nobody holds has no links; it is canceled, and has an origin, only
\* through the goroutine that is constructing it.
FreshTokens ==
    \A t \in Tokens \ published :
        /\ children[t] = <<>>
        /\ parent[t] = Nil
        /\ Canceled(t) => \E p \in Procs : pc[p] = "drain" /\ tok[p] = t
        /\ origin[t] # Nil => UnderConstruction(t)

\* The parent field of a held token is the token it was created under, unless
\* that one was canceled at the time; then so was this token.
ParentLinks ==
    \A t \in published :
        /\ origin[t] \in published \cup {Nil}
        /\ parent[t] = origin[t] \/ (parent[t] = Nil /\ Canceled(t))

\* A list holds children of its owner, each with the index of its slot.
ListsIndexed ==
    \A q \in Tokens : \A i \in 1..Len(children[q]) :
        /\ children[q][i] \in published
        /\ parent[children[q][i]] = q
        /\ parentIdx[children[q][i]] = i - 1

\* A canceled token has no list.
CanceledHasNoList == \A q \in Tokens : Canceled(q) => children[q] = <<>>

\* A child that is alive, or canceled and not yet unregistered, is in the slot
\* its index names.
ChildrenListed ==
    \A c \in published :
        /\ parent[c] # Nil
        /\ ~Canceled(parent[c])
        /\ ~Canceled(c) \/ \E p \in Procs : Unregistering(p, c)
        => /\ parentIdx[c] < Len(children[parent[c]])
           /\ children[parent[c]][parentIdx[c] + 1] = c

\* Only such children are listed.
ListedNotGone ==
    \A q \in Tokens : \A i \in 1..Len(children[q]) :
        Canceled(children[q][i]) => \E p \in Procs : Unregistering(p, children[q][i])

\* A goroutine outside Cancel holds nothing; one past the first critical
\* section has canceled its receiver; one that unregisters has a parent.
ProcState ==
    \A p \in Procs :
        /\ pc[p] = "idle" => tok[p] = Nil
        /\ pc[p] # "idle" => tok[p] \in Tokens /\ cause[p] \in Errs
        /\ pc[p] \in {"idle", "cancelSelf"} => queue[p] = <<>>
        /\ pc[p] \in {"unregister", "drain"} => err[tok[p]] # Nil
        /\ pc[p] = "unregister" => tok[p] \in published /\ parent[tok[p]] # Nil

\* A receiver that is not held yet is a child being constructed under a
\* canceled parent, with the parent's cause.
Construction ==
    \A p \in Procs :
        pc[p] # "idle" /\ tok[p] \notin published =>
            /\ origin[tok[p]] \in published
            /\ err[origin[tok[p]]] = cause[p]
            /\ pc[p] = "cancelSelf" => err[tok[p]] = Nil
            /\ pc[p] = "drain" => err[tok[p]] = cause[p] /\ queue[p] = <<>>

\* Two goroutines never construct, and never unregister, the same token.
Exclusive ==
    \A p, r \in Procs :
        /\ pc[p] # "idle"
        /\ tok[p] = tok[r]
        /\ tok[p] \notin published \/ (pc[p] = "unregister" /\ pc[r] = "unregister")
        => p = r

\* What is queued was detached by this goroutine from a parent that it
\* canceled with its own cause.
QueueOwned ==
    \A p \in Procs : \A d \in Elems(queue[p]) :
        /\ d \in published
        /\ parent[d] # Nil
        /\ err[parent[d]] = cause[p]

\* The inductive invariant: what Cancel, NewChild and the propagations of all
\* goroutines maintain together between two critical sections.
IInv ==
    /\ TypeOK
    /\ FreshTokens
    /\ ParentLinks
    /\ ListsIndexed
    /\ CanceledHasNoList
    /\ ChildrenListed
    /\ ListedNotGone
    /\ ProcState
    /\ Construction
    /\ Exclusive
    /\ QueueOwned
    /\ NoLostCancellation
=============================================================================
