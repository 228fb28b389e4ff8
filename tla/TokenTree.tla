----------------------------- MODULE TokenTree -----------------------------
(***************************************************************************)
(* What package base/cancel promises of a tree of cancellation tokens      *)
(* (the comments of Token and ChildToken in cancel/token.go), with no      *)
(* locks, no child lists and no propagation queues.                        *)
(*                                                                         *)
(* A token is alive until it has a cause.  It gets one in three ways only: *)
(* a Cancel call on the token itself takes effect, the cause of its parent *)
(* flows down to it, or it is created under a canceled parent and is born  *)
(* with the parent's cause.                                                *)
(***************************************************************************)
CONSTANTS Tokens,   \* the tokens that may ever be created
          Procs,    \* the goroutines that use them
          Errs,     \* the non-nil errors given to Cancel
          Nil       \* Go's nil: no parent, no error

VARIABLES created,  \* the tokens some caller holds
          up,       \* up[t]: the token t was created under, or Nil
          cause,    \* cause[t]: what KeepGoing returns
          call      \* call[p]: p's Cancel call that has not taken effect

vars == <<created, up, cause, call>>

NoCall == [tok |-> Nil, err |-> Nil]
Calls == [tok : Tokens, err : Errs] \cup {NoCall}

\* Types of the abstract tree.
TypeOK ==
    /\ created \subseteq Tokens
    /\ up \in [Tokens -> Tokens \cup {Nil}]
    /\ cause \in [Tokens -> Errs \cup {Nil}]
    /\ call \in [Procs -> Calls]

Init ==
    /\ created = {}
    /\ up = [t \in Tokens |-> Nil]
    /\ cause = [t \in Tokens |-> Nil]
    /\ call = [p \in Procs |-> NoCall]

\* A token without a cancelable parent.
NewRoot(t) ==
    /\ t \notin created
    /\ created' = created \cup {t}
    /\ UNCHANGED <<up, cause, call>>

\* A child starts with whatever cause its parent has: none, or the final one.
NewChild(t, q) ==
    /\ t \notin created
    /\ q \in created
    /\ created' = created \cup {t}
    /\ up' = [up EXCEPT ![t] = q]
    /\ cause' = [cause EXCEPT ![t] = cause[q]]
    /\ UNCHANGED call

CallCancel(p, t, e) ==
    /\ call[p] = NoCall
    /\ t \in created
    /\ call' = [call EXCEPT ![p] = [tok |-> t, err |-> e]]
    /\ UNCHANGED <<created, up, cause>>

\* The call fixes the cause of a token that is alive (CanceledByUs) ...
TakeEffect(p) ==
    /\ call[p] # NoCall
    /\ cause[call[p].tok] = Nil
    /\ cause' = [cause EXCEPT ![call[p].tok] = call[p].err]
    /\ call' = [call EXCEPT ![p] = NoCall]
    /\ UNCHANGED <<created, up>>

\* ... and leaves a canceled one as it is (AlreadyCanceled).
Ignore(p) ==
    /\ call[p] # NoCall
    /\ cause[call[p].tok] # Nil
    /\ call' = [call EXCEPT ![p] = NoCall]
    /\ UNCHANGED <<created, up, cause>>

\* Cancellation flows from parent to child, with the parent's cause.
Propagate(t) ==
    /\ t \in created
    /\ cause[t] = Nil
    /\ up[t] # Nil
    /\ cause[up[t]] # Nil
    /\ cause' = [cause EXCEPT ![t] = cause[up[t]]]
    /\ UNCHANGED <<created, up, call>>

Next ==
    \/ \E t \in Tokens : NewRoot(t) \/ Propagate(t)
    \/ \E t, q \in Tokens : NewChild(t, q)
    \/ \E p \in Procs : TakeEffect(p) \/ Ignore(p)
    \/ \E p \in Procs, t \in Tokens, e \in Errs : CallCancel(p, t, e)

Fairness ==
    /\ \A t \in Tokens : WF_vars(Propagate(t))
    /\ \A p \in Procs : WF_vars(TakeEffect(p) \/ Ignore(p))

SafeSpec == Init /\ [][Next]_vars

Spec == SafeSpec /\ Fairness
=============================================================================
