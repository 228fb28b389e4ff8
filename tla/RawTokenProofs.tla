--------------------------- MODULE RawTokenProofs ---------------------------
(***************************************************************************)
(* Proofs about RawToken, for any sets of tokens, goroutines and errors.   *)
(* First the lists of children, then, step by step, what creates tokens,   *)
(* starts a Cancel call, unregisters its receiver and drains its queue:    *)
(* each keeps the inductive invariant, and the properties follow from it.  *)
(* The last part shows that the lock-level tree implements the abstract    *)
(* one (TokenTree).                                                        *)
(***************************************************************************)
EXTENDS RawToken, TLAPS

\* Appending to a list of children adds one element.
LEMMA ElemsAppend ==
    ASSUME NEW S, NEW s \in Seq(S), NEW x \in S
    PROVE  /\ Append(s, x) \in Seq(S)
           /\ Elems(Append(s, x)) = Elems(s) \cup {x}
<1>1. Append(s, x) \in Seq(S) /\ Len(Append(s, x)) = Len(s) + 1
    OBVIOUS
<1>2. \A i \in 1..Len(s) : Append(s, x)[i] = s[i]
    OBVIOUS
<1>3. Append(s, x)[Len(s) + 1] = x
    OBVIOUS
<1>4. Len(s) \in Nat
    OBVIOUS
<1>5. ASSUME NEW y \in Elems(Append(s, x)) PROVE y \in Elems(s) \cup {x}
    BY <1>1, <1>2, <1>3, <1>4 DEF Elems
<1>6. ASSUME NEW y \in Elems(s) PROVE y \in Elems(Append(s, x))
    <2>1. PICK i \in 1..Len(s) : y = s[i]
        BY Zenon DEF Elems
    <2>2. i \in 1..Len(Append(s, x)) /\ y = Append(s, x)[i]
        BY <2>1, <1>1, <1>2, <1>4
    <2>3. QED
        BY <2>2, Zenon DEF Elems
<1>7. x \in Elems(Append(s, x))
    <2>1. Len(s) + 1 \in 1..Len(Append(s, x))
        BY <1>1, <1>4
    <2>2. QED
        BY <2>1, <1>3, Zenon DEF Elems
<1>8. QED
    BY <1>1, <1>5, <1>6, <1>7, Zenon

\* Pushing detached children on a queue adds exactly them.
LEMMA ElemsConcat ==
    ASSUME NEW S, NEW s \in Seq(S), NEW u \in Seq(S)
    PROVE  /\ s \o u \in Seq(S)
           /\ Elems(s \o u) = Elems(s) \cup Elems(u)
<1>1. s \o u \in Seq(S) /\ Len(s \o u) = Len(s) + Len(u)
    OBVIOUS
<1>2. Len(s) \in Nat /\ Len(u) \in Nat
    OBVIOUS
<1>3. \A i \in 1..Len(s) : (s \o u)[i] = s[i]
    BY <1>2
<1>4. \A i \in 1..Len(u) : (s \o u)[Len(s) + i] = u[i]
    BY <1>2
<1>5. ASSUME NEW y \in Elems(s \o u) PROVE y \in Elems(s) \cup Elems(u)
    <2>1. PICK i \in 1..(Len(s) + Len(u)) : y = (s \o u)[i]
        BY <1>1, Zenon DEF Elems
    <2>2. CASE i <= Len(s)
        BY <2>1, <2>2, <1>2, <1>3 DEF Elems
    <2>3. CASE ~(i <= Len(s))
        <3>1. i - Len(s) \in 1..Len(u) /\ i = Len(s) + (i - Len(s))
            BY <2>3, <1>2
        <3>2. y = u[i - Len(s)]
            BY <3>1, <2>1, <1>4, Zenon
        <3>3. QED
            BY <3>1, <3>2, Zenon DEF Elems
    <2>4. QED
        BY <2>2, <2>3, Zenon
<1>6. ASSUME NEW y \in Elems(s) PROVE y \in Elems(s \o u)
    <2>1. PICK i \in 1..Len(s) : y = s[i]
        BY Zenon DEF Elems
    <2>2. i \in 1..Len(s \o u) /\ y = (s \o u)[i]
        BY <2>1, <1>1, <1>2, <1>3
    <2>3. QED
        BY <2>2, Zenon DEF Elems
<1>7. ASSUME NEW y \in Elems(u) PROVE y \in Elems(s \o u)
    <2>1. PICK i \in 1..Len(u) : y = u[i]
        BY Zenon DEF Elems
    <2>2. Len(s) + i \in 1..Len(s \o u) /\ y = (s \o u)[Len(s) + i]
        BY <2>1, <1>1, <1>2, <1>4
    <2>3. QED
        BY <2>2, Zenon DEF Elems
<1>8. QED
    BY <1>1, <1>5, <1>6, <1>7, Zenon

\* Popping the front of a queue removes at most its head.
LEMMA ElemsHeadTail ==
    ASSUME NEW S, NEW s \in Seq(S), s # <<>>
    PROVE  /\ Head(s) \in S
           /\ Tail(s) \in Seq(S)
           /\ Elems(s) = {Head(s)} \cup Elems(Tail(s))
<1>1. Len(s) \in Nat /\ Len(s) >= 1
    OBVIOUS
<1>2. Head(s) \in S /\ Head(s) = s[1]
    OBVIOUS
<1>3. Tail(s) \in Seq(S) /\ Len(Tail(s)) = Len(s) - 1
    OBVIOUS
<1>4. \A i \in 1..(Len(s) - 1) : Tail(s)[i] = s[i + 1]
    BY <1>1
<1>5. ASSUME NEW y \in Elems(s) PROVE y \in {Head(s)} \cup Elems(Tail(s))
    <2>1. PICK i \in 1..Len(s) : y = s[i]
        BY Zenon DEF Elems
    <2>2. CASE i = 1
        BY <2>1, <2>2, <1>2, Zenon
    <2>3. CASE i # 1
        <3>1. i - 1 \in 1..Len(Tail(s)) /\ Tail(s)[i - 1] = y
            BY <2>1, <2>3, <1>1, <1>3, <1>4
        <3>2. QED
            BY <3>1, Zenon DEF Elems
    <2>4. QED
        BY <2>2, <2>3, Zenon
<1>6. ASSUME NEW y \in Elems(Tail(s)) PROVE y \in Elems(s)
    <2>1. PICK i \in 1..(Len(s) - 1) : y = s[i + 1]
        BY <1>3, <1>4, Zenon DEF Elems
    <2>2. i + 1 \in 1..Len(s)
        BY <1>1
    <2>3. QED
        BY <2>1, <2>2, Zenon DEF Elems
<1>7. Head(s) \in Elems(s)
    BY <1>1, <1>2 DEF Elems
<1>8. QED
    BY <1>2, <1>3, <1>5, <1>6, <1>7, Zenon

\* A child found in the slot its index names is an element of the list.
LEMMA SlotElem ==
    ASSUME NEW S, NEW s \in Seq(S), NEW i \in Nat, i < Len(s)
    PROVE  s[i + 1] \in Elems(s)
<1>1. i + 1 \in 1..Len(s)
    OBVIOUS
<1>2. QED
    BY <1>1, Zenon DEF Elems

\* swap-remove returns a list one shorter, with the last element in the gap.
LEMMA SwapRemoveFacts ==
    ASSUME NEW S, NEW s \in Seq(S), NEW i \in 0..Len(s) - 1
    PROVE  /\ SwapRemove(s, i) \in Seq(S)
           /\ Len(SwapRemove(s, i)) = Len(s) - 1
           /\ \A j \in 1..Len(s) - 1 :
                  SwapRemove(s, i)[j] = IF j = i + 1 THEN s[Len(s)] ELSE s[j]
<1> DEFINE r == SwapRemove(s, i)
<1>1. Len(s) \in Nat /\ Len(s) - 1 \in Nat
    OBVIOUS
<1>2. \A j \in 1..Len(s) : s[j] \in S
    OBVIOUS
<1>3. r \in [1..Len(s) - 1 -> S]
    BY <1>1, <1>2 DEF SwapRemove
<1>4. r \in Seq(S)
    BY <1>1, <1>3
<1>5. Len(r) = Len(s) - 1
    BY <1>1, <1>3, <1>4
<1>6. QED
    BY <1>4, <1>5, Zenon DEF SwapRemove
-----------------------------------------------------------------------------
(* One lemma per action: it preserves the inductive invariant. *)

\* Before any call there is no token, no list and no queue.
LEMMA InitIInv == Init => IInv
<1> SUFFICES ASSUME Init PROVE IInv
    OBVIOUS
<1> USE NilAssumption DEF Init, Canceled, Elems, Unregistering
<1>1. TypeOK
    BY DEF TypeOK
<1>2. FreshTokens /\ ParentLinks /\ ListsIndexed /\ CanceledHasNoList
    BY DEF FreshTokens, ParentLinks, ListsIndexed, CanceledHasNoList
<1>3. ChildrenListed /\ ListedNotGone
    BY DEF ChildrenListed, ListedNotGone
<1>4. ProcState /\ Construction /\ QueueOwned /\ NoLostCancellation
    BY DEF ProcState, Construction, QueueOwned, NoLostCancellation
<1>5. Exclusive
    BY Zenon DEF Exclusive
<1>6. QED
    BY <1>1, <1>2, <1>3, <1>4, <1>5, Zenon DEF IInv

\* newChildToken(nil): a fresh token without links joins the held ones.
LEMMA NewRootIInv ==
    ASSUME IInv, NEW p \in Procs, NEW t \in Tokens, NewRoot(p, t)
    PROVE  IInv'
<1> USE NilAssumption DEF NewRoot, procVars, Canceled
<1>1. TypeOK' /\ ListsIndexed' /\ CanceledHasNoList' /\ ListedNotGone' /\ ProcState'
    <2>1. TypeOK' /\ ProcState'
        BY Zenon DEF IInv, TypeOK, ProcState
    <2>2. ListsIndexed' /\ CanceledHasNoList'
        BY DEF IInv, ListsIndexed, CanceledHasNoList
    <2>3. ListedNotGone'
        BY DEF IInv, ListedNotGone, Unregistering
    <2>4. QED
        BY <2>1, <2>2, <2>3, Zenon
<1>2. parent[t] = Nil /\ origin[t] = Nil
    BY Zenon DEF IInv, FreshTokens, Allocated
<1>3. FreshTokens'
    BY DEF IInv, FreshTokens, UnderConstruction
<1>4. ParentLinks'
    BY <1>2, Zenon DEF IInv, ParentLinks
<1>5. ChildrenListed'
    BY <1>2, Zenon DEF IInv, ChildrenListed, Unregistering
<1>6. Construction' /\ Exclusive'
    BY DEF IInv, Construction, Exclusive, ProcState
<1>7. QueueOwned'
    BY Zenon DEF IInv, QueueOwned
<1>8. NoLostCancellation'
    BY <1>2, Zenon DEF IInv, NoLostCancellation, Owns
<1>9. QED
    BY <1>1, <1>3, <1>4, <1>5, <1>6, <1>7, <1>8, Zenon DEF IInv

\* registerChild appends at the slot it records in parentIdx, so the list stays
\* indexed and the new child is the only one to gain a parent.
LEMMA RegisterChildIInv ==
    ASSUME IInv, NEW p \in Procs, NEW t \in Tokens, NEW q \in Tokens, RegisterChild(p, t, q)
    PROVE  IInv'
<1> USE NilAssumption DEF Canceled
<1> DEFINE n == Len(children[q])
<1>1. /\ t \notin published /\ t # q
      /\ ~Canceled(t)
      /\ n \in Nat
      /\ q \in published /\ err[q] = Nil
      /\ \A r \in Procs : tok[r] = t => pc[r] = "idle"
    BY DEF IInv, TypeOK, FreshTokens, Allocated, UnderConstruction, RegisterChild
<1>0. published' = published \cup {t} /\ UNCHANGED <<err, pc, tok, cause, queue>>
    BY Zenon DEF RegisterChild, procVars
<1>2. TypeOK'
    BY <1>0, <1>1, ElemsAppend DEF IInv, TypeOK, RegisterChild
<1>3. /\ \A x \in Tokens \ {q} : children'[x] = children[x]
      /\ Len(children'[q]) = n + 1
      /\ \A i \in 1..n : children'[q][i] = children[q][i]
      /\ children'[q][n + 1] = t
    BY <1>1 DEF IInv, TypeOK, RegisterChild
<1>4. \A x \in Tokens : \A i \in 1..Len(children[x]) : children[x][i] # t
    BY <1>1 DEF IInv, ListsIndexed
<1>5. /\ parent'[t] = q /\ parentIdx'[t] = n /\ origin'[t] = q
      /\ \A x \in Tokens \ {t} : /\ parent'[x] = parent[x]
                                 /\ parentIdx'[x] = parentIdx[x]
                                 /\ origin'[x] = origin[x]
    BY Zenon DEF IInv, TypeOK, RegisterChild
<1>6. FreshTokens'
    BY <1>0, <1>1, <1>3, <1>5 DEF IInv, FreshTokens, UnderConstruction
<1>7. ParentLinks'
    <2> SUFFICES ASSUME NEW u \in published'
                 PROVE  /\ origin'[u] \in published' \cup {Nil}
                        /\ parent'[u] = origin'[u] \/ (parent'[u] = Nil /\ err[u] # Nil)
        BY <1>0, Zenon DEF ParentLinks
    <2>1. CASE u = t
        BY <2>1, <1>0, <1>1, <1>5, Zenon
    <2>2. CASE u # t
        <3>1. u \in published /\ u \in Tokens
            BY <2>2, <1>0, Zenon DEF IInv, TypeOK
        <3>2. QED
            BY <3>1, <2>2, <1>0, <1>5, Zenon DEF IInv, ParentLinks
    <2>3. QED
        BY <2>1, <2>2, Zenon
<1>8. ListsIndexed'
    <2> SUFFICES ASSUME NEW x \in Tokens, NEW i \in 1..Len(children'[x])
                 PROVE  /\ children'[x][i] \in published'
                        /\ parent'[children'[x][i]] = x
                        /\ parentIdx'[children'[x][i]] = i - 1
        BY Zenon DEF ListsIndexed
    <2>1. CASE x = q /\ i = n + 1
        BY <2>1, <1>0, <1>1, <1>3, <1>5
    <2>2. CASE ~(x = q /\ i = n + 1)
        <3>1. i \in 1..Len(children[x]) /\ children'[x][i] = children[x][i]
            BY <2>2, <1>1, <1>3
        <3>2. children[x][i] \in Tokens \ {t}
            BY <3>1, <1>4, Zenon DEF IInv, TypeOK, ListsIndexed
        <3>3. QED
            <4>1. children[x][i] \in published /\ parent[children[x][i]] = x /\ parentIdx[children[x][i]] = i - 1
                BY <3>1, Zenon DEF IInv, ListsIndexed
            <4>2. QED
                BY <4>1, <3>1, <3>2, <1>0, <1>5, Zenon
    <2>3. QED
        BY <2>1, <2>2, Zenon
<1>9. CanceledHasNoList'
    BY <1>0, <1>1, <1>3, Zenon DEF IInv, CanceledHasNoList
<1>10. ChildrenListed'
    <2> SUFFICES ASSUME NEW c \in published', parent'[c] # Nil, ~Canceled(parent'[c]),
                        ~Canceled(c) \/ \E r \in Procs : Unregistering(r, c)
                 PROVE  /\ parentIdx'[c] < Len(children'[parent'[c]])
                        /\ children'[parent'[c]][parentIdx'[c] + 1] = c
        BY <1>0, Zenon DEF ChildrenListed, Unregistering
    <2>1. CASE c = t
        BY <2>1, <1>1, <1>3, <1>5
    <2>2. CASE c # t
        <3>1. c \in published /\ c \in Tokens /\ parent'[c] = parent[c] /\ parentIdx'[c] = parentIdx[c]
            BY <2>2, <1>0, <1>5, Zenon DEF IInv, TypeOK
        <3>2. parentIdx[c] < Len(children[parent[c]]) /\ children[parent[c]][parentIdx[c] + 1] = c
            BY <3>1, Zenon DEF IInv, ChildrenListed
        <3>3. parentIdx[c] \in Nat /\ parent[c] \in Tokens
            BY <3>1, Zenon DEF IInv, TypeOK
        <3>4. CASE parent[c] = q
            <4>1. parentIdx[c] + 1 \in 1..n /\ children[q][parentIdx[c] + 1] = c
                BY <3>2, <3>3, <3>4, <1>1
            <4>2. children'[q][parentIdx[c] + 1] = c /\ parentIdx[c] < Len(children'[q])
                BY <4>1, <3>3, <1>1, <1>3
            <4>3. QED
                BY <4>2, <3>1, <3>4, Zenon
        <3>5. CASE parent[c] # q
            BY <3>1, <3>2, <3>3, <3>5, <1>3, Zenon
        <3>6. QED
            BY <3>4, <3>5, Zenon
    <2>3. QED
        BY <2>1, <2>2, Zenon
<1>11. ListedNotGone'
    <2> SUFFICES ASSUME NEW x \in Tokens, NEW i \in 1..Len(children'[x]), Canceled(children'[x][i])
                 PROVE  \E r \in Procs : Unregistering(r, children'[x][i])
        BY <1>0 DEF ListedNotGone, Unregistering
    <2>1. ~(x = q /\ i = n + 1)
        BY <1>1, <1>3, Zenon
    <2>2. i \in 1..Len(children[x]) /\ children'[x][i] = children[x][i]
        BY <2>1, <1>1, <1>3
    <2>3. QED
        BY <2>2, Zenon DEF IInv, ListedNotGone
<1>12. ProcState' /\ Construction' /\ Exclusive'
    <2>1. ProcState'
        BY <1>0, <1>1, <1>5 DEF IInv, ProcState
    <2>2. Construction'
        BY <1>0, <1>1, <1>5 DEF IInv, ProcState, Construction
    <2>3. Exclusive'
        BY <1>0, <1>1, Zenon DEF IInv, Exclusive
    <2>4. QED
        BY <2>1, <2>2, <2>3, Zenon
<1>13. QueueOwned'
    <2>1. published \subseteq Tokens
        BY Zenon DEF IInv, TypeOK
    <2>2. QED
        BY <2>1, <1>0, <1>1, <1>5 DEF IInv, QueueOwned
<1>14. NoLostCancellation'
    <2> SUFFICES ASSUME NEW u \in published', err[u] = Nil, origin'[u] # Nil, err[origin'[u]] # Nil
                 PROVE  \E r \in Procs : Owns(r, u)
        BY <1>0, Zenon DEF NoLostCancellation, Owns
    <2>1. u # t
        BY <1>1, <1>5, Zenon
    <2>2. u \in published /\ u \in Tokens
        BY <2>1, <1>0, Zenon DEF IInv, TypeOK
    <2>3. QED
        BY <2>1, <2>2, <1>5, Zenon DEF IInv, NoLostCancellation
<1>15. QED
    BY <1>2, <1>6, <1>7, <1>8, <1>9, <1>10, <1>11, <1>12, <1>13, <1>14, Zenon DEF IInv

\* A refused registration starts the construction of an orphan that only this
\* goroutine can see and that carries the parent's cause.
LEMMA RegisterRefusedIInv ==
    ASSUME IInv, NEW p \in Procs, NEW t \in Tokens, NEW q \in Tokens, RegisterRefused(p, t, q)
    PROVE  IInv'
<1> USE NilAssumption DEF RegisterRefused, Canceled
<1>1. /\ t \notin published /\ t # q
      /\ ~Canceled(t)
      /\ \A r \in Procs : tok[r] = t => pc[r] = "idle"
    BY DEF IInv, TypeOK, FreshTokens, Allocated, UnderConstruction
<1>2. TypeOK'
    BY Zenon DEF IInv, TypeOK
<1>3. /\ pc'[p] = "cancelSelf" /\ tok'[p] = t /\ cause'[p] = err[q] /\ origin'[t] = q
      /\ \A r \in Procs \ {p} : pc'[r] = pc[r] /\ tok'[r] = tok[r] /\ cause'[r] = cause[r]
      /\ \A x \in Tokens \ {t} : origin'[x] = origin[x]
    BY DEF IInv, TypeOK
<1>4. \A r \in Procs, c \in Tokens : Unregistering(r, c)' <=> Unregistering(r, c)
    BY <1>3, Zenon DEF Unregistering
<1>5. FreshTokens'
    <2>1. UnderConstruction(t)'
        BY <1>3, Zenon DEF UnderConstruction
    <2>2. \A x \in Tokens : UnderConstruction(x) => UnderConstruction(x)'
        BY <1>3 DEF UnderConstruction
    <2>3. \A x \in Tokens : (\E r \in Procs : pc[r] = "drain" /\ tok[r] = x)
                            => \E r \in Procs : pc'[r] = "drain" /\ tok'[r] = x
        BY <1>3
    <2>4. QED
        BY <2>1, <2>2, <2>3, <1>1, <1>3 DEF IInv, FreshTokens
<1>6. ParentLinks'
    BY <1>1, <1>3 DEF IInv, TypeOK, ParentLinks
<1>7. ListsIndexed' /\ CanceledHasNoList'
    BY Zenon DEF IInv, ListsIndexed, CanceledHasNoList
<1>8. ChildrenListed'
    <2> SUFFICES ASSUME NEW c \in published, parent[c] # Nil, err[parent[c]] = Nil,
                        err[c] = Nil \/ \E r \in Procs : Unregistering(r, c)'
                 PROVE  /\ parentIdx[c] < Len(children[parent[c]])
                        /\ children[parent[c]][parentIdx[c] + 1] = c
        BY Zenon DEF ChildrenListed
    <2>1. c \in published /\ c \in Tokens
        BY Zenon DEF IInv, TypeOK
    <2>2. err[c] = Nil \/ \E r \in Procs : Unregistering(r, c)
        BY <2>1, <1>4, Zenon
    <2>3. QED
        BY <2>1, <2>2, Zenon DEF IInv, ChildrenListed
<1>9. ListedNotGone'
    BY <1>4, Zenon DEF IInv, TypeOK, ListsIndexed, ListedNotGone
<1>10. ProcState'
    <2>1. err[q] \in Errs
        BY Zenon DEF IInv, TypeOK
    <2>2. QED
        BY <2>1, <1>3 DEF IInv, ProcState
<1>11. Construction'
    BY <1>1, <1>3 DEF IInv, TypeOK, ProcState, Construction
<1>12. Exclusive'
    BY <1>1, <1>3 DEF IInv, TypeOK, ProcState, Exclusive
<1>13. QueueOwned'
    <2>1. Elems(queue[p]) = {}
        BY DEF IInv, ProcState, Elems
    <2>2. QED
        BY <2>1, <1>3 DEF IInv, QueueOwned
<1>14. NoLostCancellation'
    <2>1. \A r \in Procs, x \in Tokens : Owns(r, x) => Owns(r, x)'
        BY <1>3, Zenon DEF Owns
    <2>2. QED
        <3>1. \A u \in published : u \in Tokens /\ origin'[u] = origin[u]
            BY <1>1, <1>3 DEF IInv, TypeOK
        <3>2. QED
            BY <3>1, <2>1 DEF IInv, NoLostCancellation
<1>15. QED
    BY <1>2, <1>5, <1>6, <1>7, <1>8, <1>9, <1>10, <1>11, <1>12, <1>13, <1>14, Zenon DEF IInv

\* Entering Cancel changes no token.
LEMMA CallCancelIInv ==
    ASSUME IInv, NEW p \in Procs, NEW t \in Tokens, NEW e \in Errs, CallCancel(p, t, e)
    PROVE  IInv'
<1> USE NilAssumption DEF CallCancel, tokenVars, Canceled
<1>1. TypeOK'
    BY Zenon DEF IInv, TypeOK
<1>2. /\ pc'[p] = "cancelSelf" /\ tok'[p] = t /\ cause'[p] = e
      /\ \A r \in Procs \ {p} : pc'[r] = pc[r] /\ tok'[r] = tok[r] /\ cause'[r] = cause[r]
    BY Zenon DEF IInv, TypeOK
<1>3. \A r \in Procs, c \in Tokens : Unregistering(r, c)' <=> Unregistering(r, c)
    BY <1>2, Zenon DEF Unregistering
<1>4. FreshTokens'
    <2>1. \A x \in Tokens : UnderConstruction(x) => UnderConstruction(x)'
        BY <1>2, Zenon DEF UnderConstruction
    <2>2. \A x \in Tokens : (\E r \in Procs : pc[r] = "drain" /\ tok[r] = x)
                            => \E r \in Procs : pc'[r] = "drain" /\ tok'[r] = x
        BY <1>2, Zenon
    <2>3. QED
        BY <2>1, <2>2, Zenon DEF IInv, FreshTokens
<1>5. ParentLinks' /\ ListsIndexed' /\ CanceledHasNoList'
    BY DEF IInv, ParentLinks, ListsIndexed, CanceledHasNoList
<1>6. ChildrenListed'
    BY <1>3, Zenon DEF IInv, TypeOK, ChildrenListed
<1>7. ListedNotGone'
    BY <1>3 DEF IInv, TypeOK, ListsIndexed, ListedNotGone
<1>8. ProcState' /\ Construction' /\ Exclusive'
    <2>1. ProcState'
        BY <1>2 DEF IInv, TypeOK, ProcState
    <2>2. Construction'
        BY <1>2 DEF IInv, TypeOK, ProcState, Construction
    <2>3. Exclusive'
        BY <1>2 DEF IInv, TypeOK, ProcState, Exclusive
    <2>4. QED
        BY <2>1, <2>2, <2>3, Zenon
<1>9. QueueOwned'
    <2>1. Elems(queue[p]) = {}
        BY DEF IInv, ProcState, Elems
    <2>2. QED
        BY <2>1, <1>2 DEF IInv, QueueOwned
<1>10. NoLostCancellation'
    <2>1. \A r \in Procs, x \in Tokens : Owns(r, x) => Owns(r, x)'
        BY <1>2, Zenon DEF Owns
    <2>2. QED
        BY <2>1, Zenon DEF IInv, TypeOK, NoLostCancellation
<1>11. QED
    BY <1>1, <1>4, <1>5, <1>6, <1>7, <1>8, <1>9, <1>10, Zenon DEF IInv

\* Cancel on a canceled token returns without touching the tree.
LEMMA CancelTooLateIInv ==
    ASSUME IInv, NEW p \in Procs, CancelTooLate(p)
    PROVE  IInv'
<1> USE NilAssumption DEF CancelTooLate, Finish, Canceled
<1>1. tok[p] \in published /\ published' = published
    BY DEF IInv, ProcState, Construction
<1>2. TypeOK'
    BY <1>1, Zenon DEF IInv, TypeOK
<1>3. /\ pc'[p] = "idle" /\ tok'[p] = Nil /\ cause'[p] = Nil
      /\ \A r \in Procs \ {p} : pc'[r] = pc[r] /\ tok'[r] = tok[r] /\ cause'[r] = cause[r]
    BY Zenon DEF IInv, TypeOK
<1>4. \A r \in Procs, c \in Tokens : Unregistering(r, c)' <=> Unregistering(r, c)
    BY <1>3, Zenon DEF Unregistering
<1>5. FreshTokens'
    <2>1. \A x \in Tokens \ published : UnderConstruction(x) => UnderConstruction(x)'
        BY <1>1, <1>3, Zenon DEF UnderConstruction
    <2>2. \A x \in Tokens : (\E r \in Procs : pc[r] = "drain" /\ tok[r] = x)
                            => \E r \in Procs : pc'[r] = "drain" /\ tok'[r] = x
        BY <1>3, Zenon
    <2>3. QED
        BY <2>1, <2>2, <1>1, Zenon DEF IInv, FreshTokens
<1>6. ParentLinks' /\ ListsIndexed' /\ CanceledHasNoList'
    BY <1>1 DEF IInv, ParentLinks, ListsIndexed, CanceledHasNoList
<1>7. ChildrenListed'
    BY <1>1, <1>4, Zenon DEF IInv, TypeOK, ChildrenListed
<1>8. ListedNotGone'
    BY <1>4 DEF IInv, TypeOK, ListsIndexed, ListedNotGone
<1>9. ProcState' /\ Construction' /\ Exclusive'
    <2>1. ProcState'
        BY <1>1, <1>3 DEF IInv, TypeOK, ProcState
    <2>2. Construction'
        BY <1>1, <1>3 DEF IInv, TypeOK, ProcState, Construction
    <2>3. Exclusive'
        BY <1>1, <1>3 DEF IInv, TypeOK, ProcState, Exclusive
    <2>4. QED
        BY <2>1, <2>2, <2>3, Zenon
<1>10. QueueOwned'
    <2>1. Elems(queue[p]) = {}
        BY DEF IInv, ProcState, Elems
    <2>2. QED
        BY <2>1, <1>1, <1>3 DEF IInv, QueueOwned
<1>11. NoLostCancellation'
    <2>1. \A r \in Procs, x \in Tokens : Owns(r, x) => Owns(r, x)'
        BY <1>3, Zenon DEF Owns
    <2>2. QED
        BY <2>1, <1>1, Zenon DEF IInv, TypeOK, NoLostCancellation
<1>12. QED
    BY <1>2, <1>5, <1>6, <1>7, <1>8, <1>9, <1>10, <1>11, Zenon DEF IInv

\* The first critical section of Cancel: every child of the receiver moves from
\* its list to this goroutine's queue, so no cancellation is lost.
LEMMA CancelReceiverIInv ==
    ASSUME IInv, NEW p \in Procs, CancelReceiver(p)
    PROVE  IInv'
<1> DEFINE x == tok[p]
<1> USE NilAssumption DEF Canceled
<1>1. /\ x \in Tokens /\ err[x] = Nil /\ cause[p] \in Errs /\ queue[p] = <<>>
      /\ pc[p] = "cancelSelf"
    BY Zenon DEF IInv, ProcState, CancelReceiver
<1>0. UNCHANGED <<parent, parentIdx, published, origin, tok, cause>>
    BY Zenon DEF CancelReceiver
<1>2. queue[p] \o children[x] \in Seq(Tokens) /\ Elems(queue[p] \o children[x]) = Elems(children[x])
    <2>1. Elems(queue[p]) = {}
        BY <1>1 DEF Elems
    <2>2. QED
        BY <2>1, <1>1, ElemsConcat DEF IInv, TypeOK
<1>3. TypeOK'
    BY <1>0, <1>1, <1>2, Zenon DEF IInv, TypeOK, CancelReceiver, CancelSelfAndDetachChildren
<1>4. /\ err'[x] = cause[p] /\ children'[x] = <<>>
      /\ \A y \in Tokens \ {x} : err'[y] = err[y] /\ children'[y] = children[y]
      /\ pc'[p] = IF parent[x] = Nil THEN "drain" ELSE "unregister"
      /\ queue'[p] = queue[p] \o children[x]
      /\ \A r \in Procs \ {p} : pc'[r] = pc[r] /\ queue'[r] = queue[r]
    BY <1>1 DEF IInv, TypeOK, CancelReceiver, CancelSelfAndDetachChildren
<1>5. FreshTokens'
    <2>1. \A y \in Tokens : UnderConstruction(y) => UnderConstruction(y)'
        BY <1>0, <1>1, <1>4, Zenon DEF UnderConstruction
    <2>2. ASSUME NEW y \in Tokens \ published, err'[y] # Nil
          PROVE  \E r \in Procs : pc'[r] = "drain" /\ tok[r] = y
        <3>1. CASE y = x
            BY <3>1, <1>4, Zenon DEF IInv, FreshTokens
        <3>2. CASE y # x
            BY <3>2, <2>2, <1>1, <1>4 DEF IInv, FreshTokens
        <3>3. QED
            BY <3>1, <3>2, Zenon
    <2>3. QED
        BY <2>1, <2>2, <1>0, <1>4 DEF IInv, FreshTokens
<1>6. ParentLinks' /\ CanceledHasNoList'
    <2>1. published \subseteq Tokens
        BY Zenon DEF IInv, TypeOK
    <2>2. ParentLinks'
        BY <2>1, <1>0, <1>1, <1>4 DEF IInv, ParentLinks
    <2>3. CanceledHasNoList'
        BY <1>4, Zenon DEF IInv, CanceledHasNoList
    <2>4. QED
        BY <2>2, <2>3, Zenon
<1>7. ListsIndexed'
    <2> SUFFICES ASSUME NEW y \in Tokens, NEW i \in 1..Len(children'[y])
                 PROVE  /\ children'[y][i] \in published
                        /\ parent[children'[y][i]] = y
                        /\ parentIdx[children'[y][i]] = i - 1
        BY <1>0, Zenon DEF ListsIndexed
    <2>1. children'[y] = children[y]
        BY <1>4
    <2>2. QED
        BY <2>1 DEF IInv, ListsIndexed
<1>8. ChildrenListed'
    <2> SUFFICES ASSUME NEW c \in published, parent[c] # Nil, err'[parent[c]] = Nil,
                        err'[c] = Nil \/ \E r \in Procs : pc'[r] = "unregister" /\ tok[r] = c
                 PROVE  /\ parentIdx[c] < Len(children'[parent[c]])
                        /\ children'[parent[c]][parentIdx[c] + 1] = c
        BY <1>0, Zenon DEF ChildrenListed, Unregistering
    <2>1. c \in Tokens /\ parent[c] \in Tokens /\ parent[c] # x /\ err[parent[c]] = Nil
        BY <1>1, <1>4 DEF IInv, TypeOK
    <2>2. err[c] = Nil \/ \E r \in Procs : pc[r] = "unregister" /\ tok[r] = c
        BY <2>1, <1>1, <1>4, Zenon
    <2>3. QED
        BY <2>1, <2>2, <1>4, Zenon DEF IInv, ChildrenListed, Unregistering
<1>9. ListedNotGone'
    <2> SUFFICES ASSUME NEW y \in Tokens, NEW i \in 1..Len(children'[y]), err'[children'[y][i]] # Nil
                 PROVE  \E r \in Procs : pc'[r] = "unregister" /\ tok[r] = children'[y][i]
        BY <1>0 DEF ListedNotGone, Unregistering
    <2>1. y # x /\ children'[y] = children[y]
        BY <1>4
    <2>2. children[y][i] \in Tokens /\ parent[children[y][i]] = y
        BY <2>1, Zenon DEF IInv, TypeOK, ListsIndexed
    <2>3. CASE children[y][i] = x
        BY <2>1, <2>2, <2>3, <1>4
    <2>4. CASE children[y][i] # x
        BY <2>1, <2>2, <2>4, <1>1, <1>4 DEF IInv, ListedNotGone, Unregistering
    <2>5. QED
        BY <2>3, <2>4, Zenon
<1>10. ProcState'
    <2>1. parent[x] # Nil => x \in published
        BY <1>1, Zenon DEF IInv, FreshTokens
    <2>2. ASSUME NEW r \in Procs \ {p}
          PROVE  /\ pc'[r] = "idle" => tok[r] = Nil
                 /\ pc'[r] # "idle" => tok[r] \in Tokens /\ cause[r] \in Errs
                 /\ pc'[r] \in {"idle", "cancelSelf"} => queue'[r] = <<>>
                 /\ pc'[r] \in {"unregister", "drain"} => err'[tok[r]] # Nil
                 /\ pc'[r] = "unregister" => tok[r] \in published /\ parent[tok[r]] # Nil
        <3>1. pc'[r] = pc[r] /\ queue'[r] = queue[r]
            BY <1>4, Zenon
        <3>2. \A y \in Tokens : err[y] # Nil => err'[y] # Nil
            BY <1>1, <1>4, Zenon
        <3>3. QED
            BY <3>1, <3>2, Zenon DEF IInv, ProcState
    <2>3. QED
        BY <2>1, <2>2, <1>0, <1>1, <1>4 DEF ProcState
<1>11. Construction'
    <2> SUFFICES ASSUME NEW r \in Procs, pc'[r] # "idle", tok[r] \notin published
                 PROVE  /\ origin[tok[r]] \in published
                        /\ err'[origin[tok[r]]] = cause[r]
                        /\ pc'[r] = "cancelSelf" => err'[tok[r]] = Nil
                        /\ pc'[r] = "drain" => err'[tok[r]] = cause[r] /\ queue'[r] = <<>>
        BY <1>0, Zenon DEF Construction
    <2>1. pc[r] # "idle" /\ tok[r] \in Tokens /\ cause[r] \in Errs
        BY <1>1, <1>4 DEF IInv, ProcState
    <2>2. /\ origin[tok[r]] \in published /\ err[origin[tok[r]]] = cause[r]
          /\ origin[tok[r]] \in Tokens \ {x}
        BY <2>1, <1>1 DEF IInv, TypeOK, Construction
    <2>3. CASE r = p
        <3>1. children[x] = <<>>
            BY <2>3, <1>1, Zenon DEF IInv, FreshTokens
        <3>2. QED
            BY <3>1, <2>2, <2>3, <1>1, <1>4
    <2>4. CASE r # p
        <3>1. tok[r] # x
            BY <2>1, <2>4, Zenon DEF IInv, Exclusive
        <3>2. QED
            BY <3>1, <2>1, <2>2, <2>4, <1>4 DEF IInv, Construction
    <2>5. QED
        BY <2>3, <2>4, Zenon
<1>12. Exclusive'
    <2>1. \A r \in Procs : tok[r] = x => pc[r] # "unregister"
        BY <1>1, Zenon DEF IInv, ProcState
    <2>2. QED
        BY <2>1, <1>0, <1>1, <1>4 DEF IInv, Exclusive
<1>13. QueueOwned'
    <2> SUFFICES ASSUME NEW r \in Procs, NEW d \in Elems(queue'[r])
                 PROVE  d \in published /\ parent[d] # Nil /\ err'[parent[d]] = cause[r]
        BY <1>0, Zenon DEF QueueOwned
    <2>1. CASE r = p
        <3>1. d \in Elems(children[x])
            BY <2>1, <1>2, <1>4, Zenon
        <3>2. PICK i \in 1..Len(children[x]) : d = children[x][i]
            BY <3>1, Zenon DEF Elems
        <3>3. QED
            BY <3>2, <2>1, <1>1, <1>4 DEF IInv, ListsIndexed
    <2>2. CASE r # p
        <3>1. d \in Elems(queue[r])
            BY <2>2, <1>4, Zenon
        <3>2. pc[r] # "idle" /\ cause[r] \in Errs
            BY <3>1 DEF IInv, ProcState, Elems
        <3>3. /\ d \in published /\ parent[d] # Nil /\ err[parent[d]] = cause[r]
              /\ parent[d] \in Tokens
            BY <3>1 DEF IInv, TypeOK, QueueOwned
        <3>4. QED
            BY <3>2, <3>3, <1>1, <1>4, Zenon
    <2>3. QED
        BY <2>1, <2>2, Zenon
<1>14. NoLostCancellation'
    <2> SUFFICES ASSUME NEW t \in published, err'[t] = Nil, origin[t] # Nil, err'[origin[t]] # Nil
                 PROVE  \E r \in Procs : pc'[r] \in {"unregister", "drain"} /\ t \in Elems(queue'[r])
        BY <1>0, Zenon DEF NoLostCancellation, Owns
    <2>1. t \in Tokens /\ t # x /\ err[t] = Nil /\ origin[t] \in Tokens /\ parent[t] = origin[t]
        BY <1>1, <1>4 DEF IInv, TypeOK, ParentLinks
    <2>2. CASE origin[t] = x
        <3>1. /\ children[x] \in Seq(Tokens) /\ parentIdx[t] \in Nat
              /\ parentIdx[t] < Len(children[x]) /\ children[x][parentIdx[t] + 1] = t
            <4>1. children[x] \in Seq(Tokens) /\ parentIdx[t] \in Nat
                BY <2>1, <1>1, Zenon DEF IInv, TypeOK
            <4>2. QED
                BY <4>1, <2>1, <2>2, <1>1, Zenon DEF IInv, ChildrenListed
        <3>2. t \in Elems(children[x])
            BY <3>1, SlotElem, Zenon
        <3>3. QED
            <4>1. t \in Elems(queue'[p])
                BY <3>2, <1>2, <1>4, Zenon
            <4>2. pc'[p] \in {"unregister", "drain"}
                BY <1>4, Zenon
            <4>3. QED
                BY <4>1, <4>2, Zenon
    <2>3. CASE origin[t] # x
        <3>1. PICK r \in Procs : Owns(r, t)
            BY <2>1, <2>3, <1>4, Zenon DEF IInv, NoLostCancellation
        <3>2. QED
            BY <3>1, <1>1, <1>4, Zenon DEF Owns
    <2>4. QED
        BY <2>2, <2>3, Zenon
<1>15. QED
    BY <1>3, <1>5, <1>6, <1>7, <1>8, <1>9, <1>10, <1>11, <1>12, <1>13, <1>14, Zenon DEF IInv


\* unregisterChild below a canceled parent: that parent has no list any more.
LEMMA UnregisterFromCanceledIInv ==
    ASSUME IInv, NEW p \in Procs, UnregisterFromCanceled(p)
    PROVE  IInv'
<1> DEFINE x == tok[p]
<1> USE NilAssumption DEF UnregisterFromCanceled, tokenVars, Canceled
<1>1. x \in published /\ parent[x] \in Tokens /\ err[parent[x]] # Nil /\ children[parent[x]] = <<>>
    BY DEF IInv, TypeOK, ProcState, CanceledHasNoList
<1>2. TypeOK'
    BY Zenon DEF IInv, TypeOK
<1>3. /\ pc'[p] = "drain" /\ pc[p] = "unregister"
      /\ \A r \in Procs \ {p} : pc'[r] = pc[r]
    BY Zenon DEF IInv, TypeOK
<1>4. \A r \in Procs, c \in Tokens \ {x} : Unregistering(r, c)' <=> Unregistering(r, c)
    BY <1>3, Zenon DEF Unregistering
<1>5. FreshTokens'
    <2>1. \A y \in Tokens : UnderConstruction(y) => UnderConstruction(y)'
        BY <1>3, Zenon DEF UnderConstruction
    <2>2. QED
        BY <2>1, <1>3 DEF IInv, FreshTokens
<1>6. ParentLinks' /\ ListsIndexed' /\ CanceledHasNoList'
    BY Zenon DEF IInv, ParentLinks, ListsIndexed, CanceledHasNoList
<1>7. ChildrenListed'
    <2> SUFFICES ASSUME NEW c \in published, parent[c] # Nil, err[parent[c]] = Nil,
                        err[c] = Nil \/ \E r \in Procs : Unregistering(r, c)'
                 PROVE  /\ parentIdx[c] < Len(children[parent[c]])
                        /\ children[parent[c]][parentIdx[c] + 1] = c
        BY Zenon DEF ChildrenListed
    <2>1. err[c] = Nil \/ \E r \in Procs : Unregistering(r, c)
        BY <1>3, Zenon DEF Unregistering
    <2>2. QED
        BY <2>1, Zenon DEF IInv, ChildrenListed
<1>8. ListedNotGone'
    <2> SUFFICES ASSUME NEW y \in Tokens, NEW i \in 1..Len(children[y]), err[children[y][i]] # Nil
                 PROVE  \E r \in Procs : Unregistering(r, children[y][i])'
        BY Zenon DEF ListedNotGone
    <2>1. children[y][i] \in Tokens /\ parent[children[y][i]] = y
        <3>1. children[y][i] \in published /\ parent[children[y][i]] = y
            BY Zenon DEF IInv, ListsIndexed
        <3>2. QED
            BY <3>1, Zenon DEF IInv, TypeOK
    <2>2. children[y][i] # x
        BY <2>1, <1>1
    <2>3. QED
        BY <2>1, <2>2, <1>4, Zenon DEF IInv, ListedNotGone
<1>9. ProcState' /\ Construction' /\ Exclusive'
    BY <1>1, <1>3 DEF IInv, TypeOK, ProcState, Construction, Exclusive
<1>10. QueueOwned'
    BY Zenon DEF IInv, QueueOwned
<1>11. NoLostCancellation'
    <2>1. \A r \in Procs, y \in Tokens : Owns(r, y) => Owns(r, y)'
        BY <1>3, Zenon DEF Owns
    <2>2. QED
        BY <2>1, Zenon DEF IInv, TypeOK, NoLostCancellation
<1>12. QED
    BY <1>2, <1>5, <1>6, <1>7, <1>8, <1>9, <1>10, <1>11, Zenon DEF IInv

\* The loop skips a descendant that somebody else canceled; whoever that was
\* took the descendant's children over.
LEMMA DrainCanceledIInv ==
    ASSUME IInv, NEW p \in Procs, DrainCanceled(p)
    PROVE  IInv'
<1> DEFINE x == Head(queue[p])
<1> USE NilAssumption DEF DrainCanceled, tokenVars, Canceled
<1>1. Tail(queue[p]) \in Seq(Tokens) /\ Elems(queue[p]) = {x} \cup Elems(Tail(queue[p]))
    BY ElemsHeadTail, Zenon DEF IInv, TypeOK
<1>2. TypeOK'
    BY <1>1, Zenon DEF IInv, TypeOK
<1>3. /\ queue'[p] = Tail(queue[p])
      /\ \A r \in Procs \ {p} : queue'[r] = queue[r]
    BY Zenon DEF IInv, TypeOK
<1>4. FreshTokens' /\ ParentLinks' /\ ListsIndexed' /\ CanceledHasNoList'
    BY DEF IInv, FreshTokens, UnderConstruction, ParentLinks, ListsIndexed, CanceledHasNoList
<1>5. ChildrenListed' /\ ListedNotGone' /\ Exclusive'
    BY DEF IInv, ChildrenListed, ListedNotGone, Exclusive, Unregistering
<1>6. ProcState' /\ Construction'
    BY <1>3 DEF IInv, ProcState, Construction
<1>7. QueueOwned'
    BY <1>1, <1>3 DEF IInv, QueueOwned
<1>8. NoLostCancellation'
    <2> SUFFICES ASSUME NEW t \in published, err[t] = Nil, origin[t] # Nil, err[origin[t]] # Nil
                 PROVE  \E r \in Procs : pc[r] \in {"unregister", "drain"} /\ t \in Elems(queue'[r])
        BY Zenon DEF NoLostCancellation, Owns
    <2>1. PICK r \in Procs : Owns(r, t)
        BY Zenon DEF IInv, NoLostCancellation
    <2>2. t # x
        OBVIOUS
    <2>3. QED
        BY <2>1, <2>2, <1>1, <1>3, Zenon DEF Owns
<1>9. QED
    BY <1>2, <1>4, <1>5, <1>6, <1>7, <1>8, Zenon DEF IInv

\* Cancel returns with an empty queue, and publishes the orphan it may have
\* been constructing.
LEMMA CancelReturnsIInv ==
    ASSUME IInv, NEW p \in Procs, CancelReturns(p)
    PROVE  IInv'
<1> DEFINE x == tok[p]
<1> USE NilAssumption DEF CancelReturns, Finish, Canceled
<1>1. /\ x \in Tokens /\ err[x] # Nil /\ Elems(queue[p]) = {} /\ pc[p] = "drain"
      /\ published' = published \cup {x}
    BY DEF IInv, ProcState, Elems
<1>2. TypeOK'
    BY <1>1, Zenon DEF IInv, TypeOK
<1>3. /\ pc'[p] = "idle" /\ tok'[p] = Nil /\ cause'[p] = Nil
      /\ \A r \in Procs \ {p} : pc'[r] = pc[r] /\ tok'[r] = tok[r] /\ cause'[r] = cause[r]
    BY Zenon DEF IInv, TypeOK
<1>4. \A r \in Procs, c \in Tokens : Unregistering(r, c)' <=> Unregistering(r, c)
    BY <1>1, <1>3, Zenon DEF Unregistering
<1>5. x \notin published => parent[x] = Nil /\ origin[x] \in published
    BY <1>1, Zenon DEF IInv, FreshTokens, Construction
<1>6. FreshTokens'
    <2>1. \A y \in Tokens \ {x} : UnderConstruction(y) => UnderConstruction(y)'
        BY <1>3, Zenon DEF UnderConstruction
    <2>2. \A y \in Tokens \ {x} : (\E r \in Procs : pc[r] = "drain" /\ tok[r] = y)
                                  => \E r \in Procs : pc'[r] = "drain" /\ tok'[r] = y
        BY <1>3, Zenon
    <2>3. QED
        BY <2>1, <2>2, <1>1, Zenon DEF IInv, FreshTokens
<1>7. ParentLinks'
    BY <1>1, <1>5, Zenon DEF IInv, ParentLinks
<1>8. ListsIndexed' /\ CanceledHasNoList'
    BY <1>1 DEF IInv, ListsIndexed, CanceledHasNoList
<1>9. ChildrenListed'
    <2> SUFFICES ASSUME NEW c \in published', parent[c] # Nil, err[parent[c]] = Nil,
                        err[c] = Nil \/ \E r \in Procs : Unregistering(r, c)'
                 PROVE  /\ parentIdx[c] < Len(children[parent[c]])
                        /\ children[parent[c]][parentIdx[c] + 1] = c
        BY Zenon DEF ChildrenListed
    <2>1. c \in published /\ c \in Tokens
        BY <1>1, <1>5, Zenon DEF IInv, TypeOK
    <2>2. err[c] = Nil \/ \E r \in Procs : Unregistering(r, c)
        BY <2>1, <1>4, Zenon
    <2>3. QED
        BY <2>1, <2>2, Zenon DEF IInv, ChildrenListed
<1>10. ListedNotGone'
    BY <1>4, Zenon DEF IInv, TypeOK, ListsIndexed, ListedNotGone
<1>11. ProcState' /\ Construction'
    <2>1. ProcState'
        BY <1>1, <1>3 DEF IInv, TypeOK, ProcState
    <2>2. Construction'
        BY <1>1, <1>3 DEF IInv, TypeOK, ProcState, Construction
    <2>3. QED
        BY <2>1, <2>2, Zenon
<1>12. Exclusive'
    BY <1>1, <1>3 DEF IInv, TypeOK, ProcState, Exclusive
<1>13. QueueOwned'
    BY <1>1, <1>3 DEF IInv, QueueOwned
<1>14. NoLostCancellation'
    <2>1. \A r \in Procs, y \in Tokens : Owns(r, y) => Owns(r, y)'
        BY <1>1, <1>3, Zenon DEF Owns
    <2>2. QED
        BY <2>1, <1>1, Zenon DEF IInv, TypeOK, NoLostCancellation
<1>15. QED
    BY <1>2, <1>6, <1>7, <1>8, <1>9, <1>10, <1>11, <1>12, <1>13, <1>14, Zenon DEF IInv

\* unregisterChild below a live parent: the swap-remove takes exactly this
\* child off the list, and the child moved into its slot gets the slot's index.
LEMMA UnregisterFromAliveIInv ==
    ASSUME IInv, NEW p \in Procs, UnregisterFromAlive(p)
    PROVE  IInv'
<1> DEFINE t == tok[p]
           q == parent[t]
           n == Len(children[q])
           idx == parentIdx[t]
           moved == children[q][n]
           new == SwapRemove(children[q], idx)
<1> USE NilAssumption DEF Canceled
<1>1. /\ pc[p] = "unregister" /\ t \in published /\ t \in Tokens /\ q \in Tokens
      /\ err[t] # Nil /\ err[q] = Nil
    BY DEF IInv, TypeOK, ProcState, UnregisterFromAlive
<1>2. Unregistering(p, t)
    BY <1>1, Zenon DEF Unregistering
<1>3. n \in Nat /\ idx \in Nat /\ idx < n /\ children[q][idx + 1] = t
    <2>1. n \in Nat /\ idx \in Nat
        BY <1>1 DEF IInv, TypeOK
    <2>2. idx < n /\ children[q][idx + 1] = t
        BY <1>1, <1>2, Zenon DEF IInv, ChildrenListed
    <2>3. QED
        BY <2>1, <2>2, Zenon
<1>4. idx \in 0..n - 1 /\ n \in 1..n
    BY <1>3
<1>5. moved \in published /\ moved \in Tokens /\ parent[moved] = q /\ parentIdx[moved] = n - 1
    BY <1>1, <1>4 DEF IInv, TypeOK, ListsIndexed
<1>6. /\ new \in Seq(Tokens) /\ Len(new) = n - 1
      /\ \A j \in 1..n - 1 : new[j] = IF j = idx + 1 THEN moved ELSE children[q][j]
    <2>1. children[q] \in Seq(Tokens)
        BY <1>1, Zenon DEF IInv, TypeOK
    <2>2. idx \in 0..Len(children[q]) - 1
        BY <1>4, Zenon
    <2>3. QED
        <3> DEFINE s == children[q]
        <3> HIDE DEF s, idx
        <3>1. /\ SwapRemove(s, idx) \in Seq(Tokens) /\ Len(SwapRemove(s, idx)) = Len(s) - 1
              /\ \A j \in 1..Len(s) - 1 : SwapRemove(s, idx)[j] = IF j = idx + 1 THEN s[Len(s)] ELSE s[j]
            <4>1. s \in Seq(Tokens) /\ idx \in 0..Len(s) - 1
                BY <2>1, <2>2, Zenon DEF s
            <4>2. QED
                BY <4>1, SwapRemoveFacts, Zenon
        <3>2. QED
            BY <3>1, Zenon DEF s, idx
<1>7. /\ children' = [children EXCEPT ![q] = new]
      /\ parentIdx' = IF idx = n - 1 THEN parentIdx ELSE [parentIdx EXCEPT ![moved] = idx]
      /\ pc' = [pc EXCEPT ![p] = "drain"]
    BY Zenon DEF UnregisterFromAlive
<1>8. UNCHANGED <<parent, err, published, origin, tok, cause, queue>>
    BY Zenon DEF UnregisterFromAlive
<1>0. t = tok[p] /\ q = parent[t] /\ n = Len(children[q]) /\ idx = parentIdx[t] /\ moved = children[q][n]
    OBVIOUS
<1> HIDE DEF t, q, n, idx, moved, new
<1>9. TypeOK'
    BY <1>1, <1>3, <1>5, <1>6, <1>7, <1>8, Zenon DEF IInv, TypeOK
<1>10.
      /\ children'[q] = new
      /\ \A y \in Tokens \ {q} : children'[y] = children[y]
      /\ \A y \in Tokens \ {moved} : parentIdx'[y] = parentIdx[y]
      /\ idx # n - 1 => parentIdx'[moved] = idx
      /\ pc'[p] = "drain"
      /\ \A r \in Procs \ {p} : pc'[r] = pc[r]
    BY <1>1, <1>5, <1>7 DEF IInv, TypeOK
<1>11. \* every slot of the new list holds an old child other than t
       ASSUME NEW j \in 1..n - 1
       PROVE  /\ \E k \in 1..n : new[j] = children[q][k]
              /\ new[j] # t
              /\ parentIdx'[new[j]] = j - 1
    <2>1. CASE j = idx + 1
        <3>1. new[j] = moved /\ idx # n - 1
            BY <2>1, <1>3, <1>6
        <3>2. QED
            <4>1. \E k \in 1..n : new[j] = children[q][k]
                BY <3>1, <1>0, <1>4, Zenon
            <4>2. new[j] # t
                BY <3>1, <1>0, <1>3, <1>5, Zenon
            <4>3. parentIdx'[new[j]] = j - 1
                BY <3>1, <2>1, <1>3, <1>10
            <4>4. QED
                BY <4>1, <4>2, <4>3, Zenon
    <2>2. CASE j # idx + 1
        <3>1. new[j] = children[q][j] /\ j \in 1..n
            BY <2>2, <1>3, <1>6
        <3>2. parentIdx[children[q][j]] = j - 1 /\ children[q][j] \in Tokens
            <4>1. parentIdx[children[q][j]] = j - 1 /\ children[q][j] \in published
                BY <3>1, <1>0, <1>1 DEF IInv, ListsIndexed
            <4>2. QED
                BY <4>1, Zenon DEF IInv, TypeOK
        <3>3. children[q][j] # moved /\ children[q][j] # t
            <4>1. j # n => children[q][j] # moved
                BY <3>1, <3>2, <1>3, <1>5
            <4>2. children[q][j] # t
                BY <3>2, <2>2, <1>0, <1>3
            <4>3. j # n
                OBVIOUS
            <4>4. QED
                BY <4>1, <4>2, <4>3, Zenon
        <3>4. QED
            BY <3>1, <3>2, <3>3, <1>10, Zenon
    <2>3. QED
        BY <2>1, <2>2, Zenon
<1>12. FreshTokens'
    <2>1. \A y \in Tokens : UnderConstruction(y) => UnderConstruction(y)'
        BY <1>8, <1>10, Zenon DEF UnderConstruction
    <2>2. q \in published
        BY <1>0, <1>1, Zenon DEF IInv, ParentLinks
    <2>3. \A y \in Tokens : (\E r \in Procs : pc[r] = "drain" /\ tok[r] = y)
                            => \E r \in Procs : pc'[r] = "drain" /\ tok[r] = y
        BY <1>10, Zenon
    <2>4. \A y \in Tokens \ published : children'[y] = children[y]
        BY <2>2, <1>10, Zenon
    <2>5. QED
        BY <2>1, <2>3, <2>4, <1>8, Zenon DEF IInv, FreshTokens
<1>13. ParentLinks' /\ CanceledHasNoList'
    BY <1>1, <1>8, <1>10 DEF IInv, ParentLinks, CanceledHasNoList
<1>14. ListsIndexed'
    <2> SUFFICES ASSUME NEW y \in Tokens, NEW j \in 1..Len(children'[y])
                 PROVE  /\ children'[y][j] \in published
                        /\ parent[children'[y][j]] = y
                        /\ parentIdx'[children'[y][j]] = j - 1
        BY <1>8, Zenon DEF ListsIndexed
    <2>1. CASE y = q
        <3>1. j \in 1..n - 1 /\ children'[y][j] = new[j]
            BY <2>1, <1>6, <1>10, Zenon
        <3>2. PICK k \in 1..n : new[j] = children[q][k]
            BY <3>1, <1>11, Zenon
        <3>3. children[q][k] \in published /\ parent[children[q][k]] = q
            BY <1>0, <1>1 DEF IInv, ListsIndexed
        <3>4. QED
            BY <3>1, <3>2, <3>3, <2>1, <1>11, Zenon
    <2>2. CASE y # q
        <3>1. children'[y] = children[y]
            BY <2>2, <1>10, Zenon
        <3>2. /\ children[y][j] \in published /\ children[y][j] \in Tokens
              /\ parent[children[y][j]] = y /\ parentIdx[children[y][j]] = j - 1
            BY <3>1, Zenon DEF IInv, TypeOK, ListsIndexed
        <3>3. QED
            BY <3>1, <3>2, <2>2, <1>5, <1>10
    <2>3. QED
        BY <2>1, <2>2, Zenon
<1>15. ChildrenListed'
    <2> SUFFICES ASSUME NEW c \in published, parent[c] # Nil, err[parent[c]] = Nil,
                        err[c] = Nil \/ \E r \in Procs : pc'[r] = "unregister" /\ tok[r] = c
                 PROVE  /\ parentIdx'[c] < Len(children'[parent[c]])
                        /\ children'[parent[c]][parentIdx'[c] + 1] = c
        BY <1>8, Zenon DEF ChildrenListed, Unregistering
    <2>1. c # t
        BY <1>0, <1>1, <1>10 DEF IInv, Exclusive
    <2>2. c \in Tokens /\ parent[c] \in Tokens /\ parentIdx[c] \in Nat
        BY Zenon DEF IInv, TypeOK
    <2>3. err[c] = Nil \/ \E r \in Procs : Unregistering(r, c)
        BY <1>10, Zenon DEF Unregistering
    <2>4. parentIdx[c] < Len(children[parent[c]]) /\ children[parent[c]][parentIdx[c] + 1] = c
        BY <2>3, Zenon DEF IInv, ChildrenListed
    <2>5. CASE parent[c] # q
        <3>1. c # moved
            BY <2>5, <1>5, Zenon
        <3>2. QED
            BY <3>1, <2>2, <2>4, <2>5, <1>10, Zenon
    <2>6. CASE parent[c] = q /\ c = moved
        <3>1. idx # n - 1
            BY <2>1, <2>6, <1>0, <1>3
        <3>2. idx + 1 \in 1..n - 1 /\ parentIdx'[c] = idx
            BY <3>1, <2>6, <1>3, <1>10
        <3>3. QED
            <4>1. children'[parent[c]] = new /\ Len(new) = n - 1
                BY <2>6, <1>6, <1>10, Zenon
            <4>2. new[idx + 1] = moved
                BY <3>2, <1>6, Zenon
            <4>3. idx < n - 1
                BY <3>1, <1>3
            <4>4. QED
                BY <4>1, <4>2, <4>3, <3>2, <2>6, Zenon
    <2>7. CASE parent[c] = q /\ c # moved
        <3>1. parentIdx[c] # idx /\ parentIdx[c] + 1 # n
            BY <2>1, <2>4, <2>7, <1>0, <1>3, Zenon
        <3>2. parentIdx[c] + 1 \in 1..n - 1 /\ parentIdx'[c] = parentIdx[c]
            <4>1. PICK k \in Nat : k = parentIdx[c]
                BY <2>2, Zenon
            <4>2. k < n /\ k + 1 # n
                BY <4>1, <3>1, <2>4, <2>7, <1>0, Zenon
            <4>3. k + 1 \in 1..n - 1
                BY <4>2, <1>3
            <4>4. parentIdx'[c] = parentIdx[c]
                BY <2>2, <2>7, <1>10, Zenon
            <4>5. QED
                BY <4>1, <4>3, <4>4, Zenon
        <3>3. QED
            <4>1. children'[parent[c]] = new /\ Len(new) = n - 1
                BY <2>7, <1>6, <1>10, Zenon
            <4>2. new[parentIdx[c] + 1] = children[q][parentIdx[c] + 1]
                BY <3>1, <3>2, <2>2, <1>3, <1>6
            <4>3. parentIdx[c] < n - 1
                BY <3>2, <2>2, <1>3
            <4>4. QED
                BY <4>1, <4>2, <4>3, <3>2, <2>4, <2>7, Zenon
    <2>8. QED
        BY <2>5, <2>6, <2>7, Zenon
<1>16. ListedNotGone'
    <2> SUFFICES ASSUME NEW y \in Tokens, NEW j \in 1..Len(children'[y]), err[children'[y][j]] # Nil
                 PROVE  \E r \in Procs : pc'[r] = "unregister" /\ tok[r] = children'[y][j]
        BY <1>8, Zenon DEF ListedNotGone, Unregistering
    <2>1. children'[y][j] # t /\ \E k \in 1..Len(children[y]) : children'[y][j] = children[y][k]
        <3>1. CASE y = q
            <4>1. j \in 1..n - 1 /\ children'[y][j] = new[j]
                BY <3>1, <1>6, <1>10, Zenon
            <4>2. QED
                BY <4>1, <3>1, <1>0, <1>11
        <3>2. CASE y # q
            <4>1. children'[y] = children[y]
                BY <3>2, <1>10, Zenon
            <4>2. parent[children[y][j]] = y
                BY <4>1, Zenon DEF IInv, ListsIndexed
            <4>3. QED
                BY <4>1, <4>2, <3>2, <1>0, Zenon
        <3>3. QED
            BY <3>1, <3>2, Zenon
    <2>2. PICK r \in Procs : Unregistering(r, children'[y][j])
        BY <2>1, Zenon DEF IInv, ListedNotGone
    <2>3. QED
        BY <2>1, <2>2, <1>0, <1>10 DEF Unregistering
<1>17. ProcState' /\ Construction' /\ Exclusive'
    <2>1. pc'[p] = "drain" /\ \A r \in Procs \ {p} : pc'[r] = pc[r]
        BY <1>10, Zenon
    <2>2. ProcState'
        BY <2>1, <1>1, <1>8 DEF IInv, ProcState
    <2>3. Construction'
        BY <2>1, <1>0, <1>1, <1>8 DEF IInv, Construction
    <2>4. Exclusive'
        BY <2>1, <1>1, <1>8 DEF IInv, Exclusive
    <2>5. QED
        BY <2>2, <2>3, <2>4, Zenon
<1>18. QueueOwned'
    BY <1>8, Zenon DEF IInv, QueueOwned
<1>19. NoLostCancellation'
    <2>1. \A r \in Procs, y \in Tokens : Owns(r, y) => Owns(r, y)'
        BY <1>8, <1>10, Zenon DEF Owns
    <2>2. QED
        BY <2>1, <1>8, Zenon DEF IInv, TypeOK, NoLostCancellation
<1>20. QED
    BY <1>9, <1>12, <1>13, <1>14, <1>15, <1>16, <1>17, <1>18, <1>19, Zenon DEF IInv

\* The loop cancels a queued descendant and queues that one's children.
LEMMA DrainAliveIInv ==
    ASSUME IInv, NEW p \in Procs, DrainAlive(p)
    PROVE  IInv'
<1> DEFINE x == Head(queue[p])
<1> USE NilAssumption DEF Canceled
<1>1. /\ pc[p] = "drain" /\ x \in Tokens /\ err[x] = Nil /\ Tail(queue[p]) \in Seq(Tokens)
      /\ Elems(queue[p]) = {x} \cup Elems(Tail(queue[p]))
    BY ElemsHeadTail, Zenon DEF IInv, TypeOK, DrainAlive
<1>2. tok[p] \in published /\ cause[p] \in Errs
    BY <1>1, Zenon DEF IInv, ProcState, Construction, DrainAlive
<1>3. /\ x \in published /\ parent[x] \in Tokens /\ err[parent[x]] = cause[p]
      /\ children[parent[x]] = <<>>
    BY <1>1, <1>2 DEF IInv, TypeOK, QueueOwned, CanceledHasNoList
<1>4. /\ Tail(queue[p]) \o children[x] \in Seq(Tokens)
      /\ Elems(Tail(queue[p]) \o children[x]) = Elems(Tail(queue[p])) \cup Elems(children[x])
    <2>1. children[x] \in Seq(Tokens)
        BY <1>1, Zenon DEF IInv, TypeOK
    <2> DEFINE s == Tail(queue[p])
               u == children[x]
    <2>2. s \in Seq(Tokens) /\ u \in Seq(Tokens)
        BY <2>1, <1>1, Zenon
    <2> HIDE DEF s, u
    <2>3. s \o u \in Seq(Tokens) /\ Elems(s \o u) = Elems(s) \cup Elems(u)
        BY <2>2, ElemsConcat
    <2>4. QED
        BY <2>3, Zenon DEF s, u
<1> HIDE DEF x
<1>5. UNCHANGED <<parent, parentIdx, published, origin, pc, tok, cause>>
    BY Zenon DEF DrainAlive
<1>6. TypeOK'
    BY <1>1, <1>2, <1>4, <1>5 DEF IInv, TypeOK, DrainAlive, CancelSelfAndDetachChildren, x
<1>7. /\ err'[x] = cause[p] /\ children'[x] = <<>>
      /\ \A y \in Tokens \ {x} : err'[y] = err[y] /\ children'[y] = children[y]
    BY <1>1 DEF IInv, TypeOK, DrainAlive, CancelSelfAndDetachChildren, x
<1>8. /\ queue'[p] = Tail(queue[p]) \o children[x]
      /\ \A r \in Procs \ {p} : queue'[r] = queue[r]
    BY Zenon DEF IInv, TypeOK, DrainAlive, CancelSelfAndDetachChildren, x
<1>0. /\ Elems(queue[p]) = {x} \cup Elems(Tail(queue[p]))
      /\ Elems(queue'[p]) = Elems(Tail(queue[p])) \cup Elems(children[x])
    BY <1>1, <1>4, <1>8, Zenon
<1>9. FreshTokens'
    BY <1>3, <1>5, <1>7 DEF IInv, FreshTokens, UnderConstruction
<1>10. ParentLinks' /\ CanceledHasNoList'
    <2>1. published \subseteq Tokens
        BY Zenon DEF IInv, TypeOK
    <2>2. ParentLinks'
        BY <2>1, <1>1, <1>2, <1>5, <1>7 DEF IInv, ParentLinks
    <2>3. CanceledHasNoList'
        BY <1>7, Zenon DEF IInv, CanceledHasNoList
    <2>4. QED
        BY <2>2, <2>3, Zenon
<1>11. ListsIndexed'
    <2> SUFFICES ASSUME NEW y \in Tokens, NEW i \in 1..Len(children'[y])
                 PROVE  /\ children'[y][i] \in published
                        /\ parent[children'[y][i]] = y
                        /\ parentIdx[children'[y][i]] = i - 1
        BY <1>5, Zenon DEF ListsIndexed
    <2>1. children'[y] = children[y]
        BY <1>7
    <2>2. QED
        BY <2>1 DEF IInv, ListsIndexed
<1>12. ChildrenListed'
    <2> SUFFICES ASSUME NEW c \in published, parent[c] # Nil, err'[parent[c]] = Nil,
                        err'[c] = Nil \/ \E r \in Procs : Unregistering(r, c)
                 PROVE  /\ parentIdx[c] < Len(children'[parent[c]])
                        /\ children'[parent[c]][parentIdx[c] + 1] = c
        BY <1>5, Zenon DEF ChildrenListed, Unregistering
    <2>1. c \in Tokens /\ parent[c] \in Tokens /\ parent[c] # x /\ err[parent[c]] = Nil
        BY <1>2, <1>7 DEF IInv, TypeOK
    <2>2. err[c] = Nil \/ \E r \in Procs : Unregistering(r, c)
        BY <2>1, <1>1, <1>7, Zenon
    <2>3. QED
        BY <2>1, <2>2, <1>7, Zenon DEF IInv, ChildrenListed
<1>13. ListedNotGone'
    <2> SUFFICES ASSUME NEW y \in Tokens, NEW i \in 1..Len(children'[y]), err'[children'[y][i]] # Nil
                 PROVE  \E r \in Procs : Unregistering(r, children'[y][i])
        BY <1>5 DEF ListedNotGone, Unregistering
    <2>1. y # x /\ children'[y] = children[y]
        BY <1>7
    <2>2. children[y][i] \in Tokens /\ parent[children[y][i]] = y
        BY <2>1, Zenon DEF IInv, TypeOK, ListsIndexed
    <2>3. children[y][i] # x
        <3>1. children[y] # <<>>
            BY <2>1
        <3>2. QED
            BY <2>2, <3>1, <1>3, Zenon
    <2>4. QED
        BY <2>1, <2>2, <2>3, <1>7 DEF IInv, ListedNotGone
<1>14. ProcState'
    BY <1>1, <1>2, <1>5, <1>7, <1>8 DEF IInv, ProcState
<1>15. Construction'
    <2> SUFFICES ASSUME NEW r \in Procs, pc[r] # "idle", tok[r] \notin published
                 PROVE  /\ origin[tok[r]] \in published
                        /\ err'[origin[tok[r]]] = cause[r]
                        /\ pc[r] = "cancelSelf" => err'[tok[r]] = Nil
                        /\ pc[r] = "drain" => err'[tok[r]] = cause[r] /\ queue'[r] = <<>>
        BY <1>5, Zenon DEF Construction
    <2>1. r # p /\ tok[r] \in Tokens \ {x} /\ cause[r] \in Errs
        BY <1>2, <1>3, Zenon DEF IInv, ProcState
    <2>2. /\ origin[tok[r]] \in published /\ err[origin[tok[r]]] = cause[r]
          /\ origin[tok[r]] \in Tokens \ {x}
        BY <2>1, <1>1, Zenon DEF IInv, TypeOK, Construction
    <2>3. QED
        BY <2>1, <2>2, <1>7, <1>8 DEF IInv, Construction
<1>16. Exclusive'
    BY <1>5, Zenon DEF IInv, Exclusive
<1>17. QueueOwned'
    <2> SUFFICES ASSUME NEW r \in Procs, NEW d \in Elems(queue'[r])
                 PROVE  d \in published /\ parent[d] # Nil /\ err'[parent[d]] = cause[r]
        BY <1>5, Zenon DEF QueueOwned
    <2>1. CASE r = p /\ d \in Elems(children[x])
        <3>1. PICK i \in 1..Len(children[x]) : d = children[x][i]
            BY <2>1, Zenon DEF Elems
        <3>2. QED
            BY <3>1, <2>1, <1>1, <1>7, Zenon DEF IInv, ListsIndexed
    <2>2. CASE d \in Elems(queue[r])
        <3>1. cause[r] \in Errs
            BY <2>2 DEF IInv, ProcState, Elems
        <3>2. d \in published /\ parent[d] \in Tokens /\ err[parent[d]] = cause[r]
            BY <2>2 DEF IInv, TypeOK, QueueOwned
        <3>3. QED
            BY <3>1, <3>2, <1>1, <1>7, Zenon
    <2>3. QED
        BY <2>1, <2>2, <1>0, <1>8, Zenon
<1>18. NoLostCancellation'
    <2> SUFFICES ASSUME NEW t \in published, err'[t] = Nil, origin[t] # Nil, err'[origin[t]] # Nil
                 PROVE  \E r \in Procs : pc[r] \in {"unregister", "drain"} /\ t \in Elems(queue'[r])
        BY <1>5, Zenon DEF NoLostCancellation, Owns
    <2>1. t \in Tokens /\ t # x /\ err[t] = Nil /\ origin[t] \in Tokens /\ parent[t] = origin[t]
        BY <1>2, <1>7, Zenon DEF IInv, TypeOK, ParentLinks
    <2>2. CASE origin[t] = x
        <3>1. /\ children[x] \in Seq(Tokens) /\ parentIdx[t] \in Nat
              /\ parentIdx[t] < Len(children[x]) /\ children[x][parentIdx[t] + 1] = t
            <4>1. children[x] \in Seq(Tokens) /\ parentIdx[t] \in Nat
                BY <2>1, <1>1, Zenon DEF IInv, TypeOK
            <4>2. QED
                BY <4>1, <2>1, <2>2, <1>1, Zenon DEF IInv, ChildrenListed
        <3>2. t \in Elems(children[x])
            BY <3>1, SlotElem, Zenon
        <3>3. QED
            BY <3>2, <1>0, <1>1, Zenon
    <2>3. CASE origin[t] # x
        <3>1. PICK r \in Procs : Owns(r, t)
            BY <2>1, <2>3, <1>7, Zenon DEF IInv, NoLostCancellation
        <3>2. QED
            <4>1. t \in Elems(queue'[r])
                BY <3>1, <2>1, <1>0, <1>8, Zenon DEF Owns
            <4>2. QED
                BY <4>1, <3>1, Zenon DEF Owns
    <2>4. QED
        BY <2>2, <2>3, Zenon
<1>19. QED
    BY <1>6, <1>9, <1>10, <1>11, <1>12, <1>13, <1>14, <1>15, <1>16, <1>17, <1>18, Zenon DEF IInv

\* Every critical section preserves the inductive invariant.
LEMMA NextIInv == IInv /\ [Next]_vars => IInv'
<1> SUFFICES ASSUME IInv, [Next]_vars PROVE IInv'
    OBVIOUS
<1>1. ASSUME NEW p \in Procs, CancelStep(p) PROVE IInv'
    BY <1>1, CancelTooLateIInv, CancelReceiverIInv, UnregisterFromCanceledIInv, UnregisterFromAliveIInv,
       DrainAliveIInv, DrainCanceledIInv, CancelReturnsIInv, Zenon
    DEF CancelStep
<1>2. CASE UNCHANGED vars
    <2>1. UNCHANGED <<parent, parentIdx, children, err, published, origin, pc, tok, cause, queue>>
        BY <1>2, Zenon DEF vars, tokenVars, procVars
    <2>2. TypeOK' /\ FreshTokens' /\ ParentLinks' /\ ListsIndexed' /\ CanceledHasNoList'
        BY <2>1 DEF IInv, TypeOK, FreshTokens, UnderConstruction, ParentLinks, ListsIndexed,
           CanceledHasNoList, Canceled
    <2>3. ChildrenListed' /\ ListedNotGone' /\ ProcState'
        <3>1. ChildrenListed'
            BY <2>1, Zenon DEF IInv, ChildrenListed, Unregistering, Canceled
        <3>2. ListedNotGone'
            BY <2>1 DEF IInv, ListedNotGone, Unregistering, Canceled
        <3>3. ProcState'
            BY <2>1, Zenon DEF IInv, ProcState
        <3>4. QED
            BY <3>1, <3>2, <3>3, Zenon
    <2>4. Construction' /\ Exclusive' /\ QueueOwned' /\ NoLostCancellation'
        BY <2>1 DEF IInv, Construction, Exclusive, QueueOwned, NoLostCancellation, Owns, Canceled
    <2>5. QED
        BY <2>2, <2>3, <2>4, Zenon DEF IInv
<1>3. QED
    BY <1>1, <1>2, NewRootIInv, RegisterChildIInv, RegisterRefusedIInv, CallCancelIInv, Zenon DEF Next

\* The inductive invariant of the cancellation tree holds in every state that
\* NewChild and Cancel, called by any number of goroutines, can reach.
THEOREM Invariance == SafeSpec => []IInv
<1>1. QED
    BY InitIInv, NextIInv, PTL DEF SafeSpec

\* Fields and local variables keep their types: parentIdx never goes negative,
\* lists and queues hold tokens only.
THEOREM TypeCorrect == SafeSpec => []TypeOK
<1>1. IInv => TypeOK
    BY Zenon DEF IInv
<1>2. QED
    BY <1>1, Invariance, PTL

\* No cancellation is lost: a child that is alive under a canceled parent is
\* in the queue of a Cancel that is still running.
THEOREM CancellationNotLost == SafeSpec => []NoLostCancellation
<1>1. IInv => NoLostCancellation
    BY Zenon DEF IInv
<1>2. QED
    BY <1>1, Invariance, PTL

\* The assertions in unregisterChild never fail.
THEOREM UnregisterSound == SafeSpec => []UnregisterAssertions
<1>1. IInv => UnregisterAssertions
    <2> SUFFICES ASSUME IInv, NEW p \in Procs, pc[p] = "unregister"
                 PROVE  IF Canceled(parent[tok[p]])
                        THEN children[parent[tok[p]]] = <<>>
                        ELSE /\ parentIdx[tok[p]] \in 0..Len(children[parent[tok[p]]]) - 1
                             /\ children[parent[tok[p]]][parentIdx[tok[p]] + 1] = tok[p]
                             /\ parent[children[parent[tok[p]]][Len(children[parent[tok[p]]])]] = parent[tok[p]]
        BY Zenon DEF UnregisterAssertions
    <2> DEFINE t == tok[p]
               q == parent[t]
               n == Len(children[q])
    <2>1. t \in published /\ t \in Tokens /\ q \in Tokens /\ q # Nil
        BY NilAssumption DEF IInv, TypeOK, ProcState
    <2>2. n \in Nat /\ parentIdx[t] \in Nat
        BY <2>1 DEF IInv, TypeOK
    <2>3. CASE Canceled(q)
        BY <2>1, <2>3, Zenon DEF IInv, CanceledHasNoList
    <2>4. CASE ~Canceled(q)
        <3>1. parentIdx[t] < n /\ children[q][parentIdx[t] + 1] = t
            BY <2>1, <2>4, Zenon DEF IInv, ChildrenListed, Unregistering
        <3>2. n \in 1..n
            BY <3>1, <2>2
        <3>3. parent[children[q][n]] = q
            BY <3>2, <2>1, Zenon DEF IInv, ListsIndexed
        <3>4. QED
            BY <3>1, <3>3, <2>2, <2>4
    <2>5. QED
        BY <2>3, <2>4, Zenon
<1>2. QED
    BY <1>1, Invariance, PTL

\* The child list of an alive token is exact: no child is dropped and no
\* canceled token stays listed once its Cancel has unregistered it.
THEOREM ListsExact == SafeSpec => []ChildrenExact
<1>1. IInv => ChildrenExact
    <2> SUFFICES ASSUME IInv, NEW q \in published, ~Canceled(q)
                 PROVE  Elems(children[q]) =
                            {c \in published : /\ parent[c] = q
                                               /\ ~Canceled(c) \/ \E p \in Procs : Unregistering(p, c)}
        BY Zenon DEF ChildrenExact
    <2>1. q \in Tokens /\ q # Nil /\ Len(children[q]) \in Nat
        BY NilAssumption DEF IInv, TypeOK
    <2>2. ASSUME NEW i \in 1..Len(children[q])
          PROVE  /\ children[q][i] \in published
                 /\ parent[children[q][i]] = q
                 /\ ~Canceled(children[q][i]) \/ \E p \in Procs : Unregistering(p, children[q][i])
        BY <2>1, Zenon DEF IInv, ListsIndexed, ListedNotGone
    <2>3. ASSUME NEW c \in published, parent[c] = q,
                 ~Canceled(c) \/ \E p \in Procs : Unregistering(p, c)
          PROVE  c \in Elems(children[q])
        <3>1. parentIdx[c] < Len(children[q]) /\ children[q][parentIdx[c] + 1] = c
            BY <2>1, <2>3, Zenon DEF IInv, ChildrenListed
        <3>2. parentIdx[c] \in Nat
            BY Zenon DEF IInv, TypeOK
        <3>3. parentIdx[c] + 1 \in 1..Len(children[q])
            BY <3>1, <3>2, <2>1
        <3>4. QED
            BY <3>1, <3>3, Zenon DEF Elems
    <2>4. QED
        BY <2>2, <2>3 DEF Elems
<1>2. QED
    BY <1>1, Invariance, PTL


(***************************************************************************)
(* RawToken implements TokenTree: Init maps to Init, and each critical     *)
(* section maps to one abstract step or to none.  The inductive invariant  *)
(* supplies what the steps need: a queued descendant is below a token      *)
(* canceled with the same cause, and an orphan under construction has its  *)
(* parent's cause.                                                         *)
(***************************************************************************)
\* Nothing is held and nobody is in Cancel: both trees are empty.
LEMMA InitTree == Init => Tree!Init
BY Zenon DEF Init, Tree!Init, Tree!NoCall, Held, PendingCall

\* newChildToken(nil) is the creation of an abstract root.
LEMMA NewRootTree ==
    ASSUME IInv, NEW p \in Procs, NEW t \in Tokens, NewRoot(p, t)
    PROVE  Tree!NewRoot(t)
<1>1. t \notin published /\ err[t] = Nil /\ origin[t] = Nil /\ published' = published \cup {t}
    BY Zenon DEF IInv, FreshTokens, NewRoot, Allocated, UnderConstruction, Canceled
<1>2. \A r \in Procs : pc[r] # "idle" => tok[r] # t
    BY Zenon DEF NewRoot, Allocated, UnderConstruction
<1>3. UNCHANGED <<err, origin, pc, tok, cause>>
    BY Zenon DEF NewRoot, procVars
<1>4. Held(origin)' = Held(origin) /\ Held(err)' = Held(err)
    BY <1>1, <1>3, Zenon DEF Held
<1>5. \A r \in Procs : PendingCall(r)' = PendingCall(r)
    BY <1>1, <1>2, <1>3, Zenon DEF PendingCall
<1>6. QED
    BY <1>1, <1>4, <1>5, Zenon DEF Tree!NewRoot

\* registerChild on a parent that is alive creates an abstract child that is
\* alive.
LEMMA RegisterChildTree ==
    ASSUME IInv, NEW p \in Procs, NEW t \in Tokens, NEW q \in Tokens, RegisterChild(p, t, q)
    PROVE  Tree!NewChild(t, q)
<1>1. /\ t \notin published /\ err[t] = Nil /\ published' = published \cup {t}
      /\ q \in published /\ err[q] = Nil
    BY Zenon DEF IInv, FreshTokens, RegisterChild, Allocated, UnderConstruction, Canceled
<1>2. \A r \in Procs : pc[r] # "idle" => tok[r] # t
    BY Zenon DEF RegisterChild, Allocated, UnderConstruction
<1>3. UNCHANGED <<err, pc, tok, cause>> /\ origin' = [origin EXCEPT ![t] = q]
    BY Zenon DEF RegisterChild, procVars
<1>4. Held(origin)' = [Held(origin) EXCEPT ![t] = q]
    BY <1>1, <1>3, Zenon DEF Held, IInv, TypeOK
<1>5. Held(err)' = [Held(err) EXCEPT ![t] = Held(err)[q]]
    BY <1>1, <1>3, Zenon DEF Held
<1>6. \A r \in Procs : PendingCall(r)' = PendingCall(r)
    BY <1>1, <1>2, <1>3, Zenon DEF PendingCall
<1>7. QED
    BY <1>1, <1>4, <1>5, <1>6, Zenon DEF Tree!NewChild

\* A child whose registration is refused is not held by anyone yet: the
\* abstract tree does not move.
LEMMA RegisterRefusedTree ==
    ASSUME IInv, NEW p \in Procs, NEW t \in Tokens, NEW q \in Tokens, RegisterRefused(p, t, q)
    PROVE  UNCHANGED Tree!vars
<1>1. t \notin published /\ UNCHANGED <<published, err>>
    BY Zenon DEF RegisterRefused, Allocated
<1>2. /\ pc[p] = "idle" /\ tok'[p] = t
      /\ \A r \in Procs \ {p} : pc'[r] = pc[r] /\ tok'[r] = tok[r] /\ cause'[r] = cause[r]
      /\ \A u \in Tokens \ {t} : origin'[u] = origin[u]
    BY Zenon DEF RegisterRefused, IInv, TypeOK
<1>3. Held(origin)' = Held(origin) /\ Held(err)' = Held(err)
    BY <1>1, <1>2, Zenon DEF Held
<1>4. \A r \in Procs : PendingCall(r)' = PendingCall(r)
    BY <1>1, <1>2, Zenon DEF PendingCall
<1>5. QED
    BY <1>1, <1>3, <1>4, Zenon DEF Tree!vars

\* A call of Cancel is the abstract call.
LEMMA CallCancelTree ==
    ASSUME IInv, NEW p \in Procs, NEW t \in Tokens, NEW e \in Errs, CallCancel(p, t, e)
    PROVE  Tree!CallCancel(p, t, e)
<1>1. t \in published /\ pc[p] = "idle" /\ UNCHANGED <<published, err, origin>>
    BY Zenon DEF CallCancel, tokenVars
<1>2. /\ pc'[p] = "cancelSelf" /\ tok'[p] = t /\ cause'[p] = e
      /\ \A r \in Procs \ {p} : pc'[r] = pc[r] /\ tok'[r] = tok[r] /\ cause'[r] = cause[r]
    BY Zenon DEF CallCancel, IInv, TypeOK
<1>3. Held(origin)' = Held(origin) /\ Held(err)' = Held(err)
    BY <1>1, Zenon DEF Held
<1>4. PendingCall(p) = Tree!NoCall /\ PendingCall(p)' = [tok |-> t, err |-> e]
    BY <1>1, <1>2, Zenon DEF PendingCall, Tree!NoCall
<1>5. \A r \in Procs \ {p} : PendingCall(r)' = PendingCall(r)
    BY <1>1, <1>2, Zenon DEF PendingCall
<1>6. [r \in Procs |-> PendingCall(r)'] = [[r \in Procs |-> PendingCall(r)] EXCEPT ![p] = [tok |-> t, err |-> e]]
    BY <1>4, <1>5, Zenon
<1>7. QED
    BY <1>1, <1>3, <1>4, <1>6, Zenon DEF Tree!CallCancel

\* Cancel on a canceled token is the abstract call that is ignored; a token
\* under construction cannot be canceled yet.
LEMMA CancelTooLateTree ==
    ASSUME IInv, NEW p \in Procs, CancelTooLate(p)
    PROVE  Tree!Ignore(p)
<1>1. pc[p] = "cancelSelf" /\ tok[p] \in Tokens /\ err[tok[p]] # Nil /\ cause[p] \in Errs
    BY Zenon DEF CancelTooLate, Canceled, IInv, ProcState
<1>2. tok[p] \in published
    BY <1>1, Zenon DEF IInv, Construction
<1>3. published' = published /\ UNCHANGED <<err, origin>>
    BY <1>2, Zenon DEF CancelTooLate, Finish
<1>4. /\ pc'[p] = "idle"
      /\ \A r \in Procs \ {p} : pc'[r] = pc[r] /\ tok'[r] = tok[r] /\ cause'[r] = cause[r]
    BY Zenon DEF CancelTooLate, Finish, IInv, TypeOK
<1>5. Held(origin)' = Held(origin) /\ Held(err)' = Held(err)
    BY <1>3, Zenon DEF Held
<1>6. PendingCall(p)' = Tree!NoCall /\ PendingCall(p) = [tok |-> tok[p], err |-> cause[p]]
    BY <1>1, <1>2, <1>4, Zenon DEF PendingCall, Tree!NoCall
<1>7. PendingCall(p) # Tree!NoCall /\ PendingCall(p).tok = tok[p] /\ PendingCall(p).err = cause[p]
    <2>1. PendingCall(p).tok = tok[p] /\ PendingCall(p).err = cause[p]
        BY <1>6
    <2>2. Tree!NoCall.tok = Nil
        BY Zenon DEF Tree!NoCall
    <2>3. tok[p] # Nil
        BY <1>1, NilAssumption, Zenon
    <2>4. QED
        BY <2>1, <2>2, <2>3, Zenon
<1>8. \A r \in Procs \ {p} : PendingCall(r)' = PendingCall(r)
    BY <1>3, <1>4, Zenon DEF PendingCall
<1>9. [r \in Procs |-> PendingCall(r)'] = [[r \in Procs |-> PendingCall(r)] EXCEPT ![p] = Tree!NoCall]
    BY <1>6, <1>8, Zenon
<1>10. Held(err)[tok[p]] # Nil
    BY <1>1, <1>2, Zenon DEF Held
<1>11. QED
    BY <1>3, <1>5, <1>7, <1>9, <1>10, Zenon DEF Tree!Ignore

\* Cancel on a held token takes effect; on an orphan that nobody holds yet the
\* abstract tree does not move.
LEMMA CancelReceiverTree ==
    ASSUME IInv, NEW p \in Procs, CancelReceiver(p)
    PROVE  Tree!TakeEffect(p) \/ UNCHANGED Tree!vars
<1>1. pc[p] = "cancelSelf" /\ tok[p] \in Tokens /\ err[tok[p]] = Nil /\ cause[p] \in Errs
    BY Zenon DEF CancelReceiver, Canceled, IInv, ProcState
<1>2. UNCHANGED <<published, origin, tok, cause>> /\ err' = [err EXCEPT ![tok[p]] = cause[p]]
    BY Zenon DEF CancelReceiver, CancelSelfAndDetachChildren
<1>3. /\ pc'[p] \in {"drain", "unregister"}
      /\ \A r \in Procs \ {p} : pc'[r] = pc[r]
    BY Zenon DEF CancelReceiver, IInv, TypeOK
<1>4. Held(origin)' = Held(origin)
    BY <1>2, Zenon DEF Held
<1>5. PendingCall(p)' = Tree!NoCall
    BY <1>3, Zenon DEF PendingCall, Tree!NoCall
<1>6. \A r \in Procs \ {p} : PendingCall(r)' = PendingCall(r)
    BY <1>2, <1>3, Zenon DEF PendingCall
<1>7. CASE tok[p] \in published
    <2>1. PendingCall(p) = [tok |-> tok[p], err |-> cause[p]]
        BY <1>1, <1>7, Zenon DEF PendingCall
    <2>2. PendingCall(p) # Tree!NoCall /\ PendingCall(p).tok = tok[p] /\ PendingCall(p).err = cause[p]
        BY <1>1, <2>1, NilAssumption DEF Tree!NoCall
    <2>3. Held(err)[tok[p]] = Nil
        BY <1>1, <1>7, Zenon DEF Held
    <2>4. Held(err)' = [Held(err) EXCEPT ![tok[p]] = cause[p]]
        BY <1>1, <1>2, <1>7, Zenon DEF Held, IInv, TypeOK
    <2>5. [r \in Procs |-> PendingCall(r)'] = [[r \in Procs |-> PendingCall(r)] EXCEPT ![p] = Tree!NoCall]
        BY <1>5, <1>6, Zenon
    <2>6. QED
        BY <1>2, <1>4, <2>2, <2>3, <2>4, <2>5, Zenon DEF Tree!TakeEffect
<1>8. CASE tok[p] \notin published
    <2>1. Held(err)' = Held(err)
        BY <1>2, <1>8, Zenon DEF Held, IInv, TypeOK
    <2>2. PendingCall(p) = Tree!NoCall
        BY <1>8, Zenon DEF PendingCall, Tree!NoCall
    <2>3. QED
        BY <1>2, <1>4, <1>5, <1>6, <2>1, <2>2, Zenon DEF Tree!vars
<1>9. QED
    BY <1>7, <1>8, Zenon

\* unregisterChild and the pop of a descendant that is already canceled are
\* invisible.
LEMMA InvisibleTree ==
    ASSUME IInv, NEW p \in Procs,
           UnregisterFromCanceled(p) \/ UnregisterFromAlive(p) \/ DrainCanceled(p)
    PROVE  UNCHANGED Tree!vars
<1>1. UNCHANGED <<published, err, origin, tok, cause>>
    BY Zenon DEF UnregisterFromCanceled, UnregisterFromAlive, DrainCanceled, tokenVars
<1>2. \A r \in Procs : pc'[r] = pc[r] \/ (pc[r] = "unregister" /\ pc'[r] = "drain")
    BY Zenon DEF UnregisterFromCanceled, UnregisterFromAlive, DrainCanceled, IInv, TypeOK
<1>3. Held(origin)' = Held(origin) /\ Held(err)' = Held(err)
    BY <1>1, Zenon DEF Held
<1>4. \A r \in Procs : PendingCall(r)' = PendingCall(r)
    BY <1>1, <1>2, Zenon DEF PendingCall
<1>5. QED
    BY <1>1, <1>3, <1>4, Zenon DEF Tree!vars

\* The propagation loop cancels a descendant with the cause of its parent.
LEMMA DrainAliveTree ==
    ASSUME IInv, NEW p \in Procs, DrainAlive(p)
    PROVE  Tree!Propagate(Head(queue[p]))
<1> DEFINE x == Head(queue[p])
<1>1. x \in Tokens /\ x \in Elems(queue[p]) /\ err[x] = Nil /\ cause[p] \in Errs
    <2>1. queue[p] \in Seq(Tokens) /\ queue[p] # <<>>
        BY Zenon DEF DrainAlive, IInv, TypeOK
    <2>2. x \in Tokens /\ x \in Elems(queue[p])
        BY <2>1, ElemsHeadTail
    <2>3. QED
        BY <2>2, Zenon DEF DrainAlive, IInv, ProcState, Canceled
<1>2. x \in published /\ parent[x] # Nil /\ err[parent[x]] = cause[p]
    BY <1>1, Zenon DEF IInv, QueueOwned
<1>3. origin[x] = parent[x] /\ origin[x] \in published
    BY <1>1, <1>2, Zenon DEF IInv, ParentLinks, Canceled
<1>4. UNCHANGED <<published, origin, pc, tok, cause>> /\ err' = [err EXCEPT ![x] = cause[p]]
    BY Zenon DEF DrainAlive, CancelSelfAndDetachChildren
<1> HIDE DEF x
<1>5. Held(origin)' = Held(origin)
    BY <1>4, Zenon DEF Held
<1>6. Held(err)' = [Held(err) EXCEPT ![x] = cause[p]]
    BY <1>2, <1>4, Zenon DEF Held, IInv, TypeOK
<1>7. \A r \in Procs : PendingCall(r)' = PendingCall(r)
    BY <1>4, Zenon DEF PendingCall
<1>8. origin[x] \in Tokens /\ origin[x] # Nil /\ cause[p] # Nil
    BY <1>1, <1>2, <1>3, NilAssumption, Zenon DEF IInv, TypeOK
<1>9. Held(err)[x] = Nil /\ Held(origin)[x] = origin[x] /\ Held(err)[origin[x]] = cause[p]
    BY <1>1, <1>2, <1>3, <1>8, Zenon DEF Held
<1>10. Tree!Propagate(x)
    BY <1>2, <1>4, <1>5, <1>6, <1>7, <1>8, <1>9, Zenon DEF Tree!Propagate
<1>11. QED
    BY <1>10, Zenon DEF x

\* The end of Cancel is invisible, unless it hands an orphan to the caller of
\* NewChild: that is the abstract creation of a child with its parent's cause.
LEMMA CancelReturnsTree ==
    ASSUME IInv, NEW p \in Procs, CancelReturns(p)
    PROVE  (\E t, q \in Tokens : Tree!NewChild(t, q)) \/ UNCHANGED Tree!vars
<1> DEFINE t == tok[p]
           q == origin[tok[p]]
<1>1. pc[p] = "drain" /\ t \in Tokens /\ cause[p] \in Errs
    BY Zenon DEF CancelReturns, IInv, ProcState
<1>2. published' = published \cup {t} /\ UNCHANGED <<err, origin>>
    BY Zenon DEF CancelReturns, Finish
<1>3. /\ pc'[p] = "idle"
      /\ \A r \in Procs \ {p} : pc'[r] = pc[r] /\ tok'[r] = tok[r] /\ cause'[r] = cause[r]
    BY Zenon DEF CancelReturns, Finish, IInv, TypeOK
<1>4. CASE t \in published
    <2>1. published' = published
        BY <1>2, <1>4, Zenon
    <2>2. Held(origin)' = Held(origin) /\ Held(err)' = Held(err)
        BY <1>2, <2>1, Zenon DEF Held
    <2>3. \A r \in Procs : PendingCall(r)' = PendingCall(r)
        BY <1>1, <1>3, <2>1, Zenon DEF PendingCall
    <2>4. QED
        BY <2>1, <2>2, <2>3, Zenon DEF Tree!vars
<1>5. CASE t \notin published
    <2>1. q \in published /\ err[q] = cause[p] /\ err[t] = cause[p]
        BY <1>1, <1>5, Zenon DEF IInv, Construction
    <2>2. q \in Tokens
        BY <2>1, Zenon DEF IInv, TypeOK
    <2>3. \A r \in Procs \ {p} : pc[r] # "idle" => tok[r] # t
        BY <1>1, <1>5, Zenon DEF IInv, Exclusive
    <2>4. Held(origin)' = [Held(origin) EXCEPT ![t] = q]
        BY <1>2, <1>5, Zenon DEF Held
    <2>5. Held(err)' = [Held(err) EXCEPT ![t] = Held(err)[q]]
        BY <1>2, <1>5, <2>1, <2>2, Zenon DEF Held
    <2>6. \A r \in Procs : PendingCall(r)' = PendingCall(r)
        BY <1>1, <1>2, <1>3, <2>3, Zenon DEF PendingCall
    <2>7. Tree!NewChild(t, q)
        BY <1>2, <1>5, <2>1, <2>4, <2>5, <2>6, Zenon DEF Tree!NewChild
    <2>8. QED
        BY <1>1, <2>2, <2>7, Zenon
<1>6. QED
    BY <1>4, <1>5, Zenon

\* Every critical section is one step of the abstract tree or none.
LEMMA StepTree == IInv /\ [Next]_vars => [Tree!Next]_(Tree!vars)
<1> SUFFICES ASSUME IInv, [Next]_vars PROVE [Tree!Next]_(Tree!vars)
    OBVIOUS
<1>1. ASSUME NEW p \in Procs, CancelStep(p) PROVE [Tree!Next]_(Tree!vars)
    <2>1. ASSUME DrainAlive(p) PROVE Head(queue[p]) \in Tokens
        BY <2>1, ElemsHeadTail, Zenon DEF DrainAlive, IInv, TypeOK
    <2>2. QED
        BY <1>1, <2>1, CancelTooLateTree, CancelReceiverTree, InvisibleTree, DrainAliveTree,
           CancelReturnsTree, Zenon
        DEF CancelStep, Tree!Next
<1>2. CASE UNCHANGED vars
    BY <1>2, Zenon DEF vars, tokenVars, procVars, Tree!vars, Held, PendingCall
<1>3. ASSUME NEW p \in Procs, NEW t \in Tokens, NewRoot(p, t) PROVE Tree!Next
    BY <1>3, NewRootTree, Zenon DEF Tree!Next
<1>4. ASSUME NEW p \in Procs, NEW t \in Tokens, NEW q \in Tokens, RegisterChild(p, t, q) PROVE Tree!Next
    BY <1>4, RegisterChildTree, Zenon DEF Tree!Next
<1>5. ASSUME NEW p \in Procs, NEW t \in Tokens, NEW e \in Errs, CallCancel(p, t, e) PROVE Tree!Next
    BY <1>5, CallCancelTree, Zenon DEF Tree!Next
<1>6. QED
    BY <1>1, <1>2, <1>3, <1>4, <1>5, RegisterRefusedTree, Zenon DEF Next

\* The implementation of token.go is a token tree, for any number of tokens,
\* goroutines and errors: whatever the interleaving, a token is canceled only
\* by a Cancel on itself or with its parent's cause, the first cause stays,
\* and NewChild never returns a live child of a canceled parent.
THEOREM Refinement == SafeSpec => ImplementsTree
<1>1. QED
    BY InitTree, StepTree, Invariance, PTL DEF SafeSpec, ImplementsTree, Tree!SafeSpec
=============================================================================
