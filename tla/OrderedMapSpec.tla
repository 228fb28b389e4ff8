--------------------------- MODULE OrderedMapSpec ---------------------------
(***************************************************************************)
(* What base/collections promises of an OrderedMap: a map whose keys keep  *)
(* the order in which they were inserted.  entries is the sequence of the  *)
(* live <<key, value>> pairs and ret what the last operation returned.     *)
(***************************************************************************)
EXTENDS Naturals, Sequences

CONSTANTS Keys, Values, None, KeptOld, InsertedNew

VARIABLES entries, ret

Init == entries = <<>> /\ ret = None

Has(k) == \E i \in DOMAIN entries : entries[i][1] = k
Index(k) == CHOOSE i \in DOMAIN entries : entries[i][1] = k

InsertNew(k, v) ==
    ~Has(k) /\ entries' = Append(entries, <<k, v>>) /\ ret' \in {None, InsertedNew}

Keep(k) == Has(k) /\ ret' = KeptOld /\ UNCHANGED entries

Lookup(k) ==
    /\ ret' = IF Has(k) THEN entries[Index(k)][2] ELSE None
    /\ UNCHANGED entries

Replace(k, v) ==
    /\ Has(k)
    /\ entries' = [entries EXCEPT ![Index(k)] = <<k, v>>]
    /\ ret' = entries[Index(k)][2]

Delete(k) ==
    /\ Has(k)
    /\ entries' = SubSeq(entries, 1, Index(k) - 1) \o SubSeq(entries, Index(k) + 1, Len(entries))
    /\ ret' = entries[Index(k)][2]

DeleteAbsent(k) == ~Has(k) /\ ret' = None /\ UNCHANGED entries

Next == \E k \in Keys : \/ Lookup(k) \/ Keep(k) \/ Delete(k) \/ DeleteAbsent(k)
                        \/ \E v \in Values : InsertNew(k, v) \/ Replace(k, v)

Spec == Init /\ [][Next]_<<entries, ret>>
=============================================================================
