----------------------------- MODULE EvidenceLog -----------------------------
(***************************************************************************)
(* What the evidence chain promises, without tables, hashes or processes:  *)
(* an append-only log of which only a suffix is retained.  A step may      *)
(* append one payload at the end, forget a prefix, or both at once; what   *)
(* is retained is never changed, reordered or lost from the middle.        *)
(***************************************************************************)
EXTENDS Naturals

CONSTANT Payload

VARIABLES head,      \* number of payloads ever appended
          base,      \* the last payload that was forgotten
          retained   \* base+1..head -> Payload

vars == <<head, base, retained>>

Init == /\ head = 0
        /\ base = 0
        /\ retained = [i \in {} |-> 0]

(* What remains of table t when everything through b is forgotten. *)
ForgetThrough(t, b, h) == [i \in (b + 1)..h |-> t[i]]

Append(p) == /\ head' = head + 1
             /\ base' \in base..head'
             /\ retained' = ForgetThrough([i \in (base + 1)..head' |->
                                IF i = head' THEN p ELSE retained[i]], base', head')

Forget == /\ base' \in base..head
          /\ retained' = ForgetThrough(retained, base', head)
          /\ UNCHANGED head

Next == (\E p \in Payload : Append(p)) \/ Forget

Spec == Init /\ [][Next]_vars
==============================================================================
