-------------------------------- MODULE Mirror --------------------------------
(***************************************************************************)
(* What schroedinger-sync promises its user, without a word about how: a   *)
(* directory that copies an account and at times claims to be up to date.  *)
(* SyncEngine implements it.                                               *)
(***************************************************************************)
EXTENDS Naturals

CONSTANT Items     \* what is copied

VARIABLES
    account,   \* version of every item in the account; 0: no such item
    copy,      \* version of its complete copy; 0: there is none
    excused,   \* items the mirror owes nothing for
    settled    \* the claim that nothing else is missing or old

mirrorVars == <<account, copy, excused, settled>>

\* The claim holds of these items, copies and excuses.
Complete(acc, cop, exc) == \A i \in Items \ exc : acc[i] # 0 => cop[i] = acc[i]

Init ==
    /\ account \in [Items -> Nat]
    /\ copy = [i \in Items |-> 0]
    /\ excused \subseteq Items
    /\ settled = FALSE

\* The user works on an item; nobody claims anything meanwhile.
Edit(i) ==
    /\ ~settled
    /\ account'[i] \in Nat /\ account'[i] > account[i]
    /\ account' = [account EXCEPT ![i] = account'[i]]
    /\ UNCHANGED <<copy, excused, settled>>

\* A copy is replaced, by one of a version the account has had, or lost; never
\* one the claim speaks of.
Replace(i) ==
    /\ settled => i \in excused
    /\ copy'[i] \in 0 .. account[i]
    /\ copy' = [copy EXCEPT ![i] = copy'[i]]
    /\ UNCHANGED <<account, excused, settled>>

\* The claim is made or withdrawn, and excuses change with it, but it is never
\* made of a copy that is not complete.
Settle ==
    /\ excused' \subseteq Items
    /\ settled' \in BOOLEAN
    /\ settled' => Complete(account, copy, excused')
    /\ UNCHANGED <<account, copy>>

Next == Settle \/ \E i \in Items : Edit(i) \/ Replace(i)

Spec == Init /\ [][Next]_mirrorVars

=============================================================================
