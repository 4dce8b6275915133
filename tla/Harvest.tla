------------------------------- MODULE Harvest -------------------------------
(***************************************************************************)
(* What a session promises its caller, without a word about requests: of   *)
(* every item it was asked for it settles, once, whether there is an       *)
(* export, and how it ends says what that amounts to.  Session implements  *)
(* it; SyncEngine and the one-shot harvest rely on it.                     *)
(***************************************************************************)

CONSTANTS Convs, Projects     \* what an account has

VARIABLES
    asked,     \* the items to export
    fate,      \* of every item: "open", "failed", or what its export holds
    outcome    \* "running", "ok", "errors", "aborted"

harvestVars == <<asked, fate, outcome>>

Items == Convs \cup Projects

\* A conversation that does not parse is kept as it came.
Content(i) == {"genuine"} \cup (IF i \in Convs THEN {"mangled"} ELSE {})

Init ==
    /\ asked \subseteq Items
    /\ fate = [i \in Items |-> "open"]
    /\ outcome = "running"

\* Nobody comes back to an item.
Settle(i) ==
    /\ fate[i] = "open"
    /\ \E f \in Content(i) \cup {"failed"} : fate' = [fate EXCEPT ![i] = f]

\* Of the items in S nothing was forgotten.
Settled(S) == \A i \in S : fate'[i] # "open"
Left(S) == \A i \in S : fate'[i] = "open"

\* "ok": there is an export of everything.  "errors": no conversation was forgotten,
\* nor a project, unless their list could not be had.  "aborted" promises nothing.
End(o) ==
    /\ outcome' = o
    /\ o = "ok" => \A i \in asked : fate'[i] \in Content(i)
    /\ o = "errors" => Settled(asked \cap Convs) /\ (Settled(asked \cap Projects) \/ Left(Projects))

Next ==
    /\ outcome = "running"
    /\ UNCHANGED fate \/ \E i \in asked : Settle(i)
    /\ UNCHANGED outcome \/ \E o \in {"ok", "errors", "aborted"} : End(o)
    /\ UNCHANGED asked

Spec == Init /\ [][Next]_harvestVars

=============================================================================
