------------------------------ MODULE Assessment ------------------------------
(***************************************************************************)
(* What the assessment of candidates promises, with no transactions, no    *)
(* sessions, no broker and no poller: material is handed in, an interview  *)
(* puts its application in cooldown for good, and only then a verdict is   *)
(* passed, on material of the same candidate, or for the lack of an answer *)
(* ("error"); FRAUD and the exclusion of the candidate are one step, and   *)
(* nobody is readmitted.                                                   *)
(* ApplicationLifecycle implements it where no officer overrides.          *)
(***************************************************************************)
CONSTANTS Users, Apps, Owner, Verdicts, None

VARIABLES
    submitted,  \* applications whose material was handed in
    cooling,    \* applications that have been interviewed
    judged,     \* the verdict on an application and whose material it is on
    barred      \* users excluded for fraud

avars == <<submitted, cooling, judged, barred>>

Init ==
    /\ submitted = {}
    /\ cooling = {}
    /\ judged = [a \in Apps |-> None]
    /\ barred = {}

Submit(a) ==
    /\ submitted' = submitted \cup {a}
    /\ UNCHANGED <<cooling, judged, barred>>

Interview(a) ==
    /\ cooling' = cooling \cup {a}
    /\ UNCHANGED <<submitted, judged, barred>>

Judge(a, m, v) ==
    /\ a \in cooling
    /\ m # "error" => m \in submitted /\ Owner[m] = Owner[a]
    /\ judged' = [judged EXCEPT ![a] = [value |-> v, of |-> m]]
    /\ barred' = IF v = "FRAUD" THEN barred \cup {Owner[a]} ELSE barred
    /\ UNCHANGED <<submitted, cooling>>

Next ==
    \E a \in Apps :
        \/ Submit(a)
        \/ Interview(a)
        \/ \E m \in Apps \cup {"error"}, v \in Verdicts \cup {None} : Judge(a, m, v)

Spec == Init /\ [][Next]_avars
=============================================================================
