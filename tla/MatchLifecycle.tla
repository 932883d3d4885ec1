--------------------------- MODULE MatchLifecycle ---------------------------
(***************************************************************************)
(* What the match endpoints promise about one match, with no request, row  *)
(* or statement in sight: the status and the three facts its gates depend  *)
(* on. Match.tla is shown to implement it when requests come one by one.   *)
(***************************************************************************)

VARIABLES
    status,           \* where the match is
    lineupsApproved,  \* both lineups are approved
    scored,           \* both scores are known
    reported          \* the referee's and the supervisor's reports are on file

lifecycleVars == <<status, lineupsApproved, scored, reported>>

Closed == status \in {"LOCKED", "FINISHED"}

Init ==
    /\ status = "DRAFT"
    /\ ~lineupsApproved /\ ~scored /\ ~reported

Move(from, to) ==
    /\ status = from /\ status' = to
    /\ UNCHANGED <<lineupsApproved, scored, reported>>

Publish == Move("DRAFT", "PUBLISHED")
Postpone == Move("DRAFT", "POSTPONED") \/ Move("PUBLISHED", "POSTPONED")
Reopen == Move("POSTPONED", "DRAFT")
Lock == lineupsApproved /\ Move("PUBLISHED", "LOCKED")
Finish == scored /\ reported /\ Move("LOCKED", "FINISHED")

\* A lineup is reviewed, or submitted anew; not once the match is closed.
Approve ==
    /\ ~Closed
    /\ lineupsApproved' = ~lineupsApproved
    /\ UNCHANGED <<status, scored, reported>>

\* Scores appear at any time and are taken back only while the match is open.
Score ==
    /\ scored' \/ ~Closed
    /\ scored' \in BOOLEAN
    /\ UNCHANGED <<status, lineupsApproved, reported>>

\* A report is never withdrawn.
Report ==
    /\ reported' = TRUE
    /\ UNCHANGED <<status, lineupsApproved, scored>>

Next == Publish \/ Postpone \/ Reopen \/ Lock \/ Finish \/ Approve \/ Score \/ Report

Spec == Init /\ [][Next]_lifecycleVars
=============================================================================
