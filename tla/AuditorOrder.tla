---------------------------- MODULE AuditorOrder ----------------------------
(* Auditor with a history variable: the order in which Submit accepted calls. *)
EXTENDS AuditorRefinement

VARIABLE accepted

HInit == Init /\ accepted = <<>>

HNext ==
    /\ Next
    /\ accepted' = IF Len(queue') > Len(queue) THEN Append(accepted, queue'[Len(queue')])
                                              ELSE accepted

HSpec == HInit /\ [][HNext]_<<vars, accepted>> /\ Fairness

\* With one worker, an entity's background versions are numbered in the order
\* in which Submit accepted the calls, whatever fails or crashes in between.
SubmissionOrder ==
    NumWorkers = 1 =>
        \A i, j \in 1..Len(accepted) :
            LET c == accepted[i]
                d == accepted[j]
            IN i < j /\ Stored(c) /\ Stored(d) /\ req[c].entity = req[d].entity
                => rec[c].version < rec[d].version

=============================================================================
