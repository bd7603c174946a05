----------------------------- MODULE CurlCalls -----------------------------
(***************************************************************************)
(* How the event thread uses curl's multi interface: transfers are added   *)
(* between calls, never during one; each call is followed by a loop that   *)
(* takes every finished transfer, once, before anything else happens.      *)
(***************************************************************************)
CONSTANT Transfers

VARIABLES running,     \* transfers curl works on
          finished,    \* transfers whose CURLMSG_DONE has not been read
          stage        \* "poll": outside curl; "curl": in a call; "check": after it;
                       \* "gone": the extension has been unloaded

callVars == <<running, finished, stage>>

Init == running = {} /\ finished = {} /\ stage = "poll"

Add(t) ==
    /\ stage = "poll" /\ t \notin running \cup finished
    /\ running' = running \cup {t}
    /\ UNCHANGED <<finished, stage>>

Call == stage = "poll" /\ stage' = "curl" /\ UNCHANGED <<running, finished>>

Finish(t) ==
    /\ stage = "curl" /\ t \in running
    /\ running' = running \ {t} /\ finished' = finished \cup {t}
    /\ UNCHANGED stage

Return == stage = "curl" /\ stage' = "check" /\ UNCHANGED <<running, finished>>

Take(t) ==
    /\ stage = "check" /\ t \in finished
    /\ finished' = finished \ {t}
    /\ UNCHANGED <<running, stage>>

End == stage = "check" /\ finished = {} /\ stage' = "poll" /\ UNCHANGED <<running, finished>>

\* Transfers that are still running when the extension goes are dropped, and
\* curl is not used any more.
Drop ==
    /\ stage = "poll" /\ stage' = "gone"
    /\ running' \subseteq running /\ UNCHANGED finished

Next ==
    \/ \E t \in Transfers : Add(t) \/ Finish(t) \/ Take(t)
    \/ Call \/ Return \/ End \/ Drop

Spec == Init /\ [][Next]_callVars
=============================================================================
