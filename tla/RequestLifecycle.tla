-------------------------- MODULE RequestLifecycle --------------------------
(***************************************************************************)
(* What the extension promises a plugin about one request, with no threads,*)
(* queues or handle numbers: a context is created idle, a start makes it   *)
(* busy, and each start ends in exactly one of three ways: the callback    *)
(* runs once and the context is idle again; it is discarded without a      *)
(* callback because the callback cannot be found any more; or, if it was   *)
(* closed while it was busy, it is discarded without a callback.           *)
(***************************************************************************)
CONSTANTS Contexts, NoContext

VARIABLES phase,     \* of each context
          calling,   \* the context whose callback is running
          over       \* the extension has been unloaded

lifecycleVars == <<phase, calling, over>>

Phases == {"none", "idle", "busy", "closing"}

Move(c, from, to) ==
    /\ phase[c] = from
    /\ phase' = [phase EXCEPT ![c] = to]

Init ==
    /\ phase = [c \in Contexts |-> "none"]
    /\ calling = NoContext
    /\ over = FALSE

Create(c) == Move(c, "none", "idle") /\ UNCHANGED calling
Start(c) == Move(c, "idle", "busy") /\ UNCHANGED calling
Close(c) == /\ Move(c, "idle", "none") \/ Move(c, "busy", "closing")
            /\ UNCHANGED calling

\* The end of a start: callbacks never nest.
Callback(c) == /\ calling = NoContext
               /\ Move(c, "busy", "idle")
               /\ calling' = c
Discard(c) == /\ calling = NoContext
              /\ Move(c, "busy", "none") \/ Move(c, "closing", "none")
              /\ UNCHANGED calling

CallbackReturn ==
    /\ calling # NoContext
    /\ calling' = NoContext
    /\ UNCHANGED phase

\* Unloading deletes everything, and never in the middle of a callback.
Unload ==
    /\ calling = NoContext
    /\ phase' = [c \in Contexts |-> "none"]
    /\ UNCHANGED calling

Next ==
    /\ ~over
    /\ \/ /\ \/ \E c \in Contexts : \/ Create(c) \/ Start(c) \/ Close(c)
                                    \/ Callback(c) \/ Discard(c)
             \/ CallbackReturn
          /\ UNCHANGED over
       \/ Unload /\ over' = TRUE

Spec == Init /\ [][Next]_lifecycleVars
=============================================================================
