-------------------------- MODULE RefinementProofs --------------------------
(***************************************************************************)
(* What AsyncExtension implements.                                         *)
(***************************************************************************)
EXTENDS AsyncExtensionProofs

(***************************************************************************)
(* The lifecycle of RequestLifecycle: with the phase of a context read off *)
(* its fields (Phase), each step of the two threads is a step of the       *)
(* lifecycle or changes nothing there.                                     *)
(***************************************************************************)
lifecycleState == <<heap, in_event_thread, handle_closed, gthis, cleaned>>

\* The steps that the lifecycle can see.
LEMMA LifecycleSteps ==
    ASSUME Next
    PROVE  \/ UNCHANGED lifecycleState
           \/ \E p \in Plugins, c \in Contexts : CurlNew(p, c)
           \/ \E h \in 1..MaxInt : Close(h) \/ StartRequest(h)
           \/ FrameDeliver \/ CallbackReturn \/ FinishUnload
  BY DEF lifecycleState, Next, GameThread, Natives, GameContinues, EventThread,
     EventContinues, vars, objectVars, hmVars, ctxVars, gameVars, gameLocals,
     NewHandleFails,
     CurlNewFails, CurlSetGlobalInt, AddCurlJobLock, AddCurlJobPush,
     AddCurlJobUnlock, ChangeCurlSettingsLock, ChangeCurlSettingsPush,
     ChangeCurlSettingsUnlock, ChangeCurlSettingsSend, FrameCheckJobs,
     FrameSend, FrameCheckDone, FrameLock, FrameUnlock, OnPluginLoaded,
     OnPluginUnloaded, SDK_OnUnload, AsyncAddJobs, AsyncAddJobsLock,
     ProcessCurlJob, AsyncAddJobsUnlock, AsyncChangeCurlSettings,
     AsyncChangeCurlSettingsLock, ApplyCurlSetting,
     AsyncChangeCurlSettingsUnlock, AsyncStopLoop, EventLoopReturns,
     CurlSocketAction, TransferDone, CurlSocketActionReturns,
     CheckCompletedCurlJobs, CompletedLock, CompletedPush, CompletedUnlock,
     NoMoreMessages, Unloaded

\* One context goes from one phase to another and the others stay.
LEMMA MoveFacts ==
    ASSUME NEW c \in Contexts, NEW from, NEW to, Phase(c) = from, Phase(c)' = to,
           \A d \in Contexts \ {c} : Phase(d)' = Phase(d)
    PROVE  Lifecycle!Move(c, from, to)
  BY DEF Lifecycle!Move

\* What leaves the fields of the contexts alone leaves every phase alone.
LEMMA SamePhases ==
    ASSUME UNCHANGED <<heap, in_event_thread, handle_closed>>
    PROVE  UNCHANGED [c \in Contexts |-> Phase(c)]
  BY DEF Phase

\* CurlNew creates an idle context.
LEMMA CreateStep ==
    ASSUME Inv, NEW p \in Plugins, NEW c \in Contexts, CurlNew(p, c)
    PROVE  Lifecycle!Next
<1>1. /\ c \notin heap /\ heap' = heap \cup {c} /\ ~cleaned /\ cleaned' = cleaned
      /\ gthis' = gthis
  BY DEF CurlNew, New, NewHandle, NativeCall, Inv, UnloadOrder, gameVars
<1>2. /\ ~in_event_thread'[c]
      /\ \A d \in Contexts \ {c} : /\ in_event_thread'[d] = in_event_thread[d]
                                   /\ handle_closed'[d] = handle_closed[d]
  BY DEF CurlNew, Inv, TypeOK, ObjectTypes
<1>3. Lifecycle!Move(c, "none", "idle")
  BY <1>1, <1>2, MoveFacts DEF Phase
<1> QED BY <1>1, <1>3 DEF Lifecycle!Next, Lifecycle!Create

\* A context that is deleted has no phase any more, whatever it had.
LEMMA FreedPhase ==
    ASSUME Inv, NEW h, NEW c \in heap, h \in DOMAIN used_handles,
           used_handles[h] = c, FreeContext(h, c)
    PROVE  Lifecycle!Move(c, Phase(c), "none") /\ cleaned' = cleaned
<1>1. heap' = heap \ {c} /\ cleaned' = cleaned /\ c \in Contexts
  BY DEF FreeContext, FreeHandle, IsHandle, GetCurlPointer, Inv, TypeOK, HMTypeOK
<1>2. \A d \in Contexts \ {c} : /\ in_event_thread'[d] = in_event_thread[d]
                                /\ handle_closed'[d] = handle_closed[d]
  BY DEF FreeContext, Inv, TypeOK, ObjectTypes
<1>3. Phase(c)' = "none" /\ \A d \in Contexts \ {c} : Phase(d)' = Phase(d)
  BY <1>1, <1>2 DEF Phase
<1> QED BY <1>1, <1>3, MoveFacts

\* Close frees an idle context and makes a busy one closing; closing it again
\* changes nothing.
LEMMA CloseStep ==
    ASSUME Inv, NEW h \in 1..MaxInt, Close(h)
    PROVE  [Lifecycle!Next]_(Lifecycle!lifecycleVars)
<1>1. PICK c : c = GetCurlPointer(h)
  OBVIOUS
<1>2. ~cleaned /\ h \in DOMAIN used_handles /\ used_handles[h] = c /\ gthis' = gthis
  BY <1>1 DEF Close, NativeCall, IsHandle, GetCurlPointer, Inv, UnloadOrder, gameVars
<1>3. c \in heap /\ c \in Contexts
  BY <1>2 DEF Inv, TypeOK, HMTypeOK, TableOwnsHeap, Pointers, Range
<1>4. CASE ~in_event_thread[c]
  <2>1. FreeContext(h, c)
    BY <1>1, <1>4 DEF Close
  <2>2. Lifecycle!Move(c, Phase(c), "none") /\ cleaned' = cleaned
    BY <1>2, <1>3, <2>1, FreedPhase
  <2>3. Phase(c) = "idle"
    BY <1>3, <1>4 DEF Phase
  <2> QED BY <1>2, <1>3, <2>2, <2>3 DEF Lifecycle!Next, Lifecycle!Close
<1>5. CASE in_event_thread[c]
  <2>1. /\ handle_closed' = [handle_closed EXCEPT ![c] = TRUE]
        /\ UNCHANGED <<heap, in_event_thread, cleaned>>
    BY <1>1, <1>5 DEF Close, hmVars
  <2>2. /\ handle_closed'[c]
        /\ \A d \in Contexts \ {c} : handle_closed'[d] = handle_closed[d]
    BY <1>3, <2>1 DEF Inv, TypeOK, ObjectTypes
  <2>3. Phase(c)' = "closing" /\ \A d \in Contexts \ {c} : Phase(d)' = Phase(d)
    BY <1>3, <1>5, <2>1, <2>2 DEF Phase
  <2>4. CASE ~handle_closed[c]
    <3>1. Phase(c) = "busy"
      BY <1>3, <1>5, <2>4 DEF Phase
    <3>2. Lifecycle!Move(c, "busy", "closing")
      BY <1>3, <2>3, <3>1, MoveFacts
    <3> QED BY <1>2, <1>3, <2>1, <3>2 DEF Lifecycle!Next, Lifecycle!Close
  <2>5. CASE handle_closed[c]
    <3>1. Phase(c) = "closing"
      BY <1>3, <1>5, <2>5 DEF Phase
    <3>2. \A d \in Contexts : Phase(d)' = Phase(d)
      BY <2>3, <3>1
    <3> QED BY <1>2, <2>1, <3>2 DEF Lifecycle!lifecycleVars
  <2> QED BY <2>4, <2>5
<1> QED BY <1>4, <1>5

\* Starting makes an idle context busy.
LEMMA StartStep ==
    ASSUME Inv, NEW h \in 1..MaxInt, StartRequest(h)
    PROVE  Lifecycle!Next
<1>1. PICK c : c = GetCurlPointer(h)
  OBVIOUS
<1>2. /\ ~cleaned /\ h \in DOMAIN used_handles /\ used_handles[h] = c
      /\ ~in_event_thread[c]
  BY <1>1
  DEF StartRequest, NativeCall, Usable, IsHandle, GetCurlPointer, Inv, UnloadOrder
<1>3. c \in heap /\ c \in Contexts
  BY <1>2 DEF Inv, TypeOK, HMTypeOK, TableOwnsHeap, Pointers, Range
<1>4. /\ in_event_thread' = [in_event_thread EXCEPT ![c] = TRUE]
      /\ UNCHANGED <<heap, handle_closed, gthis, cleaned>>
  BY <1>1 DEF StartRequest, OnCurlStarted, hmVars
<1>5. /\ in_event_thread'[c] /\ ~handle_closed[c]
      /\ \A d \in Contexts \ {c} : in_event_thread'[d] = in_event_thread[d]
  BY <1>2, <1>3, <1>4 DEF Inv, TypeOK, ObjectTypes, ClosedIsInFlight
<1>6. Lifecycle!Move(c, "idle", "busy")
  BY <1>2, <1>3, <1>4, <1>5, MoveFacts DEF Phase
<1> QED BY <1>2, <1>3, <1>4, <1>6 DEF Lifecycle!Next, Lifecycle!Start

\* The frame hook ends a start: with the callback if it is still wanted and can
\* be found, and otherwise by discarding the context.
LEMMA DeliverStep ==
    ASSUME Inv, FrameDeliver
    PROVE  Lifecycle!Next
<1>1. PICK c : c = Head(done_queue)
  OBVIOUS
<1>2. done_queue # << >> /\ ~cleaned /\ gthis = NoContext
  BY DeliverCases DEF Inv, UnloadOrder, InHand, DuringCallback, InNative
<1>3. c \in Contexts /\ Somewhere(c)
  BY <1>1, <1>2, TailItems DEF Inv, TypeOK, QueueTypes, Somewhere
<1>4. c \in heap /\ in_event_thread[c]
  BY <1>2, <1>3, PlacesFacts DEF Inv, Custody
<1>5. CASE /\ FreeContext(sourcepawn_handle[c], c)
           /\ UNCHANGED gthis
  <2>1. /\ sourcepawn_handle[c] \in DOMAIN used_handles
        /\ used_handles[sourcepawn_handle[c]] = c
    BY <1>4 DEF Inv, HandleNamesItself, IsHandle, GetCurlPointer
  <2>2. Lifecycle!Move(c, Phase(c), "none") /\ cleaned' = cleaned
    BY <1>4, <1>5, <2>1, FreedPhase
  <2>3. Phase(c) \in {"busy", "closing"}
    BY <1>4 DEF Phase
  <2>4. Lifecycle!Discard(c)
    BY <1>2, <1>5, <2>2, <2>3 DEF Lifecycle!Discard
  <2> QED BY <1>2, <1>3, <2>2, <2>4 DEF Lifecycle!Next
<1>6. CASE /\ ~handle_closed[c]
           /\ in_event_thread' = [in_event_thread EXCEPT ![c] = FALSE]
           /\ gthis' = c
           /\ UNCHANGED <<heap, cleaned, handle_closed>>
  <2>1. /\ ~in_event_thread'[c]
        /\ \A d \in Contexts \ {c} : in_event_thread'[d] = in_event_thread[d]
    BY <1>3, <1>6 DEF Inv, TypeOK, ObjectTypes
  <2>2. Lifecycle!Move(c, "busy", "idle")
    BY <1>3, <1>4, <1>6, <2>1, MoveFacts DEF Phase
  <2> QED BY <1>2, <1>3, <1>6, <2>2 DEF Lifecycle!Next, Lifecycle!Callback
<1> QED BY <1>1, <1>5, <1>6, DeliverCases DEF hmVars

\* The callback returns; contexts are deleted when the extension is unloaded.
LEMMA ReturnStep ==
    ASSUME Inv, CallbackReturn
    PROVE  Lifecycle!Next
<1>1. /\ gthis # NoContext /\ gthis' = NoContext /\ ~cleaned
      /\ UNCHANGED <<heap, in_event_thread, handle_closed, cleaned>>
  BY DEF CallbackReturn, Inv, InHand, DuringCallback, UnloadOrder, objectVars, hmVars,
         ctxVars
<1> QED BY <1>1, SamePhases DEF Lifecycle!Next, Lifecycle!CallbackReturn

\* FinishUnload ends the lifecycle, and never during a callback.
LEMMA UnloadStep ==
    ASSUME Inv, FinishUnload
    PROVE  Lifecycle!Next
<1>1. ~cleaned /\ gthis = NoContext /\ gthis' = gthis /\ cleaned' = TRUE
  BY DEF FinishUnload, CleanHandles, Inv, UnloadOrder, InHand, DuringCallback, InNative,
         gameLocals
<1>2. heap' = {}
  BY <1>1 DEF FinishUnload, CleanHandles, Inv, TableOwnsHeap
<1>3. [c \in Contexts |-> Phase(c)]' = [c \in Contexts |-> "none"]
  BY <1>2 DEF Phase
<1> QED BY <1>1, <1>3 DEF Lifecycle!Next, Lifecycle!Unload

\* The extension implements the lifecycle: a start is answered by exactly one
\* callback or one discard, a closed request gets no callback, callbacks do not
\* nest, and nothing is deleted under a running callback by the unload.
THEOREM LifecycleRefined == Spec => ImplementsLifecycle
<1>1. Init => Lifecycle!Init
  BY DEF Init, HMInit, Lifecycle!Init, Phase
<1>2. Inv /\ [Next]_vars => [Lifecycle!Next]_(Lifecycle!lifecycleVars)
  <2>1. ASSUME UNCHANGED lifecycleState PROVE UNCHANGED Lifecycle!lifecycleVars
    BY <2>1, SamePhases DEF lifecycleState, Lifecycle!lifecycleVars
  <2>2. ASSUME Inv, Next PROVE [Lifecycle!Next]_(Lifecycle!lifecycleVars)
    BY <2>1, <2>2, LifecycleSteps, CreateStep, CloseStep, StartStep, DeliverStep,
       ReturnStep, UnloadStep
  <2>3. UNCHANGED vars => UNCHANGED lifecycleState
    BY DEF vars, objectVars, hmVars, ctxVars, gameLocals, lifecycleState
  <2> QED BY <2>1, <2>2, <2>3
<1> QED BY <1>1, <1>2, InvCorrect, PTL DEF Spec, ImplementsLifecycle, Lifecycle!Spec

(***************************************************************************)
(* The uses of curl of CurlCalls: each step of the event thread is one of  *)
(* them (Add, Call, Finish, Return, Take, End, Drop) or changes nothing    *)
(* that curl sees.                                                         *)
(***************************************************************************)
\* What a use of curl changes: the transfers, the messages, and how far the call
\* is, which is read off epc and cleaned.
InCall == IF epc = "curl" THEN "curl"
          ELSE IF epc \in {"check", "done_lock", "done_push", "done_unlock"} THEN "check"
          ELSE "poll"
callState == <<multi, msgs, cleaned, InCall>>

\* The steps that curl can see.
LEMMA CallSteps ==
    ASSUME Next
    PROVE  \/ UNCHANGED callState
           \/ ProcessCurlJob \/ CurlSocketAction \/ CurlSocketActionReturns
           \/ \E c \in Contexts : TransferDone(c)
           \/ CheckCompletedCurlJobs \/ NoMoreMessages \/ FinishUnload
<1>1. CASE GameThread
  <2>1. ASSUME UNCHANGED <<cleaned, multi, msgs, epc>> PROVE UNCHANGED callState
    BY <2>1 DEF callState, InCall
  <2>2. CASE Natives
    <3>1. ASSUME NEW p \in Plugins, NEW c \in Contexts, CurlNew(p, c)
          PROVE  UNCHANGED callState
      BY <2>1, <3>1 DEF CurlNew, New, NewHandle, libVars, curlVars, eventVars
    <3>2. ASSUME NEW h \in 1..MaxInt, Close(h) PROVE UNCHANGED callState
      BY <2>1, <3>2 DEF Close, FreeContext, FreeHandle, hmVars, libVars, curlVars, eventVars
    <3>3. ASSUME NEW h \in 1..MaxInt, StartRequest(h) PROVE UNCHANGED callState
      BY <2>1, <3>3 DEF StartRequest, OnCurlStarted, hmVars, libVars, curlVars, eventVars
    <3>4. ASSUME CurlNewFails \/ \E params \in GlobalIntCalls : CurlSetGlobalInt(params)
          PROVE  UNCHANGED callState
      BY <2>1, <3>4 DEF CurlNewFails, NewHandleFails, CurlSetGlobalInt, objectVars, hmVars,
         libVars, curlVars, eventVars
    <3> QED BY <2>2, <3>1, <3>2, <3>3, <3>4 DEF Natives
  <2>3. CASE GameContinues
    <3>1. FrameDeliver => UNCHANGED <<cleaned, multi, msgs, epc>>
      BY DeliverCases DEF FreeContext, FreeHandle, hmVars, libVars, curlVars, eventVars
    <3> QED BY <2>1, <2>3, <3>1 DEF GameContinues, AddCurlJobLock, AddCurlJobPush,
       AddCurlJobUnlock, ChangeCurlSettingsLock, ChangeCurlSettingsPush,
       ChangeCurlSettingsUnlock, ChangeCurlSettingsSend, FrameSend, FrameCheckDone,
       FrameLock, FrameUnlock, objectVars, hmVars, libVars, curlVars, eventVars
  <2>4. CASE FrameCheckJobs \/ CallbackReturn \/ SDK_OnUnload
             \/ \E p \in Plugins : OnPluginLoaded(p) \/ OnPluginUnloaded(p)
    BY <2>1, <2>4 DEF FrameCheckJobs, CallbackReturn, SDK_OnUnload, OnPluginLoaded,
       OnPluginUnloaded, objectVars, hmVars, libVars, curlVars, eventVars
  <2> QED BY <1>1, <2>2, <2>3, <2>4 DEF GameThread
<1>2. CASE EventThread
  <2>1. ASSUME UNCHANGED <<cleaned, multi, msgs>>,
               InCall = "poll", InCall' = "poll"
        PROVE  UNCHANGED callState
    BY <2>1 DEF callState
  <2>2. CASE AsyncAddJobs \/ AsyncAddJobsLock \/ AsyncAddJobsUnlock
    BY <2>1, <2>2 DEF InCall, AsyncAddJobs, AsyncAddJobsLock, AsyncAddJobsUnlock,
       objectVars, hmVars, libVars, curlVars
  <2>3. CASE \/ AsyncChangeCurlSettings \/ AsyncChangeCurlSettingsLock
             \/ ApplyCurlSetting \/ AsyncChangeCurlSettingsUnlock
    BY <2>1, <2>3 DEF InCall, AsyncChangeCurlSettings, AsyncChangeCurlSettingsLock,
       ApplyCurlSetting, AsyncChangeCurlSettingsUnlock, objectVars, hmVars, libVars,
       curlVars, eventVars
  <2>4. CASE AsyncStopLoop \/ EventLoopReturns
    BY <2>1, <2>4 DEF InCall, AsyncStopLoop, EventLoopReturns, objectVars, hmVars, libVars,
       curlVars, eventVars
  <2>5. CASE CompletedLock \/ CompletedPush \/ CompletedUnlock
    BY <2>5 DEF callState, InCall, CompletedLock, CompletedPush, CompletedUnlock,
       objectVars, hmVars, libVars, curlVars
  <2> QED BY <1>2, <2>2, <2>3, <2>4, <2>5 DEF EventThread, EventContinues
<1>3. CASE Unloaded
  BY <1>3 DEF Unloaded, vars, objectVars, hmVars, libVars, curlVars, callState, InCall
<1> QED BY <1>1, <1>2, <1>3 DEF Next

\* Stage, in terms of callState.
LEMMA StageIs ==
    Stage = IF cleaned THEN "gone" ELSE InCall
  BY DEF Stage, InCall

\* The messages are of different transfers, which are contexts, in the multi handle.
LEMMA MessageFacts ==
    ASSUME Inv
    PROVE  /\ msgs \in Seq(Contexts) /\ IsInjective(msgs)
           /\ Range(msgs) \subseteq multi /\ multi \subseteq Contexts
           /\ msgs = << >> => Range(msgs) = {}
  BY DEF Inv, TypeOK, LibraryTypes, InOnePlace, Range

\* A job that is popped is not in the multi handle, and stays in Contexts.
LEMMA JobFacts ==
    ASSUME Inv, job_queue # << >>
    PROVE  Head(job_queue) \in Contexts \ multi
<1>1. Head(job_queue) \in Contexts /\ Head(job_queue) \in Range(job_queue)
  BY TailItems DEF Inv, TypeOK, QueueTypes
<1>2. NotTwice(Head(job_queue))
  BY <1>1, PlacesFacts DEF Inv, InOnePlace
<1> QED BY <1>1, <1>2 DEF NotTwice

\* Each step of the extension is one use of curl or none.
LEMMA CallStep ==
    ASSUME Inv, Next
    PROVE  [Calls!Next]_(Calls!callVars)
<1>1. ASSUME UNCHANGED callState PROVE UNCHANGED Calls!callVars
  BY <1>1, StageIs DEF callState, Stage, InCall, Calls!callVars
<1>2. ASSUME ProcessCurlJob PROVE [Calls!Next]_(Calls!callVars)
  <2>1. /\ job_queue # << >> /\ Stage = "poll" /\ Stage' = "poll" /\ msgs' = msgs
        /\ multi' = multi \cup {Head(job_queue)} \/ multi' = multi
    BY <1>2 DEF ProcessCurlJob, JobQ!Empty, JobQ!Front, Inv, UnloadOrder, Stage,
       objectVars, hmVars, eventVars
  <2>2. Head(job_queue) \in Contexts \ multi
    BY <2>1, JobFacts
  <2>3. CASE multi' = multi \cup {Head(job_queue)}
    <3>1. Calls!Add(Head(job_queue))
      BY <2>1, <2>2, <2>3, MessageFacts DEF Calls!Add
    <3> QED BY <2>2, <3>1 DEF Calls!Next
  <2>4. CASE multi' = multi
    BY <2>1, <2>4 DEF Calls!callVars
  <2> QED BY <2>1, <2>3, <2>4
<1>3. ASSUME CurlSocketAction PROVE Calls!Next
  BY <1>3 DEF CurlSocketAction, Inv, UnloadOrder, Stage, Calls!Next, Calls!Call, objectVars,
     hmVars, libVars, curlVars
<1>4. ASSUME NEW c \in Contexts, TransferDone(c) PROVE Calls!Next
  <2>1. /\ Stage = "curl" /\ Stage' = "curl" /\ c \in multi \ Range(msgs)
        /\ msgs' = Append(msgs, c) /\ multi' = multi
    BY <1>4 DEF TransferDone, Inv, UnloadOrder, Stage, objectVars, hmVars, eventVars
  <2>2. Range(msgs') = Range(msgs) \cup {c}
    BY <2>1, MessageFacts, AppendItems
  <2>3. Calls!Finish(c)
    BY <2>1, <2>2 DEF Calls!Finish
  <2> QED BY <2>3 DEF Calls!Next
<1>5. ASSUME CurlSocketActionReturns PROVE Calls!Next
  BY <1>5 DEF CurlSocketActionReturns, Inv, UnloadOrder, Stage, Calls!Next, Calls!Return,
     objectVars, hmVars, libVars, curlVars
<1>6. ASSUME CheckCompletedCurlJobs PROVE Calls!Next
  <2>1. /\ Stage = "check" /\ Stage' = "check" /\ msgs # << >>
        /\ msgs' = Tail(msgs) /\ multi' = multi \ {Head(msgs)}
    BY <1>6 DEF CheckCompletedCurlJobs, Inv, UnloadOrder, Stage, objectVars, hmVars
  <2>2. /\ Head(msgs) \in Contexts /\ Head(msgs) \in Range(msgs)
        /\ Range(msgs') = Range(msgs) \ {Head(msgs)}
    BY <2>1, MessageFacts, TailItems
  <2>3. Calls!Take(Head(msgs))
    BY <2>1, <2>2 DEF Calls!Take
  <2> QED BY <2>2, <2>3 DEF Calls!Next
<1>7. ASSUME NoMoreMessages PROVE Calls!Next
  BY <1>7, MessageFacts DEF NoMoreMessages, Inv, UnloadOrder, Stage, Calls!Next, Calls!End,
     objectVars, hmVars, libVars, curlVars
<1>8. ASSUME FinishUnload PROVE Calls!Next
  <2>1. /\ Stage = "poll" /\ Stage' = "gone" /\ multi' \subseteq multi /\ msgs' = msgs
    BY <1>8 DEF FinishUnload, CleanHandles, Inv, UnloadOrder, Stage, eventVars
  <2> QED BY <2>1 DEF Calls!Next, Calls!Drop
<1> QED BY <1>1, <1>2, <1>3, <1>4, <1>5, <1>6, <1>7, <1>8, CallSteps

\* The extension implements CurlCalls, whether or not curl refuses transfers: no
\* transfer is added twice or during a call of curl, and all completions of a call
\* are read, each once, before the event thread does anything else.
THEOREM CallsRefined == Spec => ImplementsCurlCalls
<1>1. Init => Calls!Init
  BY DEF Init, HMInit, Calls!Init, Stage, Range
<1>2. UNCHANGED vars => UNCHANGED Calls!callVars
  BY DEF vars, objectVars, hmVars, libVars, curlVars, Calls!callVars, Stage
<1>3. Inv /\ [Next]_vars => [Calls!Next]_(Calls!callVars)
  BY <1>2, CallStep
<1> QED BY <1>1, <1>3, InvCorrect, PTL DEF Spec, ImplementsCurlCalls, Calls!Spec
=============================================================================
