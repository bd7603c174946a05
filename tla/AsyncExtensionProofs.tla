------------------------ MODULE AsyncExtensionProofs ------------------------
(***************************************************************************)
(* The safety properties of AsyncExtension, for every set of contexts and  *)
(* plugins and every bound.  Inv is shown to be inductive in four layers:  *)
(* control (who holds which mutex, who has a pointer in hand), the handle  *)
(* table (every step is a step of HandleManager), types, and custody       *)
(* (where each context is, and that it is allocated while it is anywhere). *)
(***************************************************************************)
EXTENDS AsyncExtension, HandleManagerProofs

(***************************************************************************)
(* What the steps do.                                                      *)
(***************************************************************************)

\* The steps that use the handle table.
LEMMA TableSteps ==
    ASSUME Next
    PROVE  \/ UNCHANGED hmVars
           \/ \E p \in Plugins, c \in Contexts : CurlNew(p, c)
           \/ \E h \in 1..MaxInt : Close(h)
           \/ FrameDeliver \/ FinishUnload
  BY DEF Next, GameThread, Natives, GameContinues,
     EventThread, EventContinues,
     vars, objectVars, NewHandleFails,
     CurlNewFails, StartRequest, CurlSetGlobalInt, AddCurlJobLock,
     AddCurlJobPush, AddCurlJobUnlock, ChangeCurlSettingsLock,
     ChangeCurlSettingsPush, ChangeCurlSettingsUnlock,
     ChangeCurlSettingsSend, FrameCheckJobs, FrameSend, FrameCheckDone,
     FrameLock, FrameUnlock, CallbackReturn, OnPluginLoaded,
     OnPluginUnloaded, SDK_OnUnload, AsyncAddJobs, AsyncAddJobsLock,
     ProcessCurlJob, AsyncAddJobsUnlock, AsyncChangeCurlSettings,
     AsyncChangeCurlSettingsLock, ApplyCurlSetting,
     AsyncChangeCurlSettingsUnlock, AsyncStopLoop, EventLoopReturns,
     CurlSocketAction, TransferDone, CurlSocketActionReturns,
     CheckCompletedCurlJobs, CompletedLock, CompletedPush, CompletedUnlock,
     NoMoreMessages, Unloaded

\* What custody of the contexts depends on, and the steps that change it.
custodyVars == <<hmVars, in_event_thread, handle_closed, sourcepawn_handle,
                 gctx, job_queue, multi, msgs, ectx, done_queue>>

\* The steps that move a context from place to place or change what claims it.
LEMMA CustodySteps ==
    ASSUME Next
    PROVE  \/ UNCHANGED custodyVars
           \/ \E p \in Plugins, c \in Contexts : CurlNew(p, c)
           \/ \E h \in 1..MaxInt : Close(h) \/ StartRequest(h)
           \/ AddCurlJobPush \/ FrameDeliver \/ FinishUnload
           \/ ProcessCurlJob \/ CheckCompletedCurlJobs \/ CompletedPush
           \/ \E c \in Contexts : TransferDone(c)
  BY DEF custodyVars, Next, GameThread, Natives, GameContinues,
     EventThread, EventContinues,
     vars, objectVars, queueVars, libVars, ctxVars, jobVars, doneVars, curlVars,
     gameVars, gameLocals, eventVars, NewHandleFails,
     CurlNewFails, CurlSetGlobalInt, AddCurlJobLock, AddCurlJobUnlock,
     ChangeCurlSettingsLock, ChangeCurlSettingsPush,
     ChangeCurlSettingsUnlock, ChangeCurlSettingsSend, FrameCheckJobs,
     FrameSend, FrameCheckDone, FrameLock, FrameUnlock, CallbackReturn,
     OnPluginLoaded, OnPluginUnloaded, SDK_OnUnload, AsyncAddJobs,
     AsyncAddJobsLock, AsyncAddJobsUnlock, AsyncChangeCurlSettings,
     AsyncChangeCurlSettingsLock, ApplyCurlSetting,
     AsyncChangeCurlSettingsUnlock, AsyncStopLoop, EventLoopReturns,
     CurlSocketAction, CurlSocketActionReturns, CompletedLock,
     CompletedUnlock, NoMoreMessages, Unloaded

\* FrameDeliver starts a callback or frees the context, nothing else.
LEMMA DeliverCases ==
    ASSUME FrameDeliver
    PROVE  /\ gpc = "frame_loop"
           /\ done_queue # << >>
           /\ done_queue' = Tail(done_queue)
           /\ UNCHANGED <<pluginVars, jobVars, done_lock, optVars, libVars, gret,
                          gctx, gopt, eventVars>>
           /\ \/ /\ ~handle_closed[Head(done_queue)]
                 /\ in_event_thread' =
                       [in_event_thread EXCEPT ![Head(done_queue)] = FALSE]
                 /\ gpc' = "callback" /\ gthis' = Head(done_queue)
                 /\ UNCHANGED <<hmVars, handle_closed, sourcepawn_plugin_context,
                                sourcepawn_handle, creator>>
              \/ /\ FreeContext(sourcepawn_handle[Head(done_queue)], Head(done_queue))
                 /\ UNCHANGED <<gpc, gthis>>
  BY Zenon DEF FrameDeliver, OnCurlCompletedGameThread, DoneQ!Empty, DoneQ!Front,
               DoneQ!Pop

\* The context a step takes from a handle or from a queue is a context.
LEMMA ContextsAtHand ==
    ASSUME TypeOK
    PROVE  /\ \A h : IsHandle(h) => GetCurlPointer(h) \in Contexts
           /\ job_queue # << >> => Head(job_queue) \in Contexts
           /\ done_queue # << >> => Head(done_queue) \in Contexts
           /\ msgs # << >> => Head(msgs) \in Contexts
<1>1. \A h : IsHandle(h) => GetCurlPointer(h) \in Contexts
  BY DEF TypeOK, HMTypeOK, IsHandle, GetCurlPointer
<1>2. job_queue # << >> => Head(job_queue) \in Contexts
  BY TailItems DEF TypeOK, QueueTypes
<1>3. done_queue # << >> => Head(done_queue) \in Contexts
  BY TailItems DEF TypeOK, QueueTypes
<1>4. msgs # << >> => Head(msgs) \in Contexts
  BY TailItems DEF TypeOK, LibraryTypes
<1> QED BY <1>1, <1>2, <1>3, <1>4

(***************************************************************************)
(* Layer 1: control.                                                       *)
(***************************************************************************)
Control == LocksHeld /\ InHand /\ UnloadOrder /\ MessagesRead

\* Every step leaves the mutexes, the pointers in hand and the order of the
\* unload as the places of the two threads say.
LEMMA ControlStep ==
    ASSUME TypeOK, Control, Next
    PROVE  Control'
<1> USE NoContextAssumption
    DEF Control, LocksHeld, InHand, UnloadOrder, MessagesRead, DuringCallback,
        InNative, GamePC, EventPC, vars, objectVars, hmVars, ctxVars, pluginVars,
        queueVars, jobVars, doneVars, optVars, libVars, asyncVars, curlVars,
        settingVars, gameVars, gameLocals, eventVars, NativeCall, JobQ!Lock,
        JobQ!Unlock, DoneQ!Lock, DoneQ!Unlock, OptQ!Lock, OptQ!Unlock
<1>1. ASSUME NEW p \in Plugins, NEW c \in Contexts, CurlNew(p, c) PROVE Control'
  BY <1>1 DEF TypeOK, HMTypeOK, ThreadTypes, LibraryTypes,
              CurlNew, New, NewHandle
<1>2. ASSUME CurlNewFails PROVE Control'
  BY <1>2 DEF TypeOK, HMTypeOK, ThreadTypes, LibraryTypes,
              CurlNewFails, NewHandleFails
<1>3. ASSUME NEW h \in 1..MaxInt, Close(h) PROVE Control'
  BY <1>3 DEF TypeOK, HMTypeOK, ThreadTypes, LibraryTypes,
              Close, FreeContext, FreeHandle
<1>4. ASSUME NEW h \in 1..MaxInt, StartRequest(h) PROVE Control'
  BY <1>4, ContextsAtHand DEF TypeOK, HMTypeOK, ThreadTypes, LibraryTypes,
              StartRequest, Usable
<1>5. ASSUME NEW params \in GlobalIntCalls, CurlSetGlobalInt(params) PROVE Control'
  BY <1>5 DEF TypeOK, HMTypeOK, ThreadTypes, LibraryTypes,
              CurlSetGlobalInt
<1>6. ASSUME AddCurlJobLock PROVE Control'
  BY <1>6 DEF TypeOK, HMTypeOK, ThreadTypes, LibraryTypes,
              AddCurlJobLock
<1>7. ASSUME AddCurlJobPush PROVE Control'
  BY <1>7 DEF TypeOK, HMTypeOK, ThreadTypes, LibraryTypes,
              AddCurlJobPush
<1>8. ASSUME AddCurlJobUnlock PROVE Control'
  BY <1>8 DEF TypeOK, HMTypeOK, ThreadTypes, LibraryTypes,
              AddCurlJobUnlock
<1>9. ASSUME ChangeCurlSettingsLock PROVE Control'
  BY <1>9 DEF TypeOK, HMTypeOK, ThreadTypes, LibraryTypes,
              ChangeCurlSettingsLock
<1>10. ASSUME ChangeCurlSettingsPush PROVE Control'
  BY <1>10 DEF TypeOK, HMTypeOK, ThreadTypes, LibraryTypes,
              ChangeCurlSettingsPush
<1>11. ASSUME ChangeCurlSettingsUnlock PROVE Control'
  BY <1>11 DEF TypeOK, HMTypeOK, ThreadTypes, LibraryTypes,
              ChangeCurlSettingsUnlock
<1>12. ASSUME ChangeCurlSettingsSend PROVE Control'
  BY <1>12 DEF TypeOK, HMTypeOK, ThreadTypes, LibraryTypes,
              ChangeCurlSettingsSend
<1>13. ASSUME FrameCheckJobs PROVE Control'
  BY <1>13 DEF TypeOK, HMTypeOK, ThreadTypes, LibraryTypes,
              FrameCheckJobs
<1>14. ASSUME FrameSend PROVE Control'
  BY <1>14 DEF TypeOK, HMTypeOK, ThreadTypes, LibraryTypes,
              FrameSend
<1>15. ASSUME FrameCheckDone PROVE Control'
  BY <1>15 DEF TypeOK, HMTypeOK, ThreadTypes, LibraryTypes,
              FrameCheckDone
<1>16. ASSUME FrameLock PROVE Control'
  BY <1>16 DEF TypeOK, HMTypeOK, ThreadTypes, LibraryTypes,
              FrameLock
<1>17. ASSUME FrameDeliver PROVE Control'
  <2>1. Head(done_queue) \in Contexts
    BY <1>17, DeliverCases, ContextsAtHand
  <2>2. cleaned' = cleaned
    BY <1>17, DeliverCases DEF FreeContext, FreeHandle
  <2>3. (UNCHANGED <<gpc, gthis>>) \/ (gpc' = "callback" /\ gthis' = Head(done_queue))
    BY <1>17, DeliverCases
  <2>4. gpc = "frame_loop"
    BY <1>17, DeliverCases
  <2> QED BY <2>1, <2>2, <2>3, <2>4, <1>17
         DEF TypeOK, ThreadTypes, LibraryTypes, FrameDeliver
<1>18. ASSUME FrameUnlock PROVE Control'
  BY <1>18 DEF TypeOK, HMTypeOK, ThreadTypes, LibraryTypes,
              FrameUnlock
<1>19. ASSUME CallbackReturn PROVE Control'
  BY <1>19 DEF TypeOK, HMTypeOK, ThreadTypes, LibraryTypes,
              CallbackReturn
<1>20. ASSUME NEW p \in Plugins, OnPluginLoaded(p) PROVE Control'
  BY <1>20 DEF TypeOK, HMTypeOK, ThreadTypes, LibraryTypes,
              OnPluginLoaded
<1>21. ASSUME NEW p \in Plugins, OnPluginUnloaded(p) PROVE Control'
  BY <1>21 DEF TypeOK, HMTypeOK, ThreadTypes, LibraryTypes,
              OnPluginUnloaded
<1>22. ASSUME SDK_OnUnload PROVE Control'
  BY <1>22 DEF TypeOK, HMTypeOK, ThreadTypes, LibraryTypes,
              SDK_OnUnload
<1>23. ASSUME FinishUnload PROVE Control'
  BY <1>23 DEF TypeOK, HMTypeOK, ThreadTypes, LibraryTypes,
              FinishUnload, CleanHandles
<1>24. ASSUME AsyncAddJobs PROVE Control'
  BY <1>24 DEF TypeOK, HMTypeOK, ThreadTypes, LibraryTypes,
              AsyncAddJobs
<1>25. ASSUME AsyncAddJobsLock PROVE Control'
  BY <1>25 DEF TypeOK, HMTypeOK, ThreadTypes, LibraryTypes,
              AsyncAddJobsLock
<1>26. ASSUME ProcessCurlJob PROVE Control'
  BY <1>26 DEF TypeOK, HMTypeOK, ThreadTypes, LibraryTypes,
              ProcessCurlJob
<1>27. ASSUME AsyncAddJobsUnlock PROVE Control'
  BY <1>27 DEF TypeOK, HMTypeOK, ThreadTypes, LibraryTypes,
              AsyncAddJobsUnlock
<1>28. ASSUME AsyncChangeCurlSettings PROVE Control'
  BY <1>28 DEF TypeOK, HMTypeOK, ThreadTypes, LibraryTypes,
              AsyncChangeCurlSettings
<1>29. ASSUME AsyncChangeCurlSettingsLock PROVE Control'
  BY <1>29 DEF TypeOK, HMTypeOK, ThreadTypes, LibraryTypes,
              AsyncChangeCurlSettingsLock
<1>30. ASSUME ApplyCurlSetting PROVE Control'
  BY <1>30 DEF TypeOK, HMTypeOK, ThreadTypes, LibraryTypes,
              ApplyCurlSetting
<1>31. ASSUME AsyncChangeCurlSettingsUnlock PROVE Control'
  BY <1>31 DEF TypeOK, HMTypeOK, ThreadTypes, LibraryTypes,
              AsyncChangeCurlSettingsUnlock
<1>32. ASSUME AsyncStopLoop PROVE Control'
  BY <1>32 DEF TypeOK, HMTypeOK, ThreadTypes, LibraryTypes,
              AsyncStopLoop
<1>33. ASSUME EventLoopReturns PROVE Control'
  BY <1>33 DEF TypeOK, HMTypeOK, ThreadTypes, LibraryTypes,
              EventLoopReturns
<1>34. ASSUME CurlSocketAction PROVE Control'
  BY <1>34 DEF TypeOK, HMTypeOK, ThreadTypes, LibraryTypes,
              CurlSocketAction
<1>35. ASSUME NEW c \in Contexts, TransferDone(c) PROVE Control'
  BY <1>35 DEF TypeOK, HMTypeOK, ThreadTypes, LibraryTypes,
              TransferDone
<1>36. ASSUME CurlSocketActionReturns PROVE Control'
  BY <1>36 DEF TypeOK, HMTypeOK, ThreadTypes, LibraryTypes,
              CurlSocketActionReturns
<1>37. ASSUME CheckCompletedCurlJobs PROVE Control'
  BY <1>37, ContextsAtHand DEF TypeOK, HMTypeOK, ThreadTypes, LibraryTypes,
              CheckCompletedCurlJobs
<1>38. ASSUME CompletedLock PROVE Control'
  BY <1>38 DEF TypeOK, HMTypeOK, ThreadTypes, LibraryTypes,
              CompletedLock
<1>39. ASSUME CompletedPush PROVE Control'
  BY <1>39 DEF TypeOK, HMTypeOK, ThreadTypes, LibraryTypes,
              CompletedPush
<1>40. ASSUME CompletedUnlock PROVE Control'
  BY <1>40 DEF TypeOK, HMTypeOK, ThreadTypes, LibraryTypes,
              CompletedUnlock
<1>41. ASSUME NoMoreMessages PROVE Control'
  BY <1>41 DEF TypeOK, HMTypeOK, ThreadTypes, LibraryTypes,
              NoMoreMessages
<1>42. ASSUME Unloaded PROVE Control'
  BY <1>42 DEF TypeOK, HMTypeOK, ThreadTypes, LibraryTypes,
              Unloaded
<1> QED
  BY <1>1, <1>2, <1>3, <1>4, <1>5, <1>6, <1>7, <1>8, <1>9, <1>10, <1>11,
     <1>12, <1>13, <1>14, <1>15, <1>16, <1>17, <1>18, <1>19, <1>20, <1>21,
     <1>22, <1>23, <1>24, <1>25, <1>26, <1>27, <1>28, <1>29, <1>30, <1>31,
     <1>32, <1>33, <1>34, <1>35, <1>36, <1>37, <1>38, <1>39, <1>40, <1>41,
     <1>42
  DEF Next, GameThread, Natives, GameContinues, EventThread, EventContinues

(***************************************************************************)
(* Layer 2: the handle table.                                              *)
(***************************************************************************)

\* Every step of the extension is a step of HandleManager or leaves it alone.
LEMMA TableStep ==
    ASSUME TypeOK, UnloadOrder, Next
    PROVE  [HMNext]_hmVars
<1>1. ASSUME NEW p \in Plugins, NEW c \in Contexts, CurlNew(p, c)
      PROVE  [HMNext]_hmVars
  BY <1>1 DEF CurlNew, NativeCall, UnloadOrder, HMNext
<1>2. ASSUME NEW h \in 1..MaxInt, Close(h) PROVE [HMNext]_hmVars
  BY <1>2 DEF Close, NativeCall, FreeContext, UnloadOrder, HMNext
<1>3. ASSUME FrameDeliver PROVE [HMNext]_hmVars
  <2> DEFINE h == sourcepawn_handle[Head(done_queue)]
  <2>1. ~cleaned
    BY <1>3, DeliverCases DEF UnloadOrder
  <2>2. UNCHANGED hmVars \/ FreeHandle(h)
    BY <1>3, DeliverCases DEF FreeContext
  <2>3. ASSUME FreeHandle(h), ~IsHandle(h) PROVE UNCHANGED hmVars
    BY <2>3 DEF FreeHandle
  <2>4. ASSUME IsHandle(h) PROVE h \in 1..MaxInt
    BY <2>4, MaxIntAssumption DEF IsHandle, TypeOK, HMTypeOK
  <2> QED BY <2>1, <2>2, <2>3, <2>4 DEF HMNext
<1>4. ASSUME FinishUnload PROVE [HMNext]_hmVars
  BY <1>4 DEF FinishUnload, UnloadOrder, HMNext
<1> QED BY <1>1, <1>2, <1>3, <1>4, TableSteps

(***************************************************************************)
(* Layer 3: types.                                                         *)
(***************************************************************************)

\* The keys and values of queued settings.
LEMMA OptionTypes ==
    /\ NoOption \in Option
    /\ \A params \in GlobalIntCalls :
          /\ [key |-> params[1], value |-> params[2]] \in Option
          /\ params[1] \in OptionKeys /\ params[2] \in OptionValues
    /\ \A o \in Option : o.value \in OptionValues
  BY CallsAssumption DEF Option, NoOption, OptionKeys, OptionValues

\* The fields of the contexts and the set of plugins keep their types.
LEMMA ObjectTypesStep ==
    ASSUME TypeOK, HMInv, Next
    PROVE  ObjectTypes'
<1> USE DEF ctxVars, pluginVars
<1> ObjectTypes
  BY DEF TypeOK
<1>1. ASSUME NEW p \in Plugins, NEW c \in Contexts, CurlNew(p, c)
      PROVE  ObjectTypes'
  <2>1. NewHandleResult \in Nat /\ instance[p] \in Nat
    BY <1>1, NewHandleResultFacts, MaxIntAssumption
    DEF CurlNew, New, NewHandle, ObjectTypes
  <2> QED BY <1>1, <2>1 DEF CurlNew, ObjectTypes
<1>2. ASSUME NEW h, NEW c \in Contexts, FreeContext(h, c), UNCHANGED pluginVars
      PROVE  ObjectTypes'
  BY <1>2 DEF FreeContext, ObjectTypes
<1>3. ASSUME NEW h \in 1..MaxInt, Close(h) PROVE ObjectTypes'
  <2>1. GetCurlPointer(h) \in Contexts
    BY <1>3, ContextsAtHand DEF Close
  <2>2. CASE FreeContext(h, GetCurlPointer(h))
    BY <1>2, <1>3, <2>1, <2>2 DEF Close
  <2>3. CASE /\ handle_closed' = [handle_closed EXCEPT ![GetCurlPointer(h)] = TRUE]
             /\ UNCHANGED <<in_event_thread, sourcepawn_plugin_context,
                            sourcepawn_handle, creator, pluginVars>>
    BY <2>1, <2>3 DEF ObjectTypes
  <2> QED BY <1>3, <2>2, <2>3 DEF Close
<1>4. ASSUME NEW h \in 1..MaxInt, StartRequest(h) PROVE ObjectTypes'
  <2>1. GetCurlPointer(h) \in Contexts
    BY <1>4, ContextsAtHand DEF StartRequest, Usable
  <2> QED BY <1>4, <2>1 DEF StartRequest, OnCurlStarted, ObjectTypes
<1>5. ASSUME FrameDeliver PROVE ObjectTypes'
  <2> DEFINE c == Head(done_queue)
  <2>1. c \in Contexts /\ UNCHANGED pluginVars
    BY <1>5, DeliverCases, ContextsAtHand
  <2>2. \/ FreeContext(sourcepawn_handle[c], c)
        \/ /\ in_event_thread' = [in_event_thread EXCEPT ![c] = FALSE]
           /\ UNCHANGED <<handle_closed, sourcepawn_plugin_context,
                          sourcepawn_handle, creator>>
    BY <1>5, DeliverCases
  <2> HIDE DEF c
  <2>3. CASE FreeContext(sourcepawn_handle[c], c)
    BY <1>2, <2>1, <2>3
  <2> QED BY <2>1, <2>2, <2>3 DEF ObjectTypes
<1>6. ASSUME NEW p \in Plugins, OnPluginLoaded(p) \/ OnPluginUnloaded(p)
      PROVE  ObjectTypes'
  BY <1>6 DEF OnPluginLoaded, OnPluginUnloaded, ObjectTypes
<1>7. \/ UNCHANGED <<ctxVars, pluginVars>>
      \/ \E p \in Plugins, c \in Contexts : CurlNew(p, c)
      \/ \E h \in 1..MaxInt : Close(h)
      \/ \E h \in 1..MaxInt : StartRequest(h)
      \/ FrameDeliver
      \/ \E p \in Plugins : OnPluginLoaded(p)
      \/ \E p \in Plugins : OnPluginUnloaded(p)
  BY DEF Next, GameThread, Natives, GameContinues, EventThread, EventContinues,
     vars, objectVars,
     CurlNewFails, CurlSetGlobalInt, AddCurlJobLock, AddCurlJobPush,
     AddCurlJobUnlock, ChangeCurlSettingsLock, ChangeCurlSettingsPush,
     ChangeCurlSettingsUnlock, ChangeCurlSettingsSend, FrameCheckJobs,
     FrameSend, FrameCheckDone, FrameLock, FrameUnlock, CallbackReturn,
     SDK_OnUnload, FinishUnload, AsyncAddJobs, AsyncAddJobsLock,
     ProcessCurlJob, AsyncAddJobsUnlock, AsyncChangeCurlSettings,
     AsyncChangeCurlSettingsLock, ApplyCurlSetting,
     AsyncChangeCurlSettingsUnlock, AsyncStopLoop, EventLoopReturns,
     CurlSocketAction, TransferDone, CurlSocketActionReturns,
     CheckCompletedCurlJobs, CompletedLock, CompletedPush, CompletedUnlock,
     NoMoreMessages, Unloaded
<1> QED BY <1>1, <1>3, <1>4, <1>5, <1>6, <1>7 DEF ObjectTypes

\* The mutexes and the queues keep their types.
LEMMA QueueTypesStep ==
    ASSUME TypeOK, InHand, Next
    PROVE  QueueTypes'
<1> USE DEF jobVars, doneVars, optVars
<1> QueueTypes /\ ThreadTypes
  BY DEF TypeOK
<1>1. ASSUME AddCurlJobPush PROVE QueueTypes'
  <2>1. gctx \in Contexts
    BY <1>1 DEF AddCurlJobPush, InHand, ThreadTypes
  <2>2. job_queue' \in Seq(Contexts)
    BY <1>1, <2>1, AppendItems DEF AddCurlJobPush, JobQ!Push, QueueTypes
  <2> QED BY <1>1, <2>2 DEF AddCurlJobPush, QueueTypes
<1>2. ASSUME ChangeCurlSettingsPush PROVE QueueTypes'
  <2>1. option_queue' \in Seq(Option)
    BY <1>2, AppendItems DEF ChangeCurlSettingsPush, OptQ!Push, QueueTypes, ThreadTypes
  <2> QED BY <1>2, <2>1 DEF ChangeCurlSettingsPush, QueueTypes
<1>3. ASSUME FrameDeliver PROVE QueueTypes'
  <2>1. done_queue # << >> /\ done_queue' = Tail(done_queue)
    BY <1>3, DeliverCases
  <2>2. done_queue' \in Seq(Contexts)
    BY <2>1, TailItems DEF QueueTypes
  <2> QED BY <1>3, <2>2, DeliverCases DEF QueueTypes
<1>4. ASSUME ProcessCurlJob PROVE QueueTypes'
  <2>1. job_queue # << >>
    BY <1>4 DEF ProcessCurlJob, JobQ!Empty
  <2>2. job_queue' \in Seq(Contexts)
    BY <1>4, <2>1, TailItems DEF ProcessCurlJob, JobQ!Pop, QueueTypes
  <2> QED BY <1>4, <2>2 DEF ProcessCurlJob, QueueTypes
<1>5. ASSUME ApplyCurlSetting PROVE QueueTypes'
  <2>1. option_queue # << >>
    BY <1>5 DEF ApplyCurlSetting, OptQ!Empty
  <2>2. option_queue' \in Seq(Option)
    BY <1>5, <2>1, TailItems DEF ApplyCurlSetting, OptQ!Pop, QueueTypes
  <2> QED BY <1>5, <2>2 DEF ApplyCurlSetting, QueueTypes
<1>6. ASSUME CompletedPush PROVE QueueTypes'
  <2>1. ectx \in Contexts
    BY <1>6 DEF CompletedPush, InHand, ThreadTypes
  <2>2. done_queue' \in Seq(Contexts)
    BY <1>6, <2>1, AppendItems DEF CompletedPush, DoneQ!Push, QueueTypes
  <2> QED BY <1>6, <2>2 DEF CompletedPush, QueueTypes
<1>7. ASSUME \/ AddCurlJobLock \/ AddCurlJobUnlock \/ ChangeCurlSettingsLock
             \/ ChangeCurlSettingsUnlock \/ FrameLock \/ FrameUnlock
             \/ AsyncAddJobsLock \/ AsyncAddJobsUnlock
             \/ AsyncChangeCurlSettingsLock \/ AsyncChangeCurlSettingsUnlock
             \/ CompletedLock \/ CompletedUnlock
      PROVE  QueueTypes'
  BY <1>7 DEF AddCurlJobLock, AddCurlJobUnlock, ChangeCurlSettingsLock,
     ChangeCurlSettingsUnlock, FrameLock, FrameUnlock, AsyncAddJobsLock,
     AsyncAddJobsUnlock, AsyncChangeCurlSettingsLock,
     AsyncChangeCurlSettingsUnlock, CompletedLock, CompletedUnlock, JobQ!Lock,
     JobQ!Unlock, DoneQ!Lock, DoneQ!Unlock, OptQ!Lock, OptQ!Unlock, QueueTypes,
     Holder
<1>8. \/ UNCHANGED queueVars
      \/ AddCurlJobPush
      \/ ChangeCurlSettingsPush
      \/ FrameDeliver
      \/ ProcessCurlJob
      \/ ApplyCurlSetting
      \/ CompletedPush
      \/ AddCurlJobLock
      \/ AddCurlJobUnlock
      \/ ChangeCurlSettingsLock
      \/ ChangeCurlSettingsUnlock
      \/ FrameLock
      \/ FrameUnlock
      \/ AsyncAddJobsLock
      \/ AsyncAddJobsUnlock
      \/ AsyncChangeCurlSettingsLock
      \/ AsyncChangeCurlSettingsUnlock
      \/ CompletedLock
      \/ CompletedUnlock
  BY DEF Next, GameThread, Natives, GameContinues, EventThread, EventContinues,
     vars, queueVars,
     CurlNew, CurlNewFails, Close, StartRequest, CurlSetGlobalInt,
     ChangeCurlSettingsSend, FrameCheckJobs, FrameSend, FrameCheckDone,
     CallbackReturn, OnPluginLoaded, OnPluginUnloaded, SDK_OnUnload,
     FinishUnload, AsyncAddJobs, AsyncChangeCurlSettings, AsyncStopLoop,
     EventLoopReturns, CurlSocketAction, TransferDone,
     CurlSocketActionReturns, CheckCompletedCurlJobs, NoMoreMessages,
     Unloaded
<1>9. UNCHANGED queueVars => QueueTypes'
  BY DEF queueVars, QueueTypes
<1> QED BY <1>1, <1>2, <1>3, <1>4, <1>5, <1>6, <1>7, <1>8, <1>9

\* What libuv and libcurl hold keeps its type.
LEMMA LibraryTypesStep ==
    ASSUME TypeOK, Next
    PROVE  LibraryTypes'
<1> USE DEF asyncVars, curlVars, settingVars
<1> LibraryTypes /\ QueueTypes
  BY DEF TypeOK
<1>1. ASSUME UNCHANGED <<curlVars, settingVars>>,
             \A x \in {async_add, async_settings, async_stop, stop_flag}' : x \in BOOLEAN
      PROVE  LibraryTypes'
  BY <1>1 DEF LibraryTypes
<1>2. ASSUME \/ FrameSend \/ ChangeCurlSettingsSend \/ SDK_OnUnload
             \/ AsyncAddJobs \/ AsyncChangeCurlSettings \/ AsyncStopLoop
      PROVE  LibraryTypes'
  <2>1. UNCHANGED <<curlVars, settingVars>>
    BY <1>2 DEF FrameSend, ChangeCurlSettingsSend, SDK_OnUnload, AsyncAddJobs,
       AsyncChangeCurlSettings, AsyncStopLoop
  <2>2. /\ async_add' \in {async_add, TRUE, FALSE}
        /\ async_settings' \in {async_settings, TRUE, FALSE}
        /\ async_stop' \in {async_stop, TRUE, FALSE}
        /\ stop_flag' \in {stop_flag, TRUE}
    BY <1>2, Zenon DEF FrameSend, ChangeCurlSettingsSend, SDK_OnUnload, AsyncAddJobs,
       AsyncChangeCurlSettings, AsyncStopLoop
  <2>3. /\ async_add \in BOOLEAN /\ async_settings \in BOOLEAN
        /\ async_stop \in BOOLEAN /\ stop_flag \in BOOLEAN
    BY Zenon DEF LibraryTypes
  <2>4. /\ async_add' \in BOOLEAN /\ async_settings' \in BOOLEAN
        /\ async_stop' \in BOOLEAN /\ stop_flag' \in BOOLEAN
    BY <2>2, <2>3, Zenon
  <2> QED BY <1>1, <2>1, <2>4
<1>3. ASSUME NEW params \in GlobalIntCalls, CurlSetGlobalInt(params)
      PROVE  LibraryTypes'
  BY <1>3, OptionTypes DEF CurlSetGlobalInt, LibraryTypes
<1>4. ASSUME FinishUnload PROVE LibraryTypes'
  BY <1>4 DEF FinishUnload, LibraryTypes
<1>5. ASSUME ProcessCurlJob PROVE LibraryTypes'
  <2>1. JobQ!Front \in Contexts
    BY <1>5, ContextsAtHand DEF ProcessCurlJob, JobQ!Empty, JobQ!Front
  <2>2. multi' \in SUBSET Contexts
    BY <1>5, <2>1 DEF ProcessCurlJob, LibraryTypes
  <2>3. UNCHANGED <<asyncVars, msgs, settingVars>>
    BY <1>5 DEF ProcessCurlJob
  <2> QED BY <2>2, <2>3 DEF LibraryTypes
<1>6. ASSUME ApplyCurlSetting PROVE LibraryTypes'
  <2>1. option_queue # << >>
    BY <1>6 DEF ApplyCurlSetting, OptQ!Empty
  <2>2. Head(option_queue) \in Option
    BY <2>1, TailItems DEF QueueTypes
  <2>3. multi_options' \in [OptionKeys -> OptionValues]
    BY <1>6, <2>2, OptionTypes DEF ApplyCurlSetting, OptQ!Front, LibraryTypes
  <2> QED BY <1>6, <2>3 DEF ApplyCurlSetting, LibraryTypes
<1>7. ASSUME NEW c \in Contexts, TransferDone(c) PROVE LibraryTypes'
  BY <1>7, AppendItems DEF TransferDone, LibraryTypes
<1>8. ASSUME CheckCompletedCurlJobs PROVE LibraryTypes'
  <2>1. msgs' \in Seq(Contexts) /\ multi' \in SUBSET Contexts
    BY <1>8, TailItems DEF CheckCompletedCurlJobs, LibraryTypes
  <2>2. UNCHANGED <<asyncVars, settingVars>>
    BY <1>8 DEF CheckCompletedCurlJobs
  <2> QED BY <2>1, <2>2 DEF LibraryTypes
<1>9. \/ UNCHANGED libVars
      \/ FrameSend
      \/ ChangeCurlSettingsSend
      \/ SDK_OnUnload
      \/ AsyncAddJobs
      \/ AsyncChangeCurlSettings
      \/ AsyncStopLoop
      \/ \E params \in GlobalIntCalls : CurlSetGlobalInt(params)
      \/ FinishUnload
      \/ ProcessCurlJob
      \/ ApplyCurlSetting
      \/ \E c \in Contexts : TransferDone(c)
      \/ CheckCompletedCurlJobs
      \/ FrameDeliver
  BY DEF Next, GameThread, Natives, GameContinues, EventThread, EventContinues,
     vars, libVars,
     CurlNew, CurlNewFails, Close, StartRequest, AddCurlJobLock,
     AddCurlJobPush, AddCurlJobUnlock, ChangeCurlSettingsLock,
     ChangeCurlSettingsPush, ChangeCurlSettingsUnlock, FrameCheckJobs,
     FrameCheckDone, FrameLock, FrameUnlock, CallbackReturn, OnPluginLoaded,
     OnPluginUnloaded, AsyncAddJobsLock, AsyncAddJobsUnlock,
     AsyncChangeCurlSettingsLock, AsyncChangeCurlSettingsUnlock,
     EventLoopReturns, CurlSocketAction, CurlSocketActionReturns,
     CompletedLock, CompletedPush, CompletedUnlock, NoMoreMessages, Unloaded
<1>10. UNCHANGED libVars => LibraryTypes'
  BY DEF libVars, LibraryTypes
<1>11. FrameDeliver => UNCHANGED libVars
  BY DeliverCases
<1> QED BY <1>2, <1>3, <1>4, <1>5, <1>6, <1>7, <1>8, <1>9, <1>10, <1>11

\* The places of the two threads and what they have in hand keep their types.
LEMMA ThreadTypesStep ==
    ASSUME TypeOK, Next
    PROVE  ThreadTypes'
<1> USE DEF gameVars, gameLocals, eventVars
<1> ThreadTypes
  BY DEF TypeOK
<1>1. ASSUME NEW h \in 1..MaxInt, StartRequest(h) PROVE ThreadTypes'
  <2>1. GetCurlPointer(h) \in Contexts
    BY <1>1, ContextsAtHand DEF StartRequest, Usable
  <2> QED BY <1>1, <2>1 DEF StartRequest, NativeCall, ThreadTypes, GamePC
<1>2. ASSUME NEW params \in GlobalIntCalls, CurlSetGlobalInt(params)
      PROVE  ThreadTypes'
  BY <1>2, OptionTypes DEF CurlSetGlobalInt, NativeCall, ThreadTypes, GamePC
<1>3. ASSUME FrameDeliver PROVE ThreadTypes'
  <2>1. Head(done_queue) \in Contexts
    BY <1>3, DeliverCases, ContextsAtHand
  <2>2. UNCHANGED <<gpc, gthis>> \/ (gpc' = "callback" /\ gthis' = Head(done_queue))
    BY <1>3, DeliverCases
  <2>3. UNCHANGED <<gret, gctx, gopt, eventVars>>
    BY <1>3, DeliverCases
  <2> QED BY <2>1, <2>2, <2>3 DEF ThreadTypes, GamePC
<1>4. ASSUME CheckCompletedCurlJobs PROVE ThreadTypes'
  BY <1>4, ContextsAtHand DEF CheckCompletedCurlJobs, ThreadTypes, EventPC
<1>5. ASSUME \/ AddCurlJobLock \/ AddCurlJobPush \/ AddCurlJobUnlock
             \/ ChangeCurlSettingsLock \/ ChangeCurlSettingsPush
             \/ ChangeCurlSettingsUnlock \/ ChangeCurlSettingsSend
             \/ FrameCheckJobs \/ FrameSend \/ FrameCheckDone \/ FrameLock
             \/ FrameUnlock \/ CallbackReturn \/ SDK_OnUnload \/ FinishUnload
      PROVE  ThreadTypes'
  BY <1>5, OptionTypes DEF ThreadTypes, GamePC,
     AddCurlJobLock, AddCurlJobPush, AddCurlJobUnlock,
     ChangeCurlSettingsLock, ChangeCurlSettingsPush,
     ChangeCurlSettingsUnlock, ChangeCurlSettingsSend, FrameCheckJobs,
     FrameSend, FrameCheckDone, FrameLock, FrameUnlock, CallbackReturn,
     SDK_OnUnload, FinishUnload
<1>6. ASSUME \/ AsyncAddJobs \/ AsyncAddJobsLock \/ AsyncAddJobsUnlock
             \/ AsyncChangeCurlSettings \/ AsyncChangeCurlSettingsLock
             \/ AsyncChangeCurlSettingsUnlock \/ EventLoopReturns
             \/ CurlSocketAction \/ CurlSocketActionReturns \/ CompletedLock
             \/ CompletedPush \/ CompletedUnlock \/ NoMoreMessages
      PROVE  ThreadTypes'
  BY <1>6 DEF ThreadTypes, EventPC,
     AsyncAddJobs, AsyncAddJobsLock, AsyncAddJobsUnlock,
     AsyncChangeCurlSettings, AsyncChangeCurlSettingsLock,
     AsyncChangeCurlSettingsUnlock, EventLoopReturns, CurlSocketAction,
     CurlSocketActionReturns, CompletedLock, CompletedPush, CompletedUnlock,
     NoMoreMessages
<1>7. \/ UNCHANGED <<gameVars, eventVars>>
      \/ \E h \in 1..MaxInt : StartRequest(h)
      \/ \E params \in GlobalIntCalls : CurlSetGlobalInt(params)
      \/ FrameDeliver
      \/ CheckCompletedCurlJobs
      \/ AddCurlJobLock
      \/ AddCurlJobPush
      \/ AddCurlJobUnlock
      \/ ChangeCurlSettingsLock
      \/ ChangeCurlSettingsPush
      \/ ChangeCurlSettingsUnlock
      \/ ChangeCurlSettingsSend
      \/ FrameCheckJobs
      \/ FrameSend
      \/ FrameCheckDone
      \/ FrameLock
      \/ FrameUnlock
      \/ CallbackReturn
      \/ SDK_OnUnload
      \/ FinishUnload
      \/ AsyncAddJobs
      \/ AsyncAddJobsLock
      \/ AsyncAddJobsUnlock
      \/ AsyncChangeCurlSettings
      \/ AsyncChangeCurlSettingsLock
      \/ AsyncChangeCurlSettingsUnlock
      \/ EventLoopReturns
      \/ CurlSocketAction
      \/ CurlSocketActionReturns
      \/ CompletedLock
      \/ CompletedPush
      \/ CompletedUnlock
      \/ NoMoreMessages
  BY DEF Next, GameThread, Natives, GameContinues, EventThread, EventContinues,
     vars,
     CurlNew, CurlNewFails, Close, OnPluginLoaded, OnPluginUnloaded,
     ProcessCurlJob, ApplyCurlSetting, AsyncStopLoop, TransferDone, Unloaded
<1>8. UNCHANGED <<gameVars, eventVars>> => ThreadTypes'
  BY DEF ThreadTypes
<1> QED BY <1>1, <1>2, <1>3, <1>4, <1>5, <1>6, <1>7, <1>8

(***************************************************************************)
(* Layer 4: custody.                                                       *)
(***************************************************************************)

\* Places(c), without the names of the places.
Somewhere(c) ==
    \/ gctx = c \/ c \in Range(job_queue) \/ c \in multi \/ ectx = c
    \/ c \in Range(done_queue)

NotTwice(c) ==
    /\ gctx = c => /\ c \notin Range(job_queue) /\ c \notin multi /\ ectx # c
                   /\ c \notin Range(done_queue)
    /\ c \in Range(job_queue) => c \notin multi /\ ectx # c /\ c \notin Range(done_queue)
    /\ c \in multi => ectx # c /\ c \notin Range(done_queue)
    /\ ectx = c => c \notin Range(done_queue)

\* Places, spelled out: where a context is, and that it is in one place only.
LEMMA PlacesFacts ==
    ASSUME NEW c
    PROVE  /\ Places(c) # {} <=> Somewhere(c)
           /\ (\A x, y \in Places(c) : x = y) <=> NotTwice(c)
<1> DEFINE P == Places(c)
<1>1. /\ "AddCurlJob" \in P <=> gctx = c
      /\ "job_queue" \in P <=> c \in Range(job_queue)
      /\ "multi" \in P <=> c \in multi
      /\ "CheckCompleted" \in P <=> ectx = c
      /\ "done_queue" \in P <=> c \in Range(done_queue)
      /\ P \subseteq {"AddCurlJob", "job_queue", "multi", "CheckCompleted", "done_queue"}
  <2>1. "AddCurlJob" \in P <=> gctx = c
    BY DEF Places, JobQ!Members, DoneQ!Members, JobQ!Range, DoneQ!Range, Range
  <2>2. "job_queue" \in P <=> c \in Range(job_queue)
    BY DEF Places, JobQ!Members, DoneQ!Members, JobQ!Range, DoneQ!Range, Range
  <2>3. "multi" \in P <=> c \in multi
    BY DEF Places, JobQ!Members, DoneQ!Members, JobQ!Range, DoneQ!Range, Range
  <2>4. "CheckCompleted" \in P <=> ectx = c
    BY DEF Places, JobQ!Members, DoneQ!Members, JobQ!Range, DoneQ!Range, Range
  <2>5. "done_queue" \in P <=> c \in Range(done_queue)
    BY DEF Places, JobQ!Members, DoneQ!Members, JobQ!Range, DoneQ!Range, Range
  <2>6. P \subseteq {"AddCurlJob", "job_queue", "multi", "CheckCompleted", "done_queue"}
    BY DEF Places
  <2> HIDE DEF P
  <2> QED BY <2>1, <2>2, <2>3, <2>4, <2>5, <2>6
<1> HIDE DEF P
<1>2. P # {} <=> Somewhere(c)
  BY <1>1 DEF Somewhere
<1>3. (\A x, y \in P : x = y) <=> NotTwice(c)
  BY <1>1 DEF NotTwice
<1> QED BY <1>2, <1>3 DEF P

\* The same of the next state.
LEMMA PlacesFactsPrime ==
    ASSUME NEW c
    PROVE  /\ Places(c)' # {} <=> Somewhere(c)'
           /\ (\A x, y \in Places(c)' : x = y) <=> NotTwice(c)'
<1> DEFINE P == Places(c)'
<1>1. /\ "AddCurlJob" \in P <=> gctx' = c
      /\ "job_queue" \in P <=> c \in Range(job_queue')
      /\ "multi" \in P <=> c \in multi'
      /\ "CheckCompleted" \in P <=> ectx' = c
      /\ "done_queue" \in P <=> c \in Range(done_queue')
      /\ P \subseteq {"AddCurlJob", "job_queue", "multi", "CheckCompleted", "done_queue"}
  <2>1. "AddCurlJob" \in P <=> gctx' = c
    BY DEF Places, JobQ!Members, DoneQ!Members, JobQ!Range, DoneQ!Range, Range
  <2>2. "job_queue" \in P <=> c \in Range(job_queue')
    BY DEF Places, JobQ!Members, DoneQ!Members, JobQ!Range, DoneQ!Range, Range
  <2>3. "multi" \in P <=> c \in multi'
    BY DEF Places, JobQ!Members, DoneQ!Members, JobQ!Range, DoneQ!Range, Range
  <2>4. "CheckCompleted" \in P <=> ectx' = c
    BY DEF Places, JobQ!Members, DoneQ!Members, JobQ!Range, DoneQ!Range, Range
  <2>5. "done_queue" \in P <=> c \in Range(done_queue')
    BY DEF Places, JobQ!Members, DoneQ!Members, JobQ!Range, DoneQ!Range, Range
  <2>6. P \subseteq {"AddCurlJob", "job_queue", "multi", "CheckCompleted", "done_queue"}
    BY DEF Places
  <2> HIDE DEF P
  <2> QED BY <2>1, <2>2, <2>3, <2>4, <2>5, <2>6
<1> HIDE DEF P
<1>2. P # {} <=> Somewhere(c)'
  BY <1>1 DEF Somewhere
<1>3. (\A x, y \in P : x = y) <=> NotTwice(c)'
  BY <1>1 DEF NotTwice
<1> QED BY <1>2, <1>3 DEF P

\* The four parts of Inv about contexts, in these terms.
ContextInv ==
    /\ \A c \in heap : /\ sourcepawn_handle[c] \in DOMAIN used_handles
                       /\ used_handles[sourcepawn_handle[c]] = c
    /\ ~cleaned => \A c \in Contexts : Somewhere(c) => c \in heap /\ in_event_thread[c]
    /\ \A c \in Contexts : NotTwice(c)
    /\ IsInjective(job_queue) /\ IsInjective(done_queue) /\ IsInjective(msgs)
    /\ Range(msgs) \subseteq multi
    /\ \A c \in heap : handle_closed[c] => in_event_thread[c]

\* ContextInv is what Inv says of the contexts, with Places spelled out.
LEMMA ContextInvIs ==
    /\ ContextInv <=> HandleNamesItself /\ Custody /\ InOnePlace /\ ClosedIsInFlight
    /\ ContextInv' <=> (HandleNamesItself /\ Custody /\ InOnePlace /\ ClosedIsInFlight)'
<1>1. ContextInv <=> (HandleNamesItself /\ Custody /\ InOnePlace /\ ClosedIsInFlight)
  <2>1. Custody <=> (~cleaned =>
           \A c \in Contexts : Somewhere(c) => c \in heap /\ in_event_thread[c])
    BY PlacesFacts DEF Custody
  <2>2. InOnePlace <=> (/\ \A c \in Contexts : NotTwice(c)
                        /\ IsInjective(job_queue) /\ IsInjective(done_queue)
                        /\ IsInjective(msgs) /\ Range(msgs) \subseteq multi)
    BY PlacesFacts 
    DEF InOnePlace, JobQ!Distinct, DoneQ!Distinct, JobQ!IsInjective,
        DoneQ!IsInjective, IsInjective
  <2>3. HandleNamesItself <=>
           (\A c \in heap : /\ sourcepawn_handle[c] \in DOMAIN used_handles
                            /\ used_handles[sourcepawn_handle[c]] = c)
    BY DEF HandleNamesItself, IsHandle, GetCurlPointer
  <2> QED BY <2>1, <2>2, <2>3 DEF ContextInv, ClosedIsInFlight
<1>2. ContextInv' <=> (HandleNamesItself /\ Custody /\ InOnePlace /\ ClosedIsInFlight)'
  <2>1. Custody' <=> (~cleaned =>
           \A c \in Contexts : Somewhere(c) => c \in heap /\ in_event_thread[c])'
    BY PlacesFactsPrime DEF Custody
  <2>2. InOnePlace' <=> (/\ \A c \in Contexts : NotTwice(c)
                        /\ IsInjective(job_queue) /\ IsInjective(done_queue)
                        /\ IsInjective(msgs) /\ Range(msgs) \subseteq multi)'
    BY PlacesFactsPrime 
    DEF InOnePlace, JobQ!Distinct, DoneQ!Distinct, JobQ!IsInjective,
        DoneQ!IsInjective, IsInjective
  <2>3. HandleNamesItself' <=>
           (\A c \in heap : /\ sourcepawn_handle[c] \in DOMAIN used_handles
                            /\ used_handles[sourcepawn_handle[c]] = c)'
    BY DEF HandleNamesItself, IsHandle, GetCurlPointer
  <2> QED BY <2>1, <2>2, <2>3 DEF ContextInv, ClosedIsInFlight
<1> QED BY <1>1, <1>2

\* CurlNew: the new context is nowhere, and the number it gets nobody else has.
LEMMA NewContext ==
    ASSUME TypeOK, HMInv, Control, ContextInv,
           NEW p \in Plugins, NEW c \in Contexts, CurlNew(p, c)
    PROVE  ContextInv'
<1> DEFINE h == NewHandleResult
<1>1. ~cleaned /\ c \notin heap /\ cleaned' = cleaned /\ heap' = heap \cup {c}
  BY DEF CurlNew, NativeCall, New, NewHandle, Control, UnloadOrder
<1>2. h \notin DOMAIN used_handles /\ used_handles' = Insert(used_handles, h, c)
  BY NewHandleResultFacts DEF CurlNew, New, NewHandle
<1>3. /\ DOMAIN used_handles' = DOMAIN used_handles \cup {h}
      /\ used_handles'[h] = c
      /\ \A k \in DOMAIN used_handles : used_handles'[k] = used_handles[k]
  BY <1>2 DEF Insert
<1>4. /\ sourcepawn_handle'[c] = h /\ ~in_event_thread'[c] /\ ~handle_closed'[c]
      /\ \A d \in Contexts \ {c} : /\ sourcepawn_handle'[d] = sourcepawn_handle[d]
                                   /\ in_event_thread'[d] = in_event_thread[d]
                                   /\ handle_closed'[d] = handle_closed[d]
  BY DEF CurlNew, TypeOK, ObjectTypes
<1>5. UNCHANGED <<gctx, job_queue, multi, msgs, ectx, done_queue>>
  BY DEF CurlNew, queueVars, jobVars, doneVars, libVars, curlVars, gameVars, eventVars
<1> HIDE DEF h
<1>6. heap \subseteq Contexts
  BY DEF TypeOK, HMTypeOK
<1>7. \A d \in heap' : /\ sourcepawn_handle'[d] \in DOMAIN used_handles'
                       /\ used_handles'[sourcepawn_handle'[d]] = d
  BY <1>1, <1>3, <1>4, <1>6 DEF ContextInv
<1>8. \A d \in Contexts : Somewhere(d)' => d \in heap' /\ in_event_thread'[d]
  BY <1>1, <1>4, <1>5 DEF ContextInv, Somewhere
<1>9. \A d \in heap' : handle_closed'[d] => in_event_thread'[d]
  BY <1>1, <1>4, <1>6 DEF ContextInv
<1> QED BY <1>5, <1>7, <1>8, <1>9 DEF ContextInv, NotTwice

\* Deleting a context that is nowhere (after the step) by its own number.
LEMMA FreedContext ==
    ASSUME TypeOK, HMInv, ContextInv, ~cleaned, NEW h, NEW c \in heap,
           h \in DOMAIN used_handles, used_handles[h] = c, FreeContext(h, c),
           ~Somewhere(c)', \A d \in Contexts : Somewhere(d)' => Somewhere(d)
    PROVE  /\ cleaned' = cleaned
           /\ \A d \in heap' : /\ sourcepawn_handle'[d] \in DOMAIN used_handles'
                               /\ used_handles'[sourcepawn_handle'[d]] = d
           /\ \A d \in Contexts : Somewhere(d)' => d \in heap' /\ in_event_thread'[d]
           /\ \A d \in heap' : handle_closed'[d] => in_event_thread'[d]
<1>1. /\ heap' = heap \ {c} /\ used_handles' = Erase(used_handles, h)
      /\ cleaned' = cleaned
  BY DEF FreeContext, FreeHandle, IsHandle, GetCurlPointer
<1>2. /\ DOMAIN used_handles' = DOMAIN used_handles \ {h}
      /\ \A k \in DOMAIN used_handles \ {h} : used_handles'[k] = used_handles[k]
  BY <1>1 DEF Erase
<1>3. \A d \in Contexts \ {c} : /\ sourcepawn_handle'[d] = sourcepawn_handle[d]
                                /\ in_event_thread'[d] = in_event_thread[d]
                                /\ handle_closed'[d] = handle_closed[d]
  BY DEF FreeContext, TypeOK, ObjectTypes
<1>4. heap \subseteq Contexts
  BY DEF TypeOK, HMTypeOK
<1> QED BY <1>1, <1>2, <1>3, <1>4 DEF ContextInv

\* Close: a claimed context is only marked; one that is not claimed is nowhere.
LEMMA ClosedContext ==
    ASSUME TypeOK, HMInv, Control, ContextInv, NEW h \in 1..MaxInt, Close(h)
    PROVE  ContextInv'
<1> DEFINE c == GetCurlPointer(h)
<1>1. ~cleaned /\ h \in DOMAIN used_handles /\ used_handles[h] = c
  BY DEF Close, NativeCall, IsHandle, GetCurlPointer, Control, UnloadOrder
<1>2. c \in heap /\ c \in Contexts
  BY <1>1, ContextsAtHand DEF IsHandle, HMInv, TableOwnsHeap, Pointers, Range
<1>3. UNCHANGED <<gctx, job_queue, multi, msgs, ectx, done_queue>>
  BY DEF Close, queueVars, jobVars, doneVars, libVars, curlVars, gameVars, eventVars
<1>4. \A d : (Somewhere(d)' <=> Somewhere(d)) /\ (NotTwice(d)' <=> NotTwice(d))
  BY <1>3 DEF Somewhere, NotTwice
<1>5. CASE in_event_thread[c]
  <2>1. /\ handle_closed' = [handle_closed EXCEPT ![c] = TRUE]
        /\ UNCHANGED <<hmVars, in_event_thread, sourcepawn_handle>>
    BY <1>5 DEF Close
  <2>2. \A d \in Contexts \ {c} : handle_closed'[d] = handle_closed[d]
    BY <2>1 DEF TypeOK, ObjectTypes
  <2>3. \A d \in heap' : handle_closed'[d] => in_event_thread'[d]
    BY <1>5, <2>1, <2>2 DEF ContextInv, TypeOK, HMTypeOK, hmVars
  <2> HIDE DEF c
  <2> QED BY <1>3, <1>4, <2>1, <2>3 DEF ContextInv, hmVars
<1>6. CASE ~in_event_thread[c]
  <2>1. FreeContext(h, c)
    BY <1>6 DEF Close
  <2>2. ~Somewhere(c)
    BY <1>1, <1>2, <1>6 DEF ContextInv
  <2> HIDE DEF c
  <2> QED BY <1>1, <1>2, <1>3, <1>4, <2>1, <2>2, FreedContext DEF ContextInv
<1> QED BY <1>5, <1>6

\* StartRequest: only a context that is nowhere is claimed and taken in hand.
LEMMA StartedContext ==
    ASSUME TypeOK, HMInv, Control, ContextInv, NEW h \in 1..MaxInt, StartRequest(h)
    PROVE  ContextInv'
<1> DEFINE c == GetCurlPointer(h)
<1>1. /\ ~cleaned /\ h \in DOMAIN used_handles /\ used_handles[h] = c
      /\ ~in_event_thread[c] /\ gctx = NoContext
  BY DEF StartRequest, NativeCall, Usable, IsHandle, GetCurlPointer, Control,
         UnloadOrder, InHand
<1>2. c \in heap /\ c \in Contexts
  BY <1>1, ContextsAtHand DEF IsHandle, HMInv, TableOwnsHeap, Pointers, Range
<1>3. ~Somewhere(c)
  BY <1>1, <1>2 DEF ContextInv
<1>4. /\ gctx' = c /\ in_event_thread' = [in_event_thread EXCEPT ![c] = TRUE]
      /\ UNCHANGED <<hmVars, handle_closed, sourcepawn_handle, job_queue, multi,
                     msgs, ectx, done_queue>>
  BY DEF StartRequest, OnCurlStarted, queueVars, jobVars, doneVars, libVars,
         curlVars, eventVars
<1> HIDE DEF c
<1>5. /\ in_event_thread'[c]
      /\ \A d \in Contexts \ {c} : in_event_thread'[d] = in_event_thread[d]
  BY <1>2, <1>4 DEF TypeOK, ObjectTypes
<1>6. \A d \in Contexts : Somewhere(d)' => Somewhere(d) \/ d = c
  BY <1>4 DEF Somewhere
<1>7. \A d \in Contexts : NotTwice(d)'
  BY <1>1, <1>3, <1>4, NoContextAssumption DEF ContextInv, NotTwice, Somewhere
<1>8. \A d \in Contexts : Somewhere(d)' => d \in heap' /\ in_event_thread'[d]
  BY <1>1, <1>2, <1>4, <1>5, <1>6 DEF ContextInv, hmVars
<1>9. \A d \in heap' : handle_closed'[d] => in_event_thread'[d]
  BY <1>4, <1>5 DEF ContextInv, hmVars, TypeOK, HMTypeOK
<1> QED BY <1>4, <1>7, <1>8, <1>9 DEF ContextInv, hmVars

\* FrameDeliver: the context it pops was only in the done queue; it is released
\* to the plugin, or deleted by its own number.
LEMMA DeliveredContext ==
    ASSUME TypeOK, HMInv, Control, ContextInv, FrameDeliver
    PROVE  ContextInv'
<1>0. PICK c : c = Head(done_queue)
  OBVIOUS
<1>1. ~cleaned /\ done_queue # << >> /\ done_queue' = Tail(done_queue)
  BY DeliverCases DEF Control, UnloadOrder
<1>2. UNCHANGED <<gctx, job_queue, multi, msgs, ectx>>
  BY DeliverCases DEF jobVars, libVars, curlVars, eventVars
<1>3. /\ c \in Contexts /\ c \in Range(done_queue)
      /\ IsInjective(done_queue') /\ Range(done_queue') = Range(done_queue) \ {c}
  BY <1>0, <1>1, TailItems DEF TypeOK, QueueTypes, ContextInv
<1>4. c \in heap /\ sourcepawn_handle[c] \in DOMAIN used_handles
  BY <1>1, <1>3 DEF ContextInv, Somewhere
<1>5. ~Somewhere(c)'
  BY <1>2, <1>3 DEF ContextInv, Somewhere, NotTwice
<1>6. \A d \in Contexts : (Somewhere(d)' => Somewhere(d)) /\ NotTwice(d)'
  <2> SUFFICES ASSUME NEW d \in Contexts
               PROVE  (Somewhere(d)' => Somewhere(d)) /\ NotTwice(d)'
    OBVIOUS
  <2>1. NotTwice(d) /\ (d \in Range(done_queue') => d \in Range(done_queue))
    BY <1>3 DEF ContextInv
  <2> QED BY <1>2, <2>1 DEF Somewhere, NotTwice
<1>7. CASE FreeContext(sourcepawn_handle[c], c)
  <2>1. used_handles[sourcepawn_handle[c]] = c
    BY <1>4 DEF ContextInv
  <2>2. /\ \A d \in heap' : /\ sourcepawn_handle'[d] \in DOMAIN used_handles'
                            /\ used_handles'[sourcepawn_handle'[d]] = d
        /\ \A d \in Contexts : Somewhere(d)' => d \in heap' /\ in_event_thread'[d]
        /\ \A d \in heap' : handle_closed'[d] => in_event_thread'[d]
    BY <1>1, <1>4, <1>5, <1>6, <1>7, <2>1, FreedContext
  <2> QED BY <1>2, <1>3, <1>6, <2>2 DEF ContextInv
<1>8. CASE /\ ~handle_closed[c]
           /\ in_event_thread' = [in_event_thread EXCEPT ![c] = FALSE]
           /\ UNCHANGED <<hmVars, handle_closed, sourcepawn_handle>>
  <2>1. \A d \in Contexts \ {c} : in_event_thread'[d] = in_event_thread[d]
    BY <1>8 DEF TypeOK, ObjectTypes
  <2>2. \A d \in Contexts : Somewhere(d)' => d \in heap' /\ in_event_thread'[d]
    <3> SUFFICES ASSUME NEW d \in Contexts, Somewhere(d)'
                 PROVE  d \in heap' /\ in_event_thread'[d]
      OBVIOUS
    <3>1. d # c /\ Somewhere(d)
      BY <1>5, <1>6
    <3>2. d \in heap /\ in_event_thread[d]
      BY <1>1, <3>1 DEF ContextInv
    <3> QED BY <1>8, <2>1, <3>1, <3>2 DEF hmVars
  <2>3. \A d \in heap' : handle_closed'[d] => in_event_thread'[d]
    BY <1>8, <2>1 DEF ContextInv, hmVars, TypeOK, HMTypeOK
  <2> QED BY <1>2, <1>3, <1>6, <1>8, <2>2, <2>3 DEF ContextInv, hmVars
<1> QED BY <1>0, <1>7, <1>8, DeliverCases

\* FinishUnload: nothing is left that could dangle, and no message is unread.
LEMMA UnloadedContexts ==
    ASSUME TypeOK, HMInv, Control, ContextInv, FinishUnload
    PROVE  ContextInv'
<1>1. cleaned' /\ heap' = heap \ Pointers /\ multi' = multi \ Pointers
  BY DEF FinishUnload, CleanHandles
<1>2. heap' = {}
  BY <1>1 DEF FinishUnload, Control, UnloadOrder, HMInv, TableOwnsHeap
<1>3. UNCHANGED <<gctx, job_queue, msgs, ectx, done_queue>>
  BY DEF FinishUnload, queueVars, jobVars, doneVars, gameLocals, eventVars
<1>4. msgs = << >>
  BY DEF FinishUnload, Control, MessagesRead
<1>5. Range(msgs') = {}
  BY <1>3, <1>4 DEF Range
<1>6. \A d \in Contexts : NotTwice(d)'
  BY <1>1, <1>3 DEF ContextInv, NotTwice
<1> QED BY <1>1, <1>2, <1>3, <1>5, <1>6 DEF ContextInv

\* A context moves from one place to the next: from AddCurlJob's hand into the
\* job queue, ...
LEMMA PushedJob ==
    ASSUME TypeOK, Control, ContextInv, AddCurlJobPush
    PROVE  ContextInv'
<1>1. /\ gctx \in Contexts /\ gctx' = NoContext
      /\ job_queue' = Append(job_queue, gctx)
      /\ UNCHANGED <<hmVars, in_event_thread, handle_closed, sourcepawn_handle,
                     multi, msgs, ectx, done_queue>>
  BY DEF AddCurlJobPush, JobQ!Push, Control, InHand, TypeOK, ThreadTypes, objectVars,
         ctxVars, doneVars, libVars, curlVars, eventVars
<1>2. gctx \notin Range(job_queue)
  BY <1>1 DEF ContextInv, NotTwice
<1>3. IsInjective(job_queue') /\ Range(job_queue') = Range(job_queue) \cup {gctx}
  BY <1>1, <1>2, AppendItems DEF TypeOK, QueueTypes, ContextInv
<1>4. \A d \in Contexts : (Somewhere(d)' => Somewhere(d)) /\ NotTwice(d)'
  BY <1>1, <1>3, NoContextAssumption DEF ContextInv, Somewhere, NotTwice
<1> QED BY <1>1, <1>3, <1>4 DEF ContextInv, hmVars

\* ... from there into the multi handle (or, when curl refuses it, nowhere), ...
LEMMA ProcessedJob ==
    ASSUME TypeOK, ContextInv, ProcessCurlJob
    PROVE  ContextInv'
<1> DEFINE c == Head(job_queue)
<1>1. /\ job_queue # << >> /\ job_queue' = Tail(job_queue)
      /\ multi' = multi \cup {c} \/ multi' = multi
      /\ UNCHANGED <<hmVars, in_event_thread, handle_closed, sourcepawn_handle,
                     gctx, msgs, ectx, done_queue>>
  BY DEF ProcessCurlJob, JobQ!Empty, JobQ!Pop, JobQ!Front, objectVars, ctxVars,
         doneVars, gameVars, eventVars
<1>2. /\ c \in Range(job_queue) /\ IsInjective(job_queue')
      /\ Range(job_queue') = Range(job_queue) \ {c}
  BY <1>1, TailItems DEF TypeOK, QueueTypes, ContextInv
<1> HIDE DEF c
<1>3. \A d \in Contexts : (Somewhere(d)' => Somewhere(d)) /\ NotTwice(d)'
  BY <1>1, <1>2 DEF ContextInv, Somewhere, NotTwice
<1> QED BY <1>1, <1>2, <1>3 DEF ContextInv, hmVars

\* ... whose transfers give one message each, ...
LEMMA DoneTransfer ==
    ASSUME TypeOK, ContextInv, NEW c \in Contexts, TransferDone(c)
    PROVE  ContextInv'
<1>1. /\ c \in multi /\ c \notin Range(msgs) /\ msgs' = Append(msgs, c)
      /\ UNCHANGED <<hmVars, in_event_thread, handle_closed, sourcepawn_handle,
                     gctx, job_queue, multi, ectx, done_queue>>
  BY DEF TransferDone, objectVars, ctxVars, queueVars, jobVars, doneVars, gameVars,
         eventVars
<1>2. IsInjective(msgs') /\ Range(msgs') = Range(msgs) \cup {c}
  BY <1>1, AppendItems DEF TypeOK, LibraryTypes, ContextInv
<1>3. \A d \in Contexts : (Somewhere(d)' => Somewhere(d)) /\ NotTwice(d)'
  BY <1>1 DEF ContextInv, Somewhere, NotTwice
<1> QED BY <1>1, <1>2, <1>3 DEF ContextInv, hmVars

\* ... from the multi handle into CheckCompletedCurlJobs' hand, ...
LEMMA CompletedJob ==
    ASSUME TypeOK, Control, ContextInv, CheckCompletedCurlJobs
    PROVE  ContextInv'
<1> DEFINE c == Head(msgs)
<1>1. /\ msgs # << >> /\ msgs' = Tail(msgs) /\ multi' = multi \ {c} /\ ectx' = c
      /\ ectx = NoContext
      /\ UNCHANGED <<hmVars, in_event_thread, handle_closed, sourcepawn_handle,
                     gctx, job_queue, done_queue>>
  BY DEF CheckCompletedCurlJobs, Control, InHand, objectVars, ctxVars, queueVars,
         jobVars, doneVars, gameVars
<1>2. /\ c \in Range(msgs) /\ IsInjective(msgs') /\ Range(msgs') = Range(msgs) \ {c}
  BY <1>1, TailItems DEF TypeOK, LibraryTypes, ContextInv
<1>3. c \in multi /\ Range(msgs') \subseteq multi'
  BY <1>1, <1>2 DEF ContextInv
<1> HIDE DEF c
<1>4. \A d \in Contexts : (Somewhere(d)' => Somewhere(d)) /\ NotTwice(d)'
  BY <1>1, <1>3 DEF ContextInv, Somewhere, NotTwice
<1> QED BY <1>1, <1>2, <1>3, <1>4 DEF ContextInv, hmVars

\* ... and from there into the done queue.
LEMMA PushedDone ==
    ASSUME TypeOK, Control, ContextInv, CompletedPush
    PROVE  ContextInv'
<1>1. /\ ectx \in Contexts /\ ectx' = NoContext
      /\ done_queue' = Append(done_queue, ectx)
      /\ UNCHANGED <<hmVars, in_event_thread, handle_closed, sourcepawn_handle,
                     multi, msgs, gctx, job_queue>>
  BY DEF CompletedPush, DoneQ!Push, Control, InHand, TypeOK, ThreadTypes, objectVars,
         ctxVars, jobVars, libVars, curlVars, gameVars
<1>2. ectx \notin Range(done_queue)
  BY <1>1 DEF ContextInv, NotTwice
<1>3. IsInjective(done_queue') /\ Range(done_queue') = Range(done_queue) \cup {ectx}
  BY <1>1, <1>2, AppendItems DEF TypeOK, QueueTypes, ContextInv
<1>4. \A d \in Contexts : (Somewhere(d)' => Somewhere(d)) /\ NotTwice(d)'
  BY <1>1, <1>3, NoContextAssumption DEF ContextInv, Somewhere, NotTwice
<1> QED BY <1>1, <1>3, <1>4 DEF ContextInv, hmVars

\* Every step keeps every context in custody.
LEMMA CustodyStep ==
    ASSUME TypeOK, HMInv, Control, ContextInv, Next
    PROVE  ContextInv'
<1>1. ASSUME UNCHANGED custodyVars PROVE ContextInv'
  <2>1. \A d : (Somewhere(d)' <=> Somewhere(d)) /\ (NotTwice(d)' <=> NotTwice(d))
    BY <1>1 DEF custodyVars, Somewhere, NotTwice
  <2> QED BY <1>1, <2>1 DEF custodyVars, hmVars, ContextInv
<1> QED
  BY <1>1, NewContext, ClosedContext, StartedContext, DeliveredContext,
     UnloadedContexts, PushedJob, ProcessedJob, DoneTransfer, CompletedJob,
     PushedDone, CustodySteps

(***************************************************************************)
(* The invariant.                                                          *)
(***************************************************************************)

\* SDK_OnLoad leaves a state in which the invariant holds.
LEMMA InvInit ==
    ASSUME Init
    PROVE  Inv
<1> << >> \in Seq(Contexts) /\ << >> \in Seq(Option)
  OBVIOUS
<1>1. HMInv
  BY HMStart DEF Init
<1>2. Range(<< >>) = {} /\ IsInjective(<< >>)
  BY DEF Range, IsInjective
<1>3. job_queue = << >> /\ done_queue = << >> /\ option_queue = << >> /\ msgs = << >>
  BY DEF Init, JobQ!Init, DoneQ!Init, OptQ!Init
<1>4. job_lock = "free" /\ done_lock = "free" /\ option_lock = "free"
  BY DEF Init, JobQ!Init, DoneQ!Init, OptQ!Init
<1>5. TypeOK
  <2>1. ObjectTypes
    BY DEF Init, ObjectTypes
  <2>2. QueueTypes
    BY <1>3, <1>4 DEF QueueTypes, Holder
  <2>3. LibraryTypes
    BY <1>3 DEF Init, LibraryTypes, OptionValues
  <2>4. ThreadTypes
    BY OptionTypes DEF Init, ThreadTypes, GamePC, EventPC
  <2> QED BY <1>1, <2>1, <2>2, <2>3, <2>4 DEF TypeOK, HMInv
<1>6. LocksHeld /\ InHand /\ UnloadOrder /\ MessagesRead
  BY <1>3, <1>4
  DEF Init, HMInit, LocksHeld, InHand, UnloadOrder, MessagesRead, DuringCallback, InNative
<1>7. ContextInv
  <2>1. /\ heap = {} /\ gctx = NoContext /\ ectx = NoContext /\ multi = {}
        /\ Range(job_queue) = {} /\ Range(done_queue) = {} /\ Range(msgs) = {}
        /\ IsInjective(job_queue) /\ IsInjective(done_queue) /\ IsInjective(msgs)
    BY <1>2, <1>3 DEF Init, HMInit
  <2> QED BY <2>1, NoContextAssumption DEF ContextInv, Somewhere, NotTwice
<1> QED BY <1>1, <1>5, <1>6, <1>7, ContextInvIs DEF Inv, HMInv

\* Every step of either thread preserves the invariant.
LEMMA InvStep ==
    ASSUME Inv, [Next]_vars
    PROVE  Inv'
<1>1. TypeOK /\ HMInv /\ Control /\ ContextInv
  BY ContextInvIs DEF Inv, HMInv, Control, TypeOK
<1>2. ASSUME Next PROVE Inv'
  <2>1. Control'
    BY <1>1, <1>2, ControlStep
  <2>2. HMInv'
    BY <1>1, <1>2, TableStep, HMStep DEF Control
  <2>3. TypeOK'
    BY <1>1, <1>2, <2>2, ObjectTypesStep, QueueTypesStep, LibraryTypesStep,
       ThreadTypesStep DEF TypeOK, HMInv, Control
  <2>4. ContextInv'
    BY <1>1, <1>2, CustodyStep
  <2> QED BY <2>1, <2>2, <2>3, <2>4, ContextInvIs DEF Inv, HMInv, Control
<1>3. ASSUME UNCHANGED vars PROVE Inv'
  <2>1. Control' /\ HMInv'
    BY <1>1, <1>3
    DEF vars, objectVars, hmVars, queueVars, jobVars, doneVars, optVars, libVars,
        asyncVars, curlVars, gameLocals, Control, LocksHeld, InHand, UnloadOrder,
        MessagesRead, DuringCallback, InNative, HMInv, HMTypeOK, HandlesPartition,
        TableOwnsHeap, Pointers
  <2>2. ObjectTypes' /\ QueueTypes' /\ LibraryTypes' /\ ThreadTypes'
    BY <1>1, <1>3
    DEF vars, objectVars, ctxVars, pluginVars, queueVars, jobVars, doneVars, optVars,
        libVars, asyncVars, curlVars, settingVars, gameLocals, TypeOK, ObjectTypes,
        QueueTypes, LibraryTypes, ThreadTypes
  <2>3. UNCHANGED custodyVars
    BY <1>3
    DEF vars, objectVars, ctxVars, queueVars, jobVars, doneVars, libVars, curlVars,
        gameLocals, custodyVars
  <2>4. ContextInv'
    <3>1. \A d : (Somewhere(d)' <=> Somewhere(d)) /\ (NotTwice(d)' <=> NotTwice(d))
      BY <2>3 DEF custodyVars, Somewhere, NotTwice
    <3> QED BY <1>1, <2>3, <3>1 DEF custodyVars, hmVars, ContextInv
  <2> QED BY <2>1, <2>2, <2>4, ContextInvIs DEF Inv, HMInv, Control, TypeOK
<1> QED BY <1>2, <1>3

\* Inv is an invariant of the two threads: mutexes are held exactly in their
\* sections, every context is in at most one place and, while anywhere, it is
\* allocated, claimed and named by its own handle.
THEOREM InvCorrect == Spec => []Inv
<1>1. Init => Inv
  BY InvInit
<1>2. Inv /\ [Next]_vars => Inv'
  BY InvStep
<1> QED BY <1>1, <1>2, PTL DEF Spec

\* Every variable keeps its type.
THEOREM TypeCorrect == Spec => []TypeOK
<1>1. Inv => TypeOK
  BY DEF Inv
<1> QED BY <1>1, InvCorrect, PTL

\* No queue, no transfer and no thread ever holds a deleted CurlContext.
THEOREM NothingDangles == Spec => []NoDanglingContext
<1>1. Inv => NoDanglingContext
  BY DEF Inv, Custody, NoDanglingContext
<1> QED BY <1>1, InvCorrect, PTL

\* A started request is never in two places, nor twice in one.
THEOREM OnePlaceCorrect == Spec => []InOnePlace
<1>1. Inv => InOnePlace
  BY DEF Inv
<1> QED BY <1>1, InvCorrect, PTL

\* A context that a native may use is out of the event thread's reach.
THEOREM NativesExclusive == Spec => []NativesHaveItAlone
<1>1. Inv => NativesHaveItAlone
  <2> SUFFICES ASSUME Inv, NEW h \in DOMAIN used_handles, ~cleaned, Usable(h)
               PROVE  Places(GetCurlPointer(h)) = {}
    BY DEF NativesHaveItAlone
  <2>1. GetCurlPointer(h) \in Contexts /\ ~in_event_thread[GetCurlPointer(h)]
    BY ContextsAtHand DEF Inv, Usable
  <2> QED BY <2>1 DEF Inv, Custody
<1> QED BY <1>1, InvCorrect, PTL

\* The number a context remembers names that context, also after numbers were
\* recycled.
THEOREM HandleNamesCorrect == Spec => []HandleNamesItself
<1>1. Inv => HandleNamesItself
  BY DEF Inv
<1> QED BY <1>1, InvCorrect, PTL

\* No two threads work on the same queue at once.
THEOREM NoQueueRace == Spec => []QueuesAreRaceFree
<1>1. Inv => QueuesAreRaceFree
  BY DEF Inv, LocksHeld, QueuesAreRaceFree
<1> QED BY <1>1, InvCorrect, PTL

\* The two threads never wait for each other, nor one for itself: a thread holds
\* no mutex while it waits but the done queue's, in a callback.
THEOREM NoThreadsDeadlock == Spec => []NoDeadlock
<1>1. Inv => NoDeadlock
  <2> SUFFICES ASSUME Inv PROVE NoDeadlock
    OBVIOUS
  <2> USE DEF Inv, LocksHeld, DuringCallback, InNative
  <2>1. GameWaitsFor # "game"
    BY DEF GameWaitsFor
  <2>2. EventWaitsFor # "event"
    BY DEF EventWaitsFor
  <2>3. ASSUME EventWaitsFor = "game" PROVE GameWaitsFor # "event"
    BY <2>3 DEF GameWaitsFor, EventWaitsFor
  <2> QED BY <2>1, <2>2, <2>3 DEF NoDeadlock
<1> QED BY <1>1, InvCorrect, PTL

\* The extension uses the handle table only as HandleManager assumes, so the
\* table's own theorems hold of it.
THEOREM TableRefined == Spec => ImplementsHandleManager
<1>1. Init => HMInit
  BY DEF Init
<1>2. Inv /\ [Next]_vars => [HMNext]_hmVars
  <2>1. ASSUME Inv, Next PROVE [HMNext]_hmVars
    BY <2>1, TableStep DEF Inv
  <2>2. UNCHANGED vars => UNCHANGED hmVars
    BY DEF vars, objectVars
  <2> QED BY <2>1, <2>2
<1> QED BY <1>1, <1>2, InvCorrect, PTL DEF Spec, ImplementsHandleManager, HMSpec

(***************************************************************************)
(* Wake-ups for settings: inductive by itself.                             *)
(***************************************************************************)

\* Every step that could leave a queued setting unseen hands it on.
LEMMA SettingsWakeStep ==
    ASSUME SettingsWakeLoop, [Next]_vars
    PROVE  SettingsWakeLoop'
<1> USE DEF SettingsWakeLoop, OptQ!Empty, vars, queueVars, optVars, libVars,
        asyncVars, gameVars, gameLocals, eventVars, NativeCall
<1>1. CASE FrameDeliver
  <2>1. gpc = "frame_loop" /\ UNCHANGED <<option_queue, async_settings, epc>>
    BY <1>1, DeliverCases
  <2> QED BY <2>1
<1>2. CASE GameThread /\ ~FrameDeliver
  BY <1>2
  DEF GameThread, Natives, GameContinues, OptQ!Push, OptQ!Lock, OptQ!Unlock,
      CurlNew, CurlNewFails, Close, StartRequest, CurlSetGlobalInt,
      AddCurlJobLock, AddCurlJobPush, AddCurlJobUnlock,
      ChangeCurlSettingsLock, ChangeCurlSettingsPush,
      ChangeCurlSettingsUnlock, ChangeCurlSettingsSend, FrameCheckJobs,
      FrameSend, FrameCheckDone, FrameLock, FrameUnlock, CallbackReturn,
      OnPluginLoaded, OnPluginUnloaded, SDK_OnUnload, FinishUnload
<1>3. CASE EventThread
  BY <1>3
  DEF EventThread, EventContinues, OptQ!Pop, OptQ!Lock, OptQ!Unlock,
      AsyncAddJobs, AsyncAddJobsLock, ProcessCurlJob, AsyncAddJobsUnlock,
      AsyncChangeCurlSettings, AsyncChangeCurlSettingsLock, ApplyCurlSetting,
      AsyncChangeCurlSettingsUnlock, AsyncStopLoop, EventLoopReturns,
      CurlSocketAction, TransferDone, CurlSocketActionReturns,
      CheckCompletedCurlJobs, CompletedLock, CompletedPush, CompletedUnlock,
      NoMoreMessages
<1>4. CASE UNCHANGED vars
  BY <1>4
<1> QED BY <1>1, <1>2, <1>3, <1>4 DEF Next, Unloaded

\* A queued setting is never left without somebody who will see to it.
THEOREM NoLostSetting == Spec => []SettingsWakeLoop
<1>1. Init => SettingsWakeLoop
  BY DEF Init, OptQ!Init, OptQ!Empty, SettingsWakeLoop
<1>2. SettingsWakeLoop /\ [Next]_vars => SettingsWakeLoop'
  BY SettingsWakeStep
<1> QED BY <1>1, <1>2, PTL DEF Spec

(***************************************************************************)
(* What a callback leaves alone.                                           *)
(***************************************************************************)
keptVars == <<heap, in_event_thread, handle_closed, sourcepawn_handle,
              sourcepawn_plugin_context, done_queue>>

\* The steps that change what a callback must leave alone.
LEMMA KeptSteps ==
    ASSUME Next
    PROVE  \/ UNCHANGED keptVars
           \/ \E p \in Plugins, c \in Contexts : CurlNew(p, c)
           \/ \E h \in 1..MaxInt : Close(h) \/ StartRequest(h)
           \/ FrameDeliver \/ FinishUnload \/ CompletedPush
<1>1. UNCHANGED sourcepawn_plugin_context
      \/ (\E p \in Plugins, c \in Contexts : CurlNew(p, c))
      \/ (\E h \in 1..MaxInt : Close(h))
      \/ FrameDeliver
  BY DEF Next, GameThread, Natives, GameContinues, EventThread, EventContinues, vars,
     objectVars, ctxVars, CurlNewFails, StartRequest, CurlSetGlobalInt, AddCurlJobLock,
     AddCurlJobPush, AddCurlJobUnlock, ChangeCurlSettingsLock, ChangeCurlSettingsPush,
     ChangeCurlSettingsUnlock, ChangeCurlSettingsSend, FrameCheckJobs, FrameSend,
     FrameCheckDone, FrameLock, FrameUnlock, CallbackReturn, OnPluginLoaded,
     OnPluginUnloaded, SDK_OnUnload, FinishUnload, AsyncAddJobs, AsyncAddJobsLock,
     ProcessCurlJob, AsyncAddJobsUnlock, AsyncChangeCurlSettings,
     AsyncChangeCurlSettingsLock, ApplyCurlSetting, AsyncChangeCurlSettingsUnlock,
     AsyncStopLoop, EventLoopReturns, CurlSocketAction, TransferDone,
     CurlSocketActionReturns, CheckCompletedCurlJobs, CompletedLock, CompletedPush,
     CompletedUnlock, NoMoreMessages, Unloaded
<1>2. AddCurlJobPush \/ ProcessCurlJob \/ CheckCompletedCurlJobs
      \/ (\E c \in Contexts : TransferDone(c)) => UNCHANGED keptVars
  BY DEF keptVars, AddCurlJobPush, ProcessCurlJob, CheckCompletedCurlJobs, TransferDone,
     objectVars, hmVars, ctxVars, queueVars, doneVars
<1>3. UNCHANGED <<custodyVars, sourcepawn_plugin_context>> => UNCHANGED keptVars
  BY DEF custodyVars, hmVars, keptVars
<1> QED BY <1>1, <1>2, <1>3, CustodySteps

\* A callback leaves alone the list the frame hook works through and every request
\* in flight.
THEOREM CallbackLeaves == Spec => CallbackLeavesRequests
<1> DEFINE Kept(c) == /\ c \in heap' /\ in_event_thread'[c]
                      /\ sourcepawn_handle'[c] = sourcepawn_handle[c]
                      /\ sourcepawn_plugin_context'[c] = sourcepawn_plugin_context[c]
                      /\ handle_closed[c] => handle_closed'[c]
           AllKept == /\ UNCHANGED done_queue
                      /\ \A c \in heap : in_event_thread[c] => Kept(c)
<1>1. ASSUME Inv, Next, DuringCallback PROVE AllKept
  <2>1. heap \subseteq Contexts
    BY <1>1 DEF Inv, TypeOK, HMTypeOK
  <2>2. CASE UNCHANGED keptVars
    BY <2>2 DEF keptVars
  <2>3. ASSUME NEW p \in Plugins, NEW c \in Contexts, CurlNew(p, c) PROVE AllKept
    <3>1. /\ c \notin heap /\ heap' = heap \cup {c} /\ UNCHANGED done_queue
          /\ \A d \in Contexts \ {c} :
                /\ in_event_thread'[d] = in_event_thread[d]
                /\ sourcepawn_handle'[d] = sourcepawn_handle[d]
                /\ sourcepawn_plugin_context'[d] = sourcepawn_plugin_context[d]
                /\ handle_closed'[d] = handle_closed[d]
      BY <1>1, <2>3
      DEF Inv, TypeOK, ObjectTypes, CurlNew, New, NewHandle, queueVars, doneVars
    <3> QED BY <2>1, <3>1
  <2>4. ASSUME NEW h \in 1..MaxInt, Close(h) PROVE AllKept
    <3>1. PICK c : c = GetCurlPointer(h)
      OBVIOUS
    <3>2. c \in Contexts /\ IsHandle(h) /\ UNCHANGED done_queue
      BY <1>1, <2>4, <3>1, ContextsAtHand DEF Inv, Close, queueVars, doneVars
    <3>3. CASE in_event_thread[c]
      <4>1. /\ handle_closed' = [handle_closed EXCEPT ![c] = TRUE]
            /\ UNCHANGED <<heap, in_event_thread, sourcepawn_plugin_context,
                           sourcepawn_handle>>
        BY <2>4, <3>1, <3>3 DEF Close, hmVars
      <4>2. \A d \in Contexts : handle_closed[d] => handle_closed'[d]
        BY <1>1, <4>1 DEF Inv, TypeOK, ObjectTypes
      <4> QED BY <2>1, <3>2, <4>1, <4>2
    <3>4. CASE ~in_event_thread[c]
      <4>1. FreeContext(h, c)
        BY <2>4, <3>1, <3>4 DEF Close
      <4>2. heap' = heap \ {c}
        BY <3>1, <3>2, <4>1 DEF FreeContext, FreeHandle, IsHandle, GetCurlPointer
      <4>3. \A d \in Contexts \ {c} :
               /\ in_event_thread'[d] = in_event_thread[d]
               /\ sourcepawn_handle'[d] = sourcepawn_handle[d]
               /\ sourcepawn_plugin_context'[d] = sourcepawn_plugin_context[d]
               /\ handle_closed'[d] = handle_closed[d]
        BY <1>1, <4>1 DEF Inv, TypeOK, ObjectTypes, FreeContext
      <4> QED BY <2>1, <3>2, <3>4, <4>2, <4>3
    <3> QED BY <3>3, <3>4
  <2>5. ASSUME NEW h \in 1..MaxInt, StartRequest(h) PROVE AllKept
    <3>1. PICK c : c = GetCurlPointer(h)
      OBVIOUS
    <3>2. /\ c \in Contexts
          /\ in_event_thread' = [in_event_thread EXCEPT ![c] = TRUE]
          /\ UNCHANGED <<done_queue, heap, handle_closed, sourcepawn_plugin_context,
                         sourcepawn_handle>>
      BY <1>1, <2>5, <3>1, ContextsAtHand
      DEF Inv, StartRequest, Usable, OnCurlStarted, hmVars, queueVars, doneVars
    <3>3. \A d \in Contexts : in_event_thread[d] => in_event_thread'[d]
      BY <1>1, <3>2 DEF Inv, TypeOK, ObjectTypes
    <3> QED BY <2>1, <3>2, <3>3
  <2>6. ~FrameDeliver /\ ~FinishUnload /\ ~CompletedPush
    BY <1>1, DeliverCases
    DEF FinishUnload, CompletedPush, Inv, LocksHeld, DuringCallback, InNative
  <2> QED BY <1>1, <2>2, <2>3, <2>4, <2>5, <2>6, KeptSteps
<1>2. Inv /\ [Next]_vars => [DuringCallback => AllKept]_vars
  BY <1>1
<1>3. [][DuringCallback => AllKept]_vars => CallbackLeavesRequests
  BY PTL DEF CallbackLeavesRequests
<1> QED BY <1>2, <1>3, InvCorrect, PTL DEF Spec
=============================================================================
