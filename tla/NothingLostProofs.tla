--------------------------- MODULE NothingLostProofs ---------------------------
(***************************************************************************)
(* Neither requests nor settings get lost on their way between the two     *)
(* threads: a claimed context is somewhere, and the last value given for a *)
(* multi option is the one that is set in the end.                         *)
(***************************************************************************)
EXTENDS AsyncExtensionProofs

(***************************************************************************)
(* Requests.                                                               *)
(***************************************************************************)
\* NotStranded, for a curl that refuses no transfer, without the names of places.
ClaimedIsSomewhere == \A c \in heap : in_event_thread[c] => Somewhere(c)

\* A context stays claimed only if it stays somewhere, for the steps that keep
\* what is claimed.
LEMMA StaysSomewhere ==
    ASSUME ClaimedIsSomewhere, UNCHANGED <<hmVars, in_event_thread>>,
           \A c \in heap : Somewhere(c) => Somewhere(c)'
    PROVE  ClaimedIsSomewhere'
  BY DEF ClaimedIsSomewhere, hmVars

\* Deleting a context leaves no claim of it behind.
LEMMA FreedSomewhere ==
    ASSUME TypeOK, ClaimedIsSomewhere, NEW h, NEW c \in heap, h \in DOMAIN used_handles,
           used_handles[h] = c, FreeContext(h, c),
           \A d \in heap \ {c} : Somewhere(d) => Somewhere(d)'
    PROVE  ClaimedIsSomewhere'
<1>1. heap' = heap \ {c}
  BY DEF FreeContext, FreeHandle, IsHandle, GetCurlPointer
<1>2. \A d \in Contexts \ {c} : in_event_thread'[d] = in_event_thread[d]
  BY DEF FreeContext, TypeOK, ObjectTypes
<1> QED BY <1>1, <1>2 DEF ClaimedIsSomewhere, TypeOK, HMTypeOK

\* Every step keeps a claimed context somewhere, unless curl refuses one.
LEMMA ClaimedStep ==
    ASSUME Inv, ~AddMayFail, ClaimedIsSomewhere, Next
    PROVE  ClaimedIsSomewhere'
<1>1. TypeOK /\ HMInv /\ Control /\ ContextInv
  BY ContextInvIs DEF Inv, HMInv, Control, TypeOK
<1>2. heap \subseteq Contexts
  BY <1>1 DEF TypeOK, HMTypeOK
<1>3. ASSUME UNCHANGED custodyVars PROVE ClaimedIsSomewhere'
  BY <1>3 DEF custodyVars, hmVars, ClaimedIsSomewhere, Somewhere
<1>4. ASSUME NEW p \in Plugins, NEW c \in Contexts, CurlNew(p, c)
      PROVE  ClaimedIsSomewhere'
  <2>1. heap' = heap \cup {c}
    BY <1>4 DEF CurlNew, New
  <2>2. /\ ~in_event_thread'[c]
        /\ \A d \in Contexts \ {c} : in_event_thread'[d] = in_event_thread[d]
    BY <1>1, <1>4 DEF CurlNew, TypeOK, ObjectTypes
  <2>3. UNCHANGED <<gctx, job_queue, multi, msgs, ectx, done_queue>>
    BY <1>4 DEF CurlNew, queueVars, jobVars, doneVars, libVars, curlVars, gameVars, eventVars
  <2> QED BY <1>2, <2>1, <2>2, <2>3 DEF ClaimedIsSomewhere, Somewhere
<1>5. ASSUME NEW h \in 1..MaxInt, Close(h) PROVE ClaimedIsSomewhere'
  <2>1. PICK c : c = GetCurlPointer(h)
    OBVIOUS
  <2>2. h \in DOMAIN used_handles /\ used_handles[h] = c /\ c \in heap
    BY <1>1, <1>5, <2>1, ContextsAtHand
    DEF Close, NativeCall, IsHandle, GetCurlPointer, HMInv, TableOwnsHeap, Pointers, Range,
        Control, UnloadOrder
  <2>3. UNCHANGED <<gctx, job_queue, multi, msgs, ectx, done_queue>>
    BY <1>5 DEF Close, queueVars, jobVars, doneVars, libVars, curlVars, gameVars, eventVars
  <2>4. CASE in_event_thread[c]
    BY <1>5, <2>1, <2>3, <2>4, StaysSomewhere DEF Close, Somewhere
  <2>5. CASE ~in_event_thread[c]
    <3>1. FreeContext(h, c)
      BY <1>5, <2>1, <2>5 DEF Close
    <3> QED BY <1>1, <2>2, <2>3, <3>1, FreedSomewhere DEF Somewhere
  <2> QED BY <2>4, <2>5
<1>6. ASSUME NEW h \in 1..MaxInt, StartRequest(h) PROVE ClaimedIsSomewhere'
  <2>1. PICK c : c = GetCurlPointer(h)
    OBVIOUS
  <2>2. gctx = NoContext /\ c \in Contexts
    <3>1. h \in DOMAIN used_handles /\ used_handles[h] = c
      BY <1>6, <2>1 DEF StartRequest, NativeCall, Usable, IsHandle, GetCurlPointer
    <3>2. c \in Contexts
      BY <1>1, <3>1 DEF TypeOK, HMTypeOK
    <3> QED BY <1>1, <1>6, <3>2 DEF StartRequest, NativeCall, Control, InHand
  <2>3. /\ gctx' = c /\ in_event_thread' = [in_event_thread EXCEPT ![c] = TRUE]
        /\ UNCHANGED <<hmVars, job_queue, multi, ectx, done_queue>>
    BY <1>6, <2>1 DEF StartRequest, OnCurlStarted, queueVars, jobVars, doneVars, libVars,
       curlVars, eventVars
  <2>4. \A d \in Contexts \ {c} : in_event_thread'[d] = in_event_thread[d]
    BY <1>1, <2>3 DEF TypeOK, ObjectTypes
  <2> QED BY <1>2, <2>2, <2>3, <2>4, NoContextAssumption
      DEF ClaimedIsSomewhere, Somewhere, hmVars
<1>7. ASSUME AddCurlJobPush PROVE ClaimedIsSomewhere'
  <2>1. /\ gctx \in Contexts /\ job_queue' = Append(job_queue, gctx)
        /\ UNCHANGED <<hmVars, in_event_thread, multi, ectx, done_queue>>
    BY <1>1, <1>7 DEF AddCurlJobPush, JobQ!Push, Control, InHand, TypeOK, ThreadTypes,
       objectVars, ctxVars, doneVars, libVars, curlVars, eventVars
  <2>2. Range(job_queue') = Range(job_queue) \cup {gctx}
    BY <1>1, <2>1, AppendItems DEF TypeOK, QueueTypes
  <2> QED BY <2>1, <2>2, StaysSomewhere DEF Somewhere
<1>8. ASSUME ProcessCurlJob PROVE ClaimedIsSomewhere'
  <2>1. /\ job_queue # << >> /\ job_queue' = Tail(job_queue)
        /\ multi' = multi \cup {Head(job_queue)}
        /\ UNCHANGED <<hmVars, in_event_thread, gctx, ectx, done_queue>>
    BY <1>8 DEF ProcessCurlJob, JobQ!Empty, JobQ!Pop, JobQ!Front, objectVars, ctxVars,
       doneVars, gameVars, eventVars
  <2>2. Range(job_queue') = Range(job_queue) \ {Head(job_queue)}
    BY <1>1, <2>1, TailItems DEF TypeOK, QueueTypes, ContextInv
  <2> QED BY <2>1, <2>2, StaysSomewhere DEF Somewhere
<1>9. ASSUME NEW c \in Contexts, TransferDone(c) PROVE ClaimedIsSomewhere'
  <2>1. UNCHANGED <<hmVars, in_event_thread, gctx, job_queue, multi, ectx, done_queue>>
    BY <1>9 DEF TransferDone, objectVars, ctxVars, queueVars, jobVars, doneVars, gameVars,
       eventVars
  <2> QED BY <2>1, StaysSomewhere DEF Somewhere
<1>10. ASSUME CheckCompletedCurlJobs PROVE ClaimedIsSomewhere'
  <2>1. /\ multi' = multi \ {Head(msgs)} /\ ectx' = Head(msgs) /\ ectx = NoContext
        /\ UNCHANGED <<hmVars, in_event_thread, gctx, job_queue, done_queue>>
    BY <1>1, <1>10 DEF CheckCompletedCurlJobs, Control, InHand, objectVars, ctxVars,
       queueVars, jobVars, doneVars, gameVars
  <2> QED BY <1>2, <2>1, StaysSomewhere, NoContextAssumption DEF Somewhere
<1>11. ASSUME CompletedPush PROVE ClaimedIsSomewhere'
  <2>1. /\ ectx \in Contexts /\ done_queue' = Append(done_queue, ectx)
        /\ UNCHANGED <<hmVars, in_event_thread, multi, gctx, job_queue>>
    BY <1>1, <1>11 DEF CompletedPush, DoneQ!Push, Control, InHand, TypeOK, ThreadTypes,
       objectVars, ctxVars, jobVars, libVars, curlVars, gameVars
  <2>2. Range(done_queue') = Range(done_queue) \cup {ectx}
    BY <1>1, <2>1, AppendItems DEF TypeOK, QueueTypes
  <2> QED BY <2>1, <2>2, StaysSomewhere DEF Somewhere
<1>12. ASSUME FrameDeliver PROVE ClaimedIsSomewhere'
  <2>1. PICK c : c = Head(done_queue)
    OBVIOUS
  <2>2. /\ ~cleaned /\ done_queue # << >> /\ done_queue' = Tail(done_queue)
        /\ UNCHANGED <<gctx, job_queue, multi, ectx>>
    BY <1>1, <1>12, DeliverCases DEF Control, UnloadOrder, jobVars, libVars, curlVars,
       eventVars
  <2>3. /\ c \in Contexts /\ c \in Range(done_queue)
        /\ Range(done_queue') = Range(done_queue) \ {c}
    BY <1>1, <2>1, <2>2, TailItems DEF TypeOK, QueueTypes, ContextInv
  <2>4. \A d \in heap \ {c} : Somewhere(d) => Somewhere(d)'
    BY <2>2, <2>3 DEF Somewhere
  <2>5. c \in heap /\ sourcepawn_handle[c] \in DOMAIN used_handles
        /\ used_handles[sourcepawn_handle[c]] = c
    BY <1>1, <2>2, <2>3 DEF ContextInv, Somewhere
  <2>6. CASE FreeContext(sourcepawn_handle[c], c)
    BY <1>1, <2>4, <2>5, <2>6, FreedSomewhere
  <2>7. CASE in_event_thread' = [in_event_thread EXCEPT ![c] = FALSE] /\ UNCHANGED hmVars
    BY <1>1, <1>2, <2>4, <2>7 DEF TypeOK, ObjectTypes, ClaimedIsSomewhere, hmVars
  <2> QED BY <1>12, <2>1, <2>6, <2>7, DeliverCases
<1>13. ASSUME FinishUnload PROVE ClaimedIsSomewhere'
  BY <1>1, <1>13 DEF FinishUnload, CleanHandles, Control, UnloadOrder, HMInv, TableOwnsHeap,
     ClaimedIsSomewhere
<1> QED BY <1>3, <1>4, <1>5, <1>6, <1>7, <1>8, <1>9, <1>10, <1>11, <1>12, <1>13,
    CustodySteps

\* The invariant behind NotStranded, whether or not curl refuses transfers.
RefusedOrSomewhere == AddMayFail \/ ClaimedIsSomewhere

\* Unless curl refuses a transfer, a request that was started is always on its
\* way, for any number of requests: its handle does not stay unusable with nobody
\* left who would release it.
THEOREM NoneStranded == Spec => []NotStranded
<1>1. Init => RefusedOrSomewhere
  BY DEF Init, HMInit, RefusedOrSomewhere, ClaimedIsSomewhere
<1>2. Inv /\ RefusedOrSomewhere /\ [Next]_vars => RefusedOrSomewhere'
  <2>1. ASSUME ClaimedIsSomewhere, UNCHANGED vars PROVE ClaimedIsSomewhere'
    BY <2>1 DEF ClaimedIsSomewhere, Somewhere, vars, objectVars, hmVars, ctxVars, queueVars,
       jobVars, doneVars, libVars, curlVars, gameLocals
  <2> QED BY <2>1, ClaimedStep DEF RefusedOrSomewhere
<1>3. RefusedOrSomewhere => NotStranded
  BY PlacesFacts DEF RefusedOrSomewhere, ClaimedIsSomewhere, NotStranded
<1> QED BY <1>1, <1>2, <1>3, InvCorrect, PTL DEF Spec

(***************************************************************************)
(* Settings.                                                               *)
(***************************************************************************)
\* ChangeCurlSettings has an option in hand.
InsideChange == gpc \in {"opt_lock", "opt_push"}

OptionInHand == gopt # NoOption <=> InsideChange

\* What settings depend on.
settingPath == <<gopt, option_queue, multi_options, asked>>

\* The steps that move a setting; all others leave ChangeCurlSettings where it is.
LEMMA SettingSteps ==
    ASSUME TypeOK, Next
    PROVE  \/ UNCHANGED settingPath /\ InsideChange' = InsideChange
           \/ \E params \in GlobalIntCalls : CurlSetGlobalInt(params)
           \/ ChangeCurlSettingsPush \/ ApplyCurlSetting
<1> USE DEF settingPath, InsideChange, vars, objectVars, queueVars, libVars, ctxVars,
     jobVars, doneVars, optVars, asyncVars, curlVars, settingVars, gameVars, gameLocals,
     eventVars, TypeOK, ThreadTypes, NativeCall
<1>1. CASE EventThread \/ Unloaded
  BY <1>1 DEF EventThread, EventContinues, AsyncAddJobs, AsyncAddJobsLock,
     ProcessCurlJob, AsyncAddJobsUnlock, AsyncChangeCurlSettings,
     AsyncChangeCurlSettingsLock, AsyncChangeCurlSettingsUnlock, AsyncStopLoop,
     EventLoopReturns, CurlSocketAction, TransferDone, CurlSocketActionReturns,
     CheckCompletedCurlJobs, CompletedLock, CompletedPush, CompletedUnlock,
     NoMoreMessages, Unloaded
<1>2. CASE Natives
  BY <1>2 DEF Natives, CurlNew, CurlNewFails, Close, StartRequest
<1>3. CASE FrameDeliver
  BY <1>3, DeliverCases
<1>4. CASE GameContinues
  BY <1>3, <1>4 DEF GameContinues, AddCurlJobLock, AddCurlJobPush, AddCurlJobUnlock,
     ChangeCurlSettingsLock, ChangeCurlSettingsUnlock, ChangeCurlSettingsSend, FrameSend,
     FrameCheckDone, FrameLock, FrameUnlock, FinishUnload
<1>5. CASE \/ FrameCheckJobs \/ CallbackReturn \/ SDK_OnUnload
           \/ \E p \in Plugins : OnPluginLoaded(p) \/ OnPluginUnloaded(p)
  BY <1>5 DEF FrameCheckJobs, CallbackReturn, SDK_OnUnload, OnPluginLoaded,
     OnPluginUnloaded
<1> QED BY <1>1, <1>2, <1>4, <1>5 DEF Next, GameThread

\* The value that option k is going to have: the one in ChangeCurlSettings' hands,
\* else the newest queued one, else the one it has.
SettingOnItsWay(k) ==
    IF gopt # NoOption /\ gopt.key = k THEN gopt.value = asked[k]
    ELSE \/ \E i \in 1..Len(option_queue) :
               /\ option_queue[i].key = k /\ option_queue[i].value = asked[k]
               /\ \A j \in 1..Len(option_queue) : i < j => option_queue[j].key # k
         \/ /\ \A i \in 1..Len(option_queue) : option_queue[i].key # k
            /\ multi_options[k] = asked[k]

SettingsInv == OptionInHand /\ \A k \in OptionKeys : SettingOnItsWay(k)

\* Every step keeps the last value asked for on its way, if the options have numbers
\* other than 0, as curl's do.
LEMMA SettingsStep ==
    ASSUME \A call \in GlobalIntCalls : call[1] # 0, Inv, SettingsInv, Next
    PROVE  SettingsInv'
<1>1. /\ option_queue \in Seq(Option) /\ gopt \in Option
      /\ multi_options \in [OptionKeys -> OptionValues]
      /\ asked \in [OptionKeys -> OptionValues]
  BY DEF Inv, TypeOK, QueueTypes, ThreadTypes, LibraryTypes
<1>2. CASE UNCHANGED settingPath /\ InsideChange' = InsideChange
  BY <1>2 DEF SettingsInv, OptionInHand, SettingOnItsWay, settingPath, InsideChange
<1>3. ASSUME NEW params \in GlobalIntCalls, CurlSetGlobalInt(params) PROVE SettingsInv'
  <2>1. gopt = NoOption
    BY <1>3 DEF SettingsInv, OptionInHand, InsideChange, CurlSetGlobalInt, NativeCall
  <2>2. /\ gopt' = [key |-> params[1], value |-> params[2]]
        /\ asked' = [asked EXCEPT ![params[1]] = params[2]]
        /\ gpc' = "opt_lock"
        /\ UNCHANGED <<option_queue, multi_options>>
    BY <1>3 DEF CurlSetGlobalInt, queueVars, optVars
  <2>3. gopt' # NoOption
    <3>1. gopt'.key # NoOption.key
      BY <2>2 DEF NoOption
    <3> QED BY <3>1
  <2>4. OptionInHand'
    BY <2>2, <2>3 DEF OptionInHand, InsideChange
  <2>5. ASSUME NEW k \in OptionKeys PROVE SettingOnItsWay(k)'
    <3>1. CASE k = params[1]
      BY <1>1, <2>2, <2>3, <3>1 DEF SettingOnItsWay
    <3>2. CASE k # params[1]
      <4>1. asked'[k] = asked[k] /\ gopt'.key # k
        BY <1>1, <2>2, <3>2
      <4>2. SettingOnItsWay(k)
        BY DEF SettingsInv
      <4> QED BY <2>1, <2>2, <4>1, <4>2 DEF SettingOnItsWay
    <3> QED BY <3>1, <3>2
  <2> QED BY <2>4, <2>5 DEF SettingsInv
<1>4. CASE ChangeCurlSettingsPush
  <2>1. /\ gopt # NoOption /\ gopt' = NoOption /\ gpc' = "opt_unlock"
        /\ option_queue' = Append(option_queue, gopt)
        /\ UNCHANGED <<multi_options, asked>>
    BY <1>4 DEF SettingsInv, OptionInHand, InsideChange, ChangeCurlSettingsPush, OptQ!Push,
       libVars, settingVars
  <2>2. OptionInHand'
    BY <2>1 DEF OptionInHand, InsideChange
  <2>3. /\ Len(option_queue) \in Nat /\ Len(option_queue') = Len(option_queue) + 1
        /\ option_queue'[Len(option_queue) + 1] = gopt
        /\ \A i \in 1..Len(option_queue) : option_queue'[i] = option_queue[i]
    BY <1>1, <2>1
  <2>4. ASSUME NEW k \in OptionKeys PROVE SettingOnItsWay(k)'
    <3>1. SettingOnItsWay(k)
      BY DEF SettingsInv
    <3>2. CASE gopt.key = k
      <4>1. /\ Len(option_queue') \in 1..Len(option_queue')
            /\ option_queue'[Len(option_queue')] = gopt
            /\ \A j \in 1..Len(option_queue') : ~(Len(option_queue') < j)
        BY <2>3
      <4>2. gopt.value = asked'[k]
        BY <2>1, <3>1, <3>2 DEF SettingOnItsWay
      <4> QED BY <2>1, <3>2, <4>1, <4>2 DEF SettingOnItsWay
    <3>3. CASE gopt.key # k
      BY <2>1, <2>3, <3>1, <3>3 DEF SettingOnItsWay
    <3> QED BY <3>2, <3>3
  <2> QED BY <2>2, <2>4 DEF SettingsInv
<1>5. CASE ApplyCurlSetting
  <2> DEFINE h == Head(option_queue)
  <2>1. /\ option_queue # << >> /\ option_queue' = Tail(option_queue)
        /\ multi_options' = [multi_options EXCEPT ![h.key] = h.value]
        /\ UNCHANGED <<gopt, gpc, asked>>
    BY <1>5 DEF ApplyCurlSetting, OptQ!Empty, OptQ!Pop, OptQ!Front, gameVars
  <2>2. OptionInHand'
    BY <2>1 DEF SettingsInv, OptionInHand, InsideChange
  <2>3. /\ Len(option_queue) \in Nat \ {0} /\ Len(option_queue') = Len(option_queue) - 1
        /\ h = option_queue[1]
        /\ \A i \in 1..Len(option_queue') : option_queue'[i] = option_queue[i + 1]
    BY <1>1, <2>1
  <2>4. ASSUME NEW k \in OptionKeys PROVE SettingOnItsWay(k)'
    <3>1. SettingOnItsWay(k)
      BY DEF SettingsInv
    <3>2. CASE gopt # NoOption /\ gopt.key = k
      BY <2>1, <3>1, <3>2 DEF SettingOnItsWay
    <3>3. ASSUME ~(gopt # NoOption /\ gopt.key = k), NEW i \in 1..Len(option_queue),
                 option_queue[i].key = k, option_queue[i].value = asked[k],
                 \A j \in 1..Len(option_queue) : i < j => option_queue[j].key # k
          PROVE  SettingOnItsWay(k)'
      <4>1. CASE i = 1
        <5>1. multi_options'[k] = asked'[k]
          BY <1>1, <2>1, <2>3, <3>3, <4>1
        <5>2. \A j \in 1..Len(option_queue') : option_queue'[j].key # k
          BY <2>3, <3>3, <4>1
        <5> QED BY <2>1, <3>3, <5>1, <5>2 DEF SettingOnItsWay
      <4>2. CASE i # 1
        <5>1. /\ i - 1 \in 1..Len(option_queue')
              /\ option_queue'[i - 1] = option_queue[i]
          BY <2>3, <4>2
        <5>2. \A j \in 1..Len(option_queue') : i - 1 < j => option_queue'[j].key # k
          <6> SUFFICES ASSUME NEW j \in 1..Len(option_queue'), i - 1 < j
                       PROVE  option_queue'[j].key # k
            OBVIOUS
          <6>1. j + 1 \in 1..Len(option_queue) /\ i < j + 1
            BY <2>3
          <6> QED BY <2>3, <3>3, <6>1
        <5> QED BY <2>1, <3>3, <5>1, <5>2 DEF SettingOnItsWay
      <4> QED BY <4>1, <4>2
    <3>4. ASSUME ~(gopt # NoOption /\ gopt.key = k), multi_options[k] = asked[k],
                 \A i \in 1..Len(option_queue) : option_queue[i].key # k
          PROVE  SettingOnItsWay(k)'
      <4>1. h.key # k
        BY <2>3, <3>4
      <4>2. multi_options'[k] = asked'[k]
        BY <1>1, <2>1, <3>4, <4>1
      <4>3. \A i \in 1..Len(option_queue') : option_queue'[i].key # k
        BY <2>3, <3>4
      <4> QED BY <2>1, <3>4, <4>2, <4>3 DEF SettingOnItsWay
    <3> QED BY <3>1, <3>2, <3>3, <3>4 DEF SettingOnItsWay
  <2> QED BY <2>2, <2>4 DEF SettingsInv
<1> QED BY <1>2, <1>3, <1>4, <1>5, SettingSteps DEF Inv

\* For any number of calls and options, settings are applied in the order of the
\* calls: once none is on its way, every multi option has the value last given.
THEOREM LastSettingCorrect ==
    ASSUME \A call \in GlobalIntCalls : call[1] # 0
    PROVE  Spec => []LastSettingWins
<1>1. Init => SettingsInv
  BY DEF Init, OptQ!Init, SettingsInv, OptionInHand, InsideChange, SettingOnItsWay
<1>2. Inv /\ SettingsInv /\ [Next]_vars => SettingsInv'
  <2>1. ASSUME SettingsInv, UNCHANGED vars PROVE SettingsInv'
    BY <2>1 DEF SettingsInv, OptionInHand, InsideChange, SettingOnItsWay, vars, queueVars,
       optVars, libVars, settingVars, gameLocals
  <2> QED BY <2>1, SettingsStep
<1>3. Inv /\ SettingsInv => LastSettingWins
  <2> SUFFICES ASSUME Inv, SettingsInv, option_queue = << >>, gopt = NoOption
               PROVE  multi_options = asked
    BY DEF LastSettingWins, OptQ!Empty
  <2>1. \A k \in OptionKeys : multi_options[k] = asked[k]
    BY DEF SettingsInv, SettingOnItsWay
  <2>2. /\ multi_options \in [OptionKeys -> OptionValues]
        /\ asked \in [OptionKeys -> OptionValues]
    BY DEF Inv, TypeOK, LibraryTypes
  <2> QED BY <2>1, <2>2
<1> QED BY <1>1, <1>2, <1>3, InvCorrect, PTL DEF Spec
=============================================================================
