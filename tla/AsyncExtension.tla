--------------------------- MODULE AsyncExtension ---------------------------
(***************************************************************************)
(* The two threads of the extension (extension.cpp, natives.cpp,           *)
(* context.cpp) and everything they share.                                 *)
(*                                                                         *)
(* The game thread runs plugin code, the natives it calls, the frame hook  *)
(* OnGameFrame and the load and unload events.  The event thread runs      *)
(* uv_run, which calls the three async callbacks and, through the curl     *)
(* multi interface, RunCurlJobs and CurlSocketActivity.  A request travels *)
(* from a native through g_curl_queue into the multi handle, and back      *)
(* through g_curl_done_queue to the frame hook, which calls the plugin.    *)
(*                                                                         *)
(* A step is one access to shared state: taking or releasing a mutex, one  *)
(* queue operation, one uv_async_send.  gpc and epc say where each thread  *)
(* is.  libuv and libcurl are external and modelled from their use here:   *)
(* an async handle is a pending flag that sends set and the loop clears    *)
(* before it calls back; the multi handle is the set of added transfers    *)
(* and the list of completion messages.                                    *)
(***************************************************************************)
EXTENDS HandleManager

CONSTANTS NoContext,       \* "no context in hand"
          Plugins,         \* addresses of IPluginContext objects
          NoPlugin,        \* the plugin of a context that was never created
          MaxInstances,    \* bound: plugins loaded one after another at an address
          GlobalIntCalls,  \* Async_CurlSetGlobalInt calls <<request, option, value>>
          MaxOptions,      \* bound: length of g_curl_option_queue
          AddMayFail       \* curl_multi_add_handle may fail

ASSUME NoContextAssumption == NoContext \notin Contexts /\ NoPlugin \notin Plugins
ASSUME BoundsAssumption == MaxInstances \in Nat /\ MaxOptions \in Nat
ASSUME CallsAssumption == GlobalIntCalls \subseteq Int \X Int \X Int
ASSUME AddMayFailAssumption == AddMayFail \in BOOLEAN

VARIABLES
    \* fields of each CurlContext
    in_event_thread, handle_closed, sourcepawn_plugin_context, sourcepawn_handle,
    creator,           \* history: the instance of the plugin that created it
    \* plugins
    g_plugin_contexts, \* addresses of the loaded plugins
    instance,          \* history: how many plugins were loaded at each address
    \* g_curl_queue, g_curl_done_queue, g_curl_option_queue
    job_lock, job_queue, done_lock, done_queue, option_lock, option_queue,
    \* libuv: pending flags of the async handles, uv_stop requested
    async_add, async_settings, async_stop, stop_flag,
    \* libcurl: transfers in g_curl, unread CURLMSG_DONE messages, multi options
    multi, msgs, multi_options,
    asked,             \* history: the last value given for each multi option
    \* game thread
    gpc,
    gret,              \* where the native in progress returns to
    gctx,              \* AddCurlJob's argument
    gopt,              \* ChangeCurlSettings' new option
    gthis,             \* the context whose callback is running
    \* event thread
    epc,
    ectx               \* CheckCompletedCurlJobs' curl_context

ctxVars == <<in_event_thread, handle_closed, sourcepawn_plugin_context,
             sourcepawn_handle, creator>>
pluginVars == <<g_plugin_contexts, instance>>
jobVars == <<job_lock, job_queue>>
doneVars == <<done_lock, done_queue>>
optVars == <<option_lock, option_queue>>
asyncVars == <<async_add, async_settings, async_stop, stop_flag>>
curlVars == <<multi, msgs>>
settingVars == <<multi_options, asked>>
gameVars == <<gpc, gret, gctx, gopt, gthis>>
eventVars == <<epc, ectx>>

objectVars == <<hmVars, ctxVars, pluginVars>>
queueVars == <<jobVars, doneVars, optVars>>
libVars == <<asyncVars, curlVars, settingVars>>
gameLocals == <<gret, gctx, gopt, gthis>>

vars == <<objectVars, queueVars, libVars, gpc, gameLocals, epc, ectx>>

JobQ == INSTANCE LockedQueue WITH lock <- job_lock, queue <- job_queue
DoneQ == INSTANCE LockedQueue WITH lock <- done_lock, queue <- done_queue
OptQ == INSTANCE LockedQueue WITH lock <- option_lock, queue <- option_queue

\* The numbers that can reach curl_multi_setopt as a key.
OptionKeys == {call[1] : call \in GlobalIntCalls} \cup
              {call[2] : call \in GlobalIntCalls}
OptionValues == {call[2] : call \in GlobalIntCalls} \cup {0}
NoOption == [key |-> 0, value |-> 0]
Option == [key : OptionKeys, value : OptionValues] \cup {NoOption}

(***************************************************************************)
(* The state SDK_OnLoad leaves behind: nothing queued, the event thread    *)
(* polling, the plugins that were loaded before the extension registered.  *)
(***************************************************************************)
Init ==
    /\ HMInit
    /\ in_event_thread = [c \in Contexts |-> FALSE]
    /\ handle_closed = [c \in Contexts |-> FALSE]
    /\ sourcepawn_plugin_context = [c \in Contexts |-> NoPlugin]
    /\ sourcepawn_handle = [c \in Contexts |-> 0]
    /\ creator = [c \in Contexts |-> 0]
    /\ g_plugin_contexts \in SUBSET Plugins
    /\ instance = [p \in Plugins |-> IF p \in g_plugin_contexts THEN 1 ELSE 0]
    /\ JobQ!Init /\ DoneQ!Init /\ OptQ!Init
    /\ async_add = FALSE /\ async_settings = FALSE /\ async_stop = FALSE
    /\ stop_flag = FALSE
    /\ multi = {} /\ msgs = << >>
    /\ multi_options = [k \in OptionKeys |-> 0]
    /\ asked = [k \in OptionKeys |-> 0]
    /\ gpc = "plugin" /\ gret = "plugin"
    /\ gctx = NoContext /\ gopt = NoOption /\ gthis = NoContext
    /\ epc = "poll" /\ ectx = NoContext

(***************************************************************************)
(* Game thread: natives (natives.cpp), called by plugin code that runs     *)
(* either on its own or inside a completion callback.                      *)
(***************************************************************************)
NativeCall == gpc \in {"plugin", "callback"} /\ g_plugin_contexts # {}

\* Mutant: the macro forgets in_event_thread.
Usable_NoBusyCheck(h) == IsHandle(h)

\* GET_CURL_CONTEXT_MACRO lets the native go on with this handle.
Usable(h) == IsHandle(h) /\ ~in_event_thread[GetCurlPointer(h)]

\* CurlNew: operator new gives an unused address, the constructor and CurlNew
\* set the fields.  When NewHandle fails the context is deleted at once.
CurlNew(p, c) ==
    /\ NativeCall /\ p \in g_plugin_contexts
    /\ New(c)
    /\ in_event_thread' = [in_event_thread EXCEPT ![c] = FALSE]
    /\ handle_closed' = [handle_closed EXCEPT ![c] = FALSE]
    /\ sourcepawn_plugin_context' = [sourcepawn_plugin_context EXCEPT ![c] = p]
    /\ sourcepawn_handle' = [sourcepawn_handle EXCEPT ![c] = NewHandleResult]
    /\ creator' = [creator EXCEPT ![c] = instance[p]]
    /\ UNCHANGED <<pluginVars, queueVars, libVars, gameVars, eventVars>>

CurlNewFails ==
    /\ NativeCall
    /\ NewHandleFails
    /\ UNCHANGED <<ctxVars, pluginVars, queueVars, libVars, gameVars,
                   eventVars>>

\* FreeHandle deletes the context c that the number h names; what its memory
\* held is gone.
FreeContext(h, c) ==
    /\ FreeHandle(h)
    /\ in_event_thread' = [in_event_thread EXCEPT ![c] = FALSE]
    /\ handle_closed' = [handle_closed EXCEPT ![c] = FALSE]
    /\ sourcepawn_plugin_context' =
            [sourcepawn_plugin_context EXCEPT ![c] = NoPlugin]
    /\ sourcepawn_handle' = [sourcepawn_handle EXCEPT ![c] = 0]
    /\ creator' = [creator EXCEPT ![c] = 0]

\* Mutant: a request in flight is freed too.
Close_NoBusyCheck(h) ==
    /\ NativeCall /\ IsHandle(h)
    /\ FreeContext(h, GetCurlPointer(h))
    /\ UNCHANGED <<pluginVars, queueVars, libVars, gameVars, eventVars>>

\* Close: a request in flight is only marked, any other is freed at once.
Close(h) ==
    /\ NativeCall /\ IsHandle(h)
    /\ \/ /\ in_event_thread[GetCurlPointer(h)]
          /\ handle_closed' = [handle_closed EXCEPT ![GetCurlPointer(h)] = TRUE]
          /\ UNCHANGED <<hmVars, in_event_thread, sourcepawn_plugin_context,
                         sourcepawn_handle, creator>>
       \/ /\ ~in_event_thread[GetCurlPointer(h)]
          /\ FreeContext(h, GetCurlPointer(h))
    /\ UNCHANGED <<pluginVars, queueVars, libVars, gameVars, eventVars>>

\* OnCurlStarted claims the context for the event thread; the compression of a
\* post body, which only this context sees, is left out.
OnCurlStarted(c) == in_event_thread' = [in_event_thread EXCEPT ![c] = TRUE]

\* CurlGet, CurlPost, CurlPostRaw, CurlPostRawCompress and CurlStart, up to
\* AddCurlJob's call of OnCurlStarted.
StartRequest(h) ==
    /\ NativeCall /\ Usable(h)
    /\ OnCurlStarted(GetCurlPointer(h))
    /\ gctx' = GetCurlPointer(h) /\ gret' = gpc /\ gpc' = "add_lock"
    /\ UNCHANGED <<hmVars, handle_closed, sourcepawn_plugin_context,
                   sourcepawn_handle, creator, pluginVars, queueVars, libVars,
                   gopt, gthis, eventVars>>

\* AddCurlJob: Lock, Push, Unlock.  The event thread is not woken here.
AddCurlJobLock ==
    /\ gpc = "add_lock" /\ JobQ!Lock("game")
    /\ gpc' = "add_push"
    /\ UNCHANGED <<objectVars, job_queue, doneVars, optVars, libVars,
                   gameLocals, eventVars>>

\* Mutant: the pointer is cleared before it is pushed.
AddCurlJobPush_Cleared ==
    /\ gpc = "add_push" /\ JobQ!Push(NoContext)
    /\ gpc' = "add_unlock" /\ gctx' = NoContext
    /\ UNCHANGED <<objectVars, job_lock, doneVars, optVars, libVars, gret,
                   gopt, gthis, eventVars>>

AddCurlJobPush ==
    /\ gpc = "add_push" /\ JobQ!Push(gctx)
    /\ gpc' = "add_unlock" /\ gctx' = NoContext
    /\ UNCHANGED <<objectVars, job_lock, doneVars, optVars, libVars, gret,
                   gopt, gthis, eventVars>>

AddCurlJobUnlock ==
    /\ gpc = "add_unlock" /\ JobQ!Unlock
    /\ gpc' = gret
    /\ UNCHANGED <<objectVars, job_queue, doneVars, optVars, libVars,
                   gameLocals, eventVars>>

\* CurlSetGlobalInt(params) takes the option from params[1] and the value from
\* params[2]; ChangeCurlSettings allocates the queue item.
CurlSetGlobalInt(params) ==
    /\ NativeCall /\ Len(option_queue) < MaxOptions
    /\ gopt' = [key |-> params[1], value |-> params[2]]
    /\ asked' = [asked EXCEPT ![params[1]] = params[2]]
    /\ gret' = gpc /\ gpc' = "opt_lock"
    /\ UNCHANGED <<objectVars, queueVars, asyncVars, curlVars, multi_options,
                   gctx, gthis, eventVars>>

\* ChangeCurlSettings: Lock, Push, Unlock, then wake the event thread.
ChangeCurlSettingsLock ==
    /\ gpc = "opt_lock" /\ OptQ!Lock("game")
    /\ gpc' = "opt_push"
    /\ UNCHANGED <<objectVars, jobVars, doneVars, option_queue, libVars,
                   gameLocals, eventVars>>

ChangeCurlSettingsPush ==
    /\ gpc = "opt_push" /\ OptQ!Push(gopt)
    /\ gpc' = "opt_unlock" /\ gopt' = NoOption
    /\ UNCHANGED <<objectVars, jobVars, doneVars, option_lock, libVars, gret,
                   gctx, gthis, eventVars>>

\* Mutant: the event thread is not woken.
ChangeCurlSettingsUnlock_NoSend ==
    /\ gpc = "opt_unlock" /\ OptQ!Unlock
    /\ gpc' = gret
    /\ UNCHANGED <<objectVars, jobVars, doneVars, option_queue, libVars,
                   gameLocals, eventVars>>

ChangeCurlSettingsUnlock ==
    /\ gpc = "opt_unlock" /\ OptQ!Unlock
    /\ gpc' = "opt_send"
    /\ UNCHANGED <<objectVars, jobVars, doneVars, option_queue, libVars,
                   gameLocals, eventVars>>

ChangeCurlSettingsSend ==
    /\ gpc = "opt_send" /\ async_settings' = TRUE
    /\ gpc' = gret
    /\ UNCHANGED <<objectVars, queueVars, async_add, async_stop, stop_flag,
                   curlVars, settingVars, gameLocals, eventVars>>

(***************************************************************************)
(* Game thread: the frame hook.  Both calls of Empty outside the lock race *)
(* with the event thread; each reads the state before or after its push or *)
(* pop, which is what the interleaving of the steps gives.                 *)
(***************************************************************************)
\* Mutant: the frame hook only looks for finished requests.
FrameCheckJobs_NoWake ==
    /\ gpc = "plugin"
    /\ gpc' = "frame_done"
    /\ UNCHANGED <<objectVars, queueVars, libVars, gameLocals, eventVars>>

FrameCheckJobs ==
    /\ gpc = "plugin"
    /\ gpc' = IF JobQ!Empty THEN "frame_done" ELSE "frame_send"
    /\ UNCHANGED <<objectVars, queueVars, libVars, gameLocals, eventVars>>

FrameSend ==
    /\ gpc = "frame_send" /\ async_add' = TRUE
    /\ gpc' = "frame_done"
    /\ UNCHANGED <<objectVars, queueVars, async_settings, async_stop,
                   stop_flag, curlVars, settingVars, gameLocals, eventVars>>

FrameCheckDone ==
    /\ gpc = "frame_done"
    /\ gpc' = IF DoneQ!Empty THEN "plugin" ELSE "frame_lock"
    /\ UNCHANGED <<objectVars, queueVars, libVars, gameLocals, eventVars>>

FrameLock ==
    /\ gpc = "frame_lock" /\ DoneQ!Lock("game")
    /\ gpc' = "frame_loop"
    /\ UNCHANGED <<objectVars, jobVars, done_queue, optVars, libVars,
                   gameLocals, eventVars>>

\* GetSourcepawnFunction may find the function only if the plugin's address is
\* in g_plugin_contexts; GetFunctionById may still refuse the id.
FunctionFound(c) ==
    {found \in BOOLEAN : found => sourcepawn_plugin_context[c] \in g_plugin_contexts}

\* Mutants: handle_closed is forgotten; the context of a closed request is
\* released and not freed; a request stays claimed after its callback.
OnCurlCompletedGameThread_NoClosedCheck(c) ==
    \E found \in FunctionFound(c) :
       \/ /\ found
          /\ in_event_thread' = [in_event_thread EXCEPT ![c] = FALSE]
          /\ gpc' = "callback" /\ gthis' = c
          /\ UNCHANGED <<hmVars, handle_closed, sourcepawn_plugin_context,
                         sourcepawn_handle, creator>>
       \/ /\ ~found
          /\ FreeContext(sourcepawn_handle[c], c)
          /\ UNCHANGED <<gpc, gthis>>

OnCurlCompletedGameThread_NoFree(c) ==
    /\ in_event_thread' = [in_event_thread EXCEPT ![c] = FALSE]
    /\ \E found \in FunctionFound(c) :
          \/ found /\ ~handle_closed[c] /\ gpc' = "callback" /\ gthis' = c
          \/ (~found \/ handle_closed[c]) /\ UNCHANGED <<gpc, gthis>>
    /\ UNCHANGED <<hmVars, handle_closed, sourcepawn_plugin_context,
                   sourcepawn_handle, creator>>

OnCurlCompletedGameThread_StaysBusy(c) ==
    \E found \in FunctionFound(c) :
       \/ /\ found /\ ~handle_closed[c]
          /\ gpc' = "callback" /\ gthis' = c
          /\ UNCHANGED <<hmVars, ctxVars>>
       \/ /\ ~found \/ handle_closed[c]
          /\ FreeContext(sourcepawn_handle[c], c)
          /\ UNCHANGED <<gpc, gthis>>

\* OnCurlCompletedGameThread up to func->Execute: the context is freed when the
\* plugin is gone or the handle was closed in the meantime, otherwise the
\* plugin's callback starts, with g_curl_done_queue still locked.
OnCurlCompletedGameThread(c) ==
    \E found \in FunctionFound(c) :
       \/ /\ found /\ ~handle_closed[c]
          /\ in_event_thread' = [in_event_thread EXCEPT ![c] = FALSE]
          /\ gpc' = "callback" /\ gthis' = c
          /\ UNCHANGED <<hmVars, handle_closed, sourcepawn_plugin_context,
                         sourcepawn_handle, creator>>
       \/ /\ ~found \/ handle_closed[c]
          /\ FreeContext(sourcepawn_handle[c], c)
          /\ UNCHANGED <<gpc, gthis>>

FrameDeliver ==
    /\ gpc = "frame_loop" /\ ~DoneQ!Empty
    /\ DoneQ!Pop
    /\ OnCurlCompletedGameThread(DoneQ!Front)
    /\ UNCHANGED <<pluginVars, jobVars, done_lock, optVars, libVars, gret,
                   gctx, gopt, eventVars>>

CallbackReturn ==
    /\ gpc = "callback"
    /\ gpc' = "frame_loop" /\ gthis' = NoContext
    /\ UNCHANGED <<objectVars, queueVars, libVars, gret, gctx, gopt,
                   eventVars>>

FrameUnlock ==
    /\ gpc = "frame_loop" /\ DoneQ!Empty
    /\ DoneQ!Unlock
    /\ gpc' = "plugin"
    /\ UNCHANGED <<objectVars, jobVars, done_queue, optVars, libVars,
                   gameLocals, eventVars>>

(***************************************************************************)
(* Game thread: plugins come and go between frames (PluginsListener), and  *)
(* the extension is unloaded (SDK_OnUnload).                               *)
(***************************************************************************)
OnPluginLoaded(p) ==
    /\ gpc = "plugin" /\ p \notin g_plugin_contexts
    /\ instance[p] < MaxInstances
    /\ g_plugin_contexts' = g_plugin_contexts \cup {p}
    /\ instance' = [instance EXCEPT ![p] = @ + 1]
    /\ UNCHANGED <<hmVars, ctxVars, queueVars, libVars, gameVars, eventVars>>

\* Mutant: the plugin's contexts are deleted behind the table's back.
OnPluginUnloaded_DeletesContexts(p) ==
    /\ gpc = "plugin" /\ p \in g_plugin_contexts
    /\ g_plugin_contexts' = g_plugin_contexts \ {p}
    /\ heap' = {c \in heap : sourcepawn_plugin_context[c] # p}
    /\ UNCHANGED <<next_handle, freed_handles, used_handles, cleaned, ctxVars,
                   instance, queueVars, libVars, gameVars, eventVars>>

OnPluginUnloaded(p) ==
    /\ gpc = "plugin" /\ p \in g_plugin_contexts
    /\ g_plugin_contexts' = g_plugin_contexts \ {p}
    /\ UNCHANGED <<hmVars, ctxVars, instance, queueVars, libVars, gameVars,
                   eventVars>>

SDK_OnUnload ==
    /\ gpc = "plugin" /\ async_stop' = TRUE
    /\ gpc' = "join"
    /\ UNCHANGED <<objectVars, queueVars, async_add, async_settings, stop_flag,
                   curlVars, settingVars, gameLocals, eventVars>>

\* uv_thread_join returns; every context that has a handle is deleted, and
\* curl_easy_cleanup takes its transfer out of the multi handle.
FinishUnload ==
    /\ gpc = "join" /\ epc = "ended"
    /\ CleanHandles
    /\ multi' = multi \ Pointers
    /\ gpc' = "unloaded"
    /\ UNCHANGED <<ctxVars, pluginVars, queueVars, asyncVars, msgs, settingVars,
                   gameLocals, eventVars>>

(***************************************************************************)
(* Event thread: async callbacks.  uv_run clears the pending flag of an    *)
(* async handle before it calls back, so a send during the callback is     *)
(* seen in a later iteration.                                              *)
(***************************************************************************)
AsyncAddJobs ==
    /\ epc = "poll" /\ async_add
    /\ async_add' = FALSE /\ epc' = "add_lock"
    /\ UNCHANGED <<objectVars, queueVars, async_settings, async_stop, stop_flag,
                   curlVars, settingVars, gameVars, ectx>>

AsyncAddJobsLock ==
    /\ epc = "add_lock" /\ JobQ!Lock("event")
    /\ epc' = "add_loop"
    /\ UNCHANGED <<objectVars, job_queue, doneVars, optVars, libVars, gameVars,
                   ectx>>

\* Mutant: the loop looks at the front job and never pops it.
ProcessCurlJob_NoPop ==
    /\ epc = "add_loop" /\ ~JobQ!Empty
    /\ multi' = multi \cup {JobQ!Front}
    /\ UNCHANGED <<objectVars, queueVars, asyncVars, msgs, settingVars,
                   gameVars, eventVars>>

\* One round of the loop: Pop and ProcessCurlJob.  The result of
\* curl_multi_add_handle is not looked at.
ProcessCurlJob ==
    /\ epc = "add_loop" /\ ~JobQ!Empty
    /\ JobQ!Pop
    /\ \/ multi' = multi \cup {JobQ!Front}
       \/ AddMayFail /\ UNCHANGED multi
    /\ UNCHANGED <<objectVars, job_lock, doneVars, optVars, asyncVars, msgs,
                   settingVars, gameVars, eventVars>>

\* Mutant: the callback returns with the mutex locked.
AsyncAddJobsUnlock_Held ==
    /\ epc = "add_loop" /\ JobQ!Empty
    /\ epc' = "poll"
    /\ UNCHANGED <<objectVars, queueVars, libVars, gameVars, ectx>>

AsyncAddJobsUnlock ==
    /\ epc = "add_loop" /\ JobQ!Empty
    /\ JobQ!Unlock
    /\ epc' = "poll"
    /\ UNCHANGED <<objectVars, job_queue, doneVars, optVars, libVars, gameVars,
                   ectx>>

AsyncChangeCurlSettings ==
    /\ epc = "poll" /\ async_settings
    /\ async_settings' = FALSE /\ epc' = "opt_lock"
    /\ UNCHANGED <<objectVars, queueVars, async_add, async_stop, stop_flag,
                   curlVars, settingVars, gameVars, ectx>>

\* Mutant: the settings are read without their mutex.
AsyncChangeCurlSettingsLock_NoLock ==
    /\ epc = "opt_lock"
    /\ epc' = "opt_loop"
    /\ UNCHANGED <<objectVars, queueVars, libVars, gameVars, ectx>>

AsyncChangeCurlSettingsLock ==
    /\ epc = "opt_lock" /\ OptQ!Lock("event")
    /\ epc' = "opt_loop"
    /\ UNCHANGED <<objectVars, jobVars, doneVars, option_queue, libVars,
                   gameVars, ectx>>

\* Mutant: the newest setting is applied first.
ApplyCurlSetting_Newest ==
    /\ epc = "opt_loop" /\ ~OptQ!Empty
    /\ option_queue' = Pop(option_queue)
    /\ multi_options' = [multi_options EXCEPT ![Top(option_queue).key] =
                                                  Top(option_queue).value]
    /\ UNCHANGED <<objectVars, jobVars, doneVars, option_lock, asyncVars,
                   curlVars, asked, gameVars, eventVars>>

ApplyCurlSetting ==
    /\ epc = "opt_loop" /\ ~OptQ!Empty
    /\ OptQ!Pop
    /\ multi_options' = [multi_options EXCEPT ![OptQ!Front.key] = OptQ!Front.value]
    /\ UNCHANGED <<objectVars, jobVars, doneVars, option_lock, asyncVars,
                   curlVars, asked, gameVars, eventVars>>

AsyncChangeCurlSettingsUnlock ==
    /\ epc = "opt_loop" /\ OptQ!Empty
    /\ OptQ!Unlock
    /\ epc' = "poll"
    /\ UNCHANGED <<objectVars, jobVars, doneVars, option_queue, libVars,
                   gameVars, ectx>>

\* AsyncStopLoop: uv_stop only sets a flag; uv_run returns at the end of the
\* iteration, after other callbacks may have run.
AsyncStopLoop ==
    /\ epc = "poll" /\ async_stop
    /\ async_stop' = FALSE /\ stop_flag' = TRUE
    /\ UNCHANGED <<objectVars, queueVars, async_add, async_settings, curlVars,
                   settingVars, gameVars, eventVars>>

EventLoopReturns ==
    /\ epc = "poll" /\ stop_flag
    /\ epc' = "ended"
    /\ UNCHANGED <<objectVars, queueVars, libVars, gameVars, ectx>>

(***************************************************************************)
(* Event thread: curl.  RunCurlJobs (the timer) and CurlSocketActivity (a  *)
(* socket) both call curl_multi_socket_action, during which any number of  *)
(* transfers may finish or time out, and then CheckCompletedCurlJobs.  A   *)
(* kept connection may call it when there is no transfer at all.           *)
(***************************************************************************)
CurlSocketAction ==
    /\ epc = "poll"
    /\ epc' = "curl"
    /\ UNCHANGED <<objectVars, queueVars, libVars, gameVars, ectx>>

TransferDone(c) ==
    /\ epc = "curl" /\ c \in multi /\ c \notin Range(msgs)
    /\ msgs' = Append(msgs, c)
    /\ UNCHANGED <<objectVars, queueVars, asyncVars, multi, settingVars,
                   gameVars, eventVars>>

CurlSocketActionReturns ==
    /\ epc = "curl"
    /\ epc' = "check"
    /\ UNCHANGED <<objectVars, queueVars, libVars, gameVars, ectx>>

\* Mutant: the context is released before the frame hook has it.
CheckCompletedCurlJobs_EarlyRelease ==
    /\ epc = "check" /\ msgs # << >>
    /\ msgs' = Tail(msgs) /\ multi' = multi \ {Head(msgs)}
    /\ ectx' = Head(msgs) /\ epc' = "done_lock"
    /\ in_event_thread' = [in_event_thread EXCEPT ![Head(msgs)] = FALSE]
    /\ UNCHANGED <<hmVars, handle_closed, sourcepawn_plugin_context,
                   sourcepawn_handle, creator, pluginVars, queueVars,
                   asyncVars, settingVars, gameVars>>

\* curl_multi_info_read yields a CURLMSG_DONE: take the transfer out of the
\* multi handle and let OnCurlCompleted drop the post body.
CheckCompletedCurlJobs ==
    /\ epc = "check" /\ msgs # << >>
    /\ msgs' = Tail(msgs) /\ multi' = multi \ {Head(msgs)}
    /\ ectx' = Head(msgs) /\ epc' = "done_lock"
    /\ UNCHANGED <<objectVars, queueVars, asyncVars, settingVars, gameVars>>

CompletedLock ==
    /\ epc = "done_lock" /\ DoneQ!Lock("event")
    /\ epc' = "done_push"
    /\ UNCHANGED <<objectVars, jobVars, done_queue, optVars, libVars, gameVars,
                   ectx>>

CompletedPush ==
    /\ epc = "done_push" /\ DoneQ!Push(ectx)
    /\ epc' = "done_unlock" /\ ectx' = NoContext
    /\ UNCHANGED <<objectVars, jobVars, done_lock, optVars, libVars, gameVars>>

\* Mutant: one message is read for each call of curl.
CompletedUnlock_ReadsOne ==
    /\ epc = "done_unlock" /\ DoneQ!Unlock
    /\ epc' = "poll"
    /\ UNCHANGED <<objectVars, jobVars, done_queue, optVars, libVars, gameVars,
                   ectx>>

CompletedUnlock ==
    /\ epc = "done_unlock" /\ DoneQ!Unlock
    /\ epc' = "check"
    /\ UNCHANGED <<objectVars, jobVars, done_queue, optVars, libVars, gameVars,
                   ectx>>

NoMoreMessages ==
    /\ epc = "check" /\ msgs = << >>
    /\ epc' = "poll"
    /\ UNCHANGED <<objectVars, queueVars, libVars, gameVars, ectx>>

(***************************************************************************)
(* The whole.                                                              *)
(***************************************************************************)
Natives ==
    \/ \E p \in Plugins, c \in Contexts : CurlNew(p, c)
    \/ CurlNewFails
    \/ \E h \in 1..MaxInt : Close(h) \/ StartRequest(h)
    \/ \E params \in GlobalIntCalls : CurlSetGlobalInt(params)

\* The steps of a native or of the frame hook that follow its first one.
GameContinues ==
    \/ AddCurlJobLock \/ AddCurlJobPush \/ AddCurlJobUnlock
    \/ ChangeCurlSettingsLock \/ ChangeCurlSettingsPush
    \/ ChangeCurlSettingsUnlock \/ ChangeCurlSettingsSend
    \/ FrameSend \/ FrameCheckDone \/ FrameLock \/ FrameDeliver \/ FrameUnlock
    \/ FinishUnload

GameThread ==
    \/ Natives
    \/ FrameCheckJobs
    \/ GameContinues
    \/ CallbackReturn
    \/ \E p \in Plugins : OnPluginLoaded(p) \/ OnPluginUnloaded(p)
    \/ SDK_OnUnload

\* The steps of a callback of the event loop that follow its first one.
EventContinues ==
    \/ AsyncAddJobsLock \/ ProcessCurlJob \/ AsyncAddJobsUnlock
    \/ AsyncChangeCurlSettingsLock \/ ApplyCurlSetting
    \/ AsyncChangeCurlSettingsUnlock
    \/ CheckCompletedCurlJobs \/ CompletedLock \/ CompletedPush
    \/ CompletedUnlock \/ NoMoreMessages

EventThread ==
    \/ AsyncAddJobs \/ AsyncChangeCurlSettings \/ AsyncStopLoop
    \/ CurlSocketAction \/ CurlSocketActionReturns
    \/ \E c \in Contexts : TransferDone(c)
    \/ EventContinues
    \/ EventLoopReturns

\* The extension has been unloaded; nothing more happens.
Unloaded == gpc = "unloaded" /\ UNCHANGED vars

Next == GameThread \/ EventThread \/ Unloaded

Spec == Init /\ [][Next]_vars

(***************************************************************************)
(* Fairness.  Both threads keep running, mutexes included; the server      *)
(* keeps calling the frame hook and plugin callbacks return; each loop     *)
(* iteration serves every pending async handle and ends; a call of curl    *)
(* returns.  Nothing is assumed about when curl is called: CurlEventLoop   *)
(* shows that the code does not guarantee that it is called again.         *)
(***************************************************************************)
RequestFairness ==
    /\ WF_vars(GameContinues)
    /\ SF_vars(FrameCheckJobs)
    /\ SF_vars(CallbackReturn)
    /\ WF_vars(EventContinues)
    /\ SF_vars(AsyncAddJobs)
    /\ WF_vars(CurlSocketActionReturns)

Fairness ==
    /\ RequestFairness
    /\ SF_vars(AsyncChangeCurlSettings)
    /\ SF_vars(AsyncStopLoop)
    /\ SF_vars(EventLoopReturns)

FairSpec == Spec /\ Fairness

(***************************************************************************)
(* Safety.                                                                 *)
(***************************************************************************)

GamePC == {"plugin", "callback", "frame_send", "frame_done", "frame_lock",
           "frame_loop", "add_lock", "add_push", "add_unlock", "opt_lock",
           "opt_push", "opt_unlock", "opt_send", "join", "unloaded"}
EventPC == {"poll", "add_lock", "add_loop", "opt_lock", "opt_loop", "curl",
            "check", "done_lock", "done_push", "done_unlock", "ended"}
Holder == {"free", "game", "event"}

ObjectTypes ==
    /\ in_event_thread \in [Contexts -> BOOLEAN]
    /\ handle_closed \in [Contexts -> BOOLEAN]
    /\ sourcepawn_plugin_context \in [Contexts -> Plugins \cup {NoPlugin}]
    /\ sourcepawn_handle \in [Contexts -> Nat]
    /\ creator \in [Contexts -> Nat]
    /\ g_plugin_contexts \in SUBSET Plugins
    /\ instance \in [Plugins -> Nat]

QueueTypes ==
    /\ job_lock \in Holder /\ done_lock \in Holder /\ option_lock \in Holder
    /\ job_queue \in Seq(Contexts) /\ done_queue \in Seq(Contexts)
    /\ option_queue \in Seq(Option)

LibraryTypes ==
    /\ async_add \in BOOLEAN /\ async_settings \in BOOLEAN
    /\ async_stop \in BOOLEAN /\ stop_flag \in BOOLEAN
    /\ multi \in SUBSET Contexts /\ msgs \in Seq(Contexts)
    /\ multi_options \in [OptionKeys -> OptionValues]
    /\ asked \in [OptionKeys -> OptionValues]

ThreadTypes ==
    /\ gpc \in GamePC /\ gret \in {"plugin", "callback"}
    /\ gctx \in Contexts \cup {NoContext} /\ gthis \in Contexts \cup {NoContext}
    /\ gopt \in Option
    /\ epc \in EventPC /\ ectx \in Contexts \cup {NoContext}

\* The type of every variable the two threads work on.
TypeOK == HMTypeOK /\ ObjectTypes /\ QueueTypes /\ LibraryTypes /\ ThreadTypes

\* Where a started request can be: in AddCurlJob's hands, in g_curl_queue, in
\* the multi handle, in CheckCompletedCurlJobs' hands, in g_curl_done_queue.
Places(c) ==
    {x \in {"AddCurlJob", "job_queue", "multi", "CheckCompleted", "done_queue"} :
        \/ x = "AddCurlJob" /\ gctx = c
        \/ x = "job_queue" /\ c \in JobQ!Members
        \/ x = "multi" /\ c \in multi
        \/ x = "CheckCompleted" /\ ectx = c
        \/ x = "done_queue" /\ c \in DoneQ!Members}

\* Nothing either thread still holds or will pop has been deleted: Close,
\* FreeHandle and the discarding of a completed request never leave a dangling
\* CurlContext* in a queue, in curl or in the event thread's hands.
NoDanglingContext ==
    ~cleaned => \A c \in Contexts : Places(c) # {} => c \in heap

\* A started request is in one place, once: it is never handed to curl twice,
\* never completed twice and never delivered twice, however starts from plugin
\* code and from callbacks interleave with completions.
InOnePlace ==
    /\ \A c \in Contexts : \A x, y \in Places(c) : x = y
    /\ JobQ!Distinct /\ DoneQ!Distinct
    /\ IsInjective(msgs)
    /\ Range(msgs) \subseteq multi

\* While a native may touch a context (GET_CURL_CONTEXT_MACRO passes) neither
\* the event thread nor curl can reach it: the fields of CurlContext need no
\* lock.
NativesHaveItAlone ==
    \A h \in DOMAIN used_handles :
        ~cleaned /\ Usable(h) => Places(GetCurlPointer(h)) = {}

\* A context marked as being in the event thread is really on its way, so its
\* handle cannot stay unusable for ever (unless curl refused the transfer).
NotStranded ==
    \A c \in heap : in_event_thread[c] => AddMayFail \/ Places(c) # {}

\* A context knows its own handle number, so the frame hook frees the context
\* it just popped and not a later owner of a recycled number.
HandleNamesItself ==
    \A c \in heap : /\ IsHandle(sourcepawn_handle[c])
                    /\ GetCurlPointer(sourcepawn_handle[c]) = c

\* The game thread is in a completion callback, or in a native called from one.
InNative == gpc \in {"add_lock", "add_push", "add_unlock",
                     "opt_lock", "opt_push", "opt_unlock", "opt_send"}
DuringCallback == gpc = "callback" \/ (InNative /\ gret = "callback")

\* The std::deques are never modified by two threads at once, also while a
\* native called from a completion callback holds two mutexes.
QueuesAreRaceFree ==
    /\ ~(gpc \in {"add_push", "add_unlock"} /\ epc = "add_loop")
    /\ ~(gpc \in {"opt_push", "opt_unlock"} /\ epc = "opt_loop")
    /\ ~((gpc = "frame_loop" \/ DuringCallback) /\ epc \in {"done_push", "done_unlock"})

\* The holder of the mutex a thread is about to take; the game thread also waits
\* in SDK_OnUnload, for the event thread to end.
GameWaitsFor ==
    CASE gpc = "add_lock" -> job_lock
      [] gpc = "opt_lock" -> option_lock
      [] gpc = "frame_lock" -> done_lock
      [] gpc = "join" -> "event"
      [] OTHER -> "free"

EventWaitsFor ==
    CASE epc = "add_lock" -> job_lock
      [] epc = "opt_lock" -> option_lock
      [] epc = "done_lock" -> done_lock
      [] OTHER -> "free"

\* Neither thread waits for itself, nor both for each other, although a native
\* called from a completion callback takes a second mutex, and the unload waits
\* for the event thread.
NoDeadlock ==
    /\ GameWaitsFor # "game" /\ EventWaitsFor # "event"
    /\ ~(GameWaitsFor = "event" /\ EventWaitsFor = "game")

\* No lost wake-up: while a setting is queued, the event thread has been told,
\* is about to look, or the native that queued it is about to tell it.
SettingsWakeLoop ==
    \/ OptQ!Empty
    \/ async_settings
    \/ gpc \in {"opt_unlock", "opt_send"}
    \/ epc \in {"opt_lock", "opt_loop"}

\* Settings are applied in the order of the calls: once none is on its way,
\* every multi option has the value last given for it, that is, given to
\* ChangeCurlSettings (SettingsAreTheOnesAsked is about what a plugin gives).
LastSettingWins ==
    OptQ!Empty /\ gopt = NoOption => multi_options = asked

\* Whatever a plugin does in a completion callback (close, start, create), and
\* whatever the event thread does meanwhile, the list that the frame hook is
\* working through stays as it is, and each request in flight stays allocated and
\* claimed, with its number and its plugin; a close of it is not forgotten.
CallbackLeavesRequests ==
    [][DuringCallback =>
          /\ UNCHANGED done_queue
          /\ \A c \in heap : in_event_thread[c] =>
                /\ c \in heap' /\ in_event_thread'[c]
                /\ sourcepawn_handle'[c] = sourcepawn_handle[c]
                /\ sourcepawn_plugin_context'[c] = sourcepawn_plugin_context[c]
                /\ handle_closed[c] => handle_closed'[c]]_vars

(***************************************************************************)
(* The inductive invariant: the properties above hold because each mutex   *)
(* is held exactly in the sections between its Lock and Unlock, a pointer  *)
(* is in a thread's hands exactly while AddCurlJob or                      *)
(* CheckCompletedCurlJobs passes it on, and a context that is in any place *)
(* is allocated and claimed.                                               *)
(***************************************************************************)
LocksHeld ==
    /\ job_lock = "game" <=> gpc \in {"add_push", "add_unlock"}
    /\ job_lock = "event" <=> epc = "add_loop"
    /\ option_lock = "game" <=> gpc \in {"opt_push", "opt_unlock"}
    /\ option_lock = "event" <=> epc = "opt_loop"
    /\ done_lock = "game" <=> gpc = "frame_loop" \/ DuringCallback
    /\ done_lock = "event" <=> epc \in {"done_push", "done_unlock"}

InHand ==
    /\ gctx # NoContext <=> gpc \in {"add_lock", "add_push"}
    /\ gthis # NoContext <=> DuringCallback
    /\ ectx # NoContext <=> epc \in {"done_lock", "done_push"}

\* The event thread ends only because of SDK_OnUnload, and the contexts are
\* deleted only after it has ended.
UnloadOrder ==
    /\ async_stop \/ stop_flag \/ epc = "ended" => gpc \in {"join", "unloaded"}
    /\ cleaned <=> gpc = "unloaded"
    /\ cleaned => epc = "ended"

\* CheckCompletedCurlJobs leaves no message unread.
MessagesRead ==
    msgs # << >> => epc \in {"curl", "check", "done_lock", "done_push", "done_unlock"}

Custody ==
    ~cleaned => \A c \in Contexts :
        Places(c) # {} => c \in heap /\ in_event_thread[c]

ClosedIsInFlight ==
    \A c \in heap : handle_closed[c] => in_event_thread[c]

\* All of it: what holds between any two steps of the two threads.
Inv ==
    /\ TypeOK /\ HandlesPartition /\ TableOwnsHeap
    /\ LocksHeld /\ InHand /\ UnloadOrder /\ MessagesRead
    /\ HandleNamesItself /\ Custody /\ InOnePlace /\ ClosedIsInFlight

(***************************************************************************)
(* Refinement.                                                             *)
(***************************************************************************)
Phase(c) ==
    IF c \notin heap THEN "none"
    ELSE IF ~in_event_thread[c] THEN "idle"
    ELSE IF handle_closed[c] THEN "closing"
    ELSE "busy"

Lifecycle == INSTANCE RequestLifecycle WITH
    phase <- [c \in Contexts |-> Phase(c)], calling <- gthis, over <- cleaned

\* The two threads together implement the lifecycle of RequestLifecycle.
ImplementsLifecycle == Lifecycle!Spec

\* The handle table is only ever used the way HandleManager assumes.
ImplementsHandleManager == HMSpec

\* How far the event thread is with a call of curl.
Stage ==
    IF cleaned THEN "gone"
    ELSE IF epc = "curl" THEN "curl"
    ELSE IF epc \in {"check", "done_lock", "done_push", "done_unlock"} THEN "check"
    ELSE "poll"

Calls == INSTANCE CurlCalls WITH
    Transfers <- Contexts, running <- multi \ Range(msgs), finished <- Range(msgs),
    stage <- Stage

\* curl is used as CurlCalls says: no transfer is added twice or during a call, and
\* no completion is left unread or read twice, although the event thread gives up
\* control at each mutex in between.
ImplementsCurlCalls == Calls!Spec

(***************************************************************************)
(* Liveness, under FairSpec.                                               *)
(***************************************************************************)

\* curl ends every transfer it was given, as TransfersEnd of CurlEventLoop says.
CurlEndsTransfers ==
    \A c \in Contexts : []<>(c \notin multi \/ c \in Range(msgs))

\* If curl ends its transfers, every started request comes back to the plugin (or
\* is freed), unless the extension is unloaded first: a frame wakes the event
\* thread for whatever is queued, and no mutex keeps either thread out.
RequestsComplete ==
    CurlEndsTransfers =>
        \A c \in Contexts :
            in_event_thread[c] ~> (~in_event_thread[c] \/ gpc \in {"join", "unloaded"})

\* If curl ends its transfers, a request closed while it was in flight is freed in
\* the end (context.h: "close it when it times out or completes").
ClosedIsFreed ==
    CurlEndsTransfers =>
        \A c \in Contexts : (c \in heap /\ handle_closed[c]) ~> (c \notin heap)

\* Queued settings reach curl, unless the event loop is being stopped.
SettingsReachCurl == ~OptQ!Empty ~> (OptQ!Empty \/ gpc \in {"join", "unloaded"})

\* The game thread always gets back to the server: no native, frame hook or
\* unload waits for ever for a mutex or for the event thread.
GameThreadReturns ==
    gpc \notin {"plugin", "unloaded"} ~> gpc \in {"plugin", "unloaded"}

(***************************************************************************)
(* What the documentation and the comments say and the code does not do.   *)
(***************************************************************************)

\* async.inc: unless "your plugin gets unloaded, you must close all handles
\* yourself", that is, the handles of an unloaded plugin are closed for it.
HandlesOfUnloadedPluginsAreClosed ==
    \A c \in Contexts :
        (c \in heap /\ sourcepawn_plugin_context[c] \notin g_plugin_contexts)
            ~> (c \notin heap \/ sourcepawn_plugin_context[c] \in g_plugin_contexts)

\* context.cpp: "the plugin that called us disappeared, delete ourselves", that
\* is, a callback only runs in the plugin that made the request.
CallbackOnlyInCreator ==
    [][gpc = "frame_loop" /\ gpc' = "callback" =>
          creator[gthis'] = instance[sourcepawn_plugin_context[gthis']]]_vars

\* async.inc declares Async_CurlSetGlobalInt(request, option, value): a multi
\* option is only ever set to a value some call gave for that option.
SettingsAreTheOnesAsked ==
    \A k \in OptionKeys :
        multi_options[k] # 0 =>
            \E call \in GlobalIntCalls : call[2] = k /\ call[3] = multi_options[k]
=============================================================================
