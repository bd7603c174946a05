# A TLA+ model of sourcemod-async

sourcemod-async is a SourceMod extension that gives SourcePawn plugins an
asynchronous HTTP client. This directory holds TLA+ modules that model it, the
TLC configurations that check them on small instances, and TLAPS proofs of the
properties that matter most. The code is in `src/`; `PROJECT.json` maps
definitions to its lines.

## 1. The system

Two threads share everything.

* The **game thread** runs plugin code, the natives it calls (`natives.cpp`), the
  frame hook `OnGameFrame`, the plugin listener, and load and unload of the
  extension (`extension.cpp`).
* The **event thread** runs `uv_run` and, from it, three async callbacks
  (`AsyncAddJobs`, `AsyncChangeCurlSettings`, `AsyncStopLoop`) and the curl glue
  (`RunCurlJobs`, `CurlSocketActivity`, `CurlSocketCallback`, `CurlTimeoutChange`,
  `CheckCompletedCurlJobs`).

A request is a `CurlContext`. It goes from a native through `g_curl_queue` into
curl's multi handle, and back through `g_curl_done_queue` to the frame hook, which
calls the plugin's callback. Global settings take a third queue.

| Component | State | Operations | What makes it correct |
|---|---|---|---|
| `HandleManager` (handles.cpp/.h) | `next_handle`, stack `freed_handles`, map `used_handles`, ownership of the contexts | `NewHandle`, `FreeHandle`, `GetCurlPointer`, `CleanHandles` | a number names one live context; none is lost, doubled or forgotten; every context is deleted once |
| `LockedQueue` (queue.h) | a deque and a mutex that the class does not tie together | `Lock`, `Unlock`, `Push`, `Pop`, `Empty` | callers never modify it from two threads at once |
| Natives (natives.cpp) | none of their own | `CurlNew`, `Close`, five that start a request, `CurlSetGlobalInt`, and those that set or read one easy handle | they only touch a context that the event thread cannot reach |
| `CurlContext` (context.cpp/.h) | easy handle, `in_event_thread`, `handle_closed`, owner plugin, callback, number, post body, headers, response | `AddHeader`, `OnCurlStarted`, `OnCurlCompleted`, `OnCurlCompletedGameThread` | each start ends in one callback or one discard; what is sent is what was asked for; the post body is freed once |
| Response (extension.cpp, natives.cpp, async.inc) | `response_headers`, `buffer` | `CurlReceiveHeaders`, `CurlReceiveData`, `CurlGetData`, `Async_CurlGetDataString`, the header natives | a plugin reads what was received, and only its own buffer is written |
| Frame hook | none | `OnGameFrame` | wakes the event thread for queued jobs; delivers what is done |
| Event thread, queues | multi handle | the async callbacks, `CheckCompletedCurlJobs` | loses no job and no setting, reports every completion once, never blocks for ever |
| Event thread, curl glue | `g_timeout`, `CurlSocketContext`s | `CurlTimeoutChange`, `RunCurlJobs`, `CurlSocketCallback`, `CurlSocketActivity`, `OnPollClosed` | curl is called when it wants to be; a socket context lives exactly as long as someone can use it |
| Plugin listener | `g_plugin_contexts` | `OnPluginLoaded`, `OnPluginUnloaded`, `GetSourcepawnFunction` | no callback into a plugin that is gone |
| Load and unload | the loop, the thread | `SDK_OnLoad`, `SDK_OnUnload` | nothing is deleted while the event thread can use it |

What is hard here: two threads with three mutexes, taken in nested order when a
plugin starts a request from a callback; two reads of a queue outside its mutex;
`uv_async_send`, whose calls coalesce; a close while the request is anywhere on
its way; numbers and addresses that are used again; the unload of a plugin or of
the extension in the middle of everything; a socket that curl removes and opens
again before libuv has closed its poll handle; one easy handle used for request
after request. `PROJECT.json` lists these under
`hazards`, each at its line.

## 2. The modules

| Module | What it is |
|---|---|
| `HandleManager` | the table of handle numbers: one action for each operation, with a specification of its own (`HMSpec`) |
| `LockedQueue` | the queue class; `AsyncExtension` instantiates it three times |
| `AsyncExtension` | both threads and all they share; extends `HandleManager` |
| `RequestLifecycle` | abstract specification: what a plugin is promised about a request, with no threads, queues or numbers |
| `CurlEventLoop` | when curl is called: the timer and the sockets of the event thread, with a clock |
| `CurlCalls` | abstract specification: how curl's multi interface is used; implemented by `AsyncExtension` |
| `EasyHandle` | one context and its easy handle over a series of requests |
| `Response` | what a plugin reads of a response |
| `MCHandleManager`, `MCAsyncExtension`, `MCCurlEventLoop`, `MCEasyHandle` | the instances for TLC (`Response` needs none) |
| `QueueLemmas` | lemmas about sequences used as queues and stacks, and about the least and the greatest member of a set of numbers |
| `HandleManagerProofs`, `AsyncExtensionProofs`, `NothingLostProofs`, `RefinementProofs`, `CurlEventLoopProofs`, `EasyHandleProofs`, `ResponseProofs` | theorems and proofs |

The parts fit together as follows. `AsyncExtension` knows only that curl is called;
`CurlEventLoop` knows only when. Both have transfers added between two calls, and
each call followed by the loop of `CheckCompletedCurlJobs`, which is why a step of the
one can be read as a step of the other; but no theorem joins the two. That
`AsyncExtension` really uses curl in this way, although that loop waits for a mutex
for each message, is `ImplementsCurlCalls`; `CurlEventLoop` has the calls one after
the other by its shape. `EasyHandle` and `Response` have no threads, because
`AsyncExtension!NativesHaveItAlone` says that a native and the event thread never
have the same context. Only the unload of the extension deletes a context that is
in flight, and `EasyHandle` has it at any moment (`CleanHandles`).

### How the state corresponds

Variables have the names of the fields and globals they model. `heap` is the set
of `CurlContext` objects that are allocated, and `Contexts` the set of addresses
they can have; an address is used again once it is free, as `operator new` may do.
`gpc` and `epc` say where each thread is, `gctx`, `gopt`, `ectx` are the local
variables that hold a pointer across a lock operation, `gthis` is the context whose
callback is running and `gret` the place a native returns to (plugin code on its
own, or a callback). Three variables are history and influence nothing: `creator`
and `instance` number the plugins that were loaded at one address, `asked` is the
last value given for each multi option.

### How the steps correspond

A step is one access to shared state: taking or releasing a mutex, one queue
operation, one `uv_async_send`, one test of a queue. Everything a native does to a
context before `AddCurlJob` takes the lock is one step, because no other thread can
reach the context then; `NativesHaveItAlone` is the property that justifies this,
and it is proved. `FrameCheckJobs` and `FrameCheckDone` are the two tests outside
the mutex. Each reads whether a deque has items while the other thread works on one
end of it; the answer is that of the state before or after the other thread's
operation, which the interleaving gives. `OnCurlCompletedGameThread` runs up to
`func->Execute`; then `gpc = "callback"` and plugin code may call any native, with
`g_curl_done_queue` still locked, until `CallbackReturn`.

In `CurlEventLoop` times are counted down to 0; `expire`, `limit` and `told` are
curl's (when it wants to look at a transfer, when the transfer times out, the time
its timer callback was last called for), `wanted` and `socketp` what it asked for on
a socket and its `curl_multi_assign` pointer. `socket_heap`, `curl_socket`, `poll`
and `closing` are the `CurlSocketContext`s, and `req` is the one whose poll callback
runs. `poll` is `"failed"` after an error: libuv has stopped the handle then, and the
code, which ignores the status, does not know. curl calls `CurlSocketCallback` from
inside `curl_multi_socket_action` and from `curl_multi_remove_handle`.

In `EasyHandle` a body is a record of the request it was given for, its size and
its format; `memory` is what `malloc` gave out; `easy` is what `curl_easy_setopt` has
set. `starts`, `asked`, `added`, `own`, `lost`, `sent` and `size` are history. A wrong
size shows on the wire: a smaller one cuts the body off, a larger one sends what lies
behind it (`"overread"`, `FirstBytes`). `CurlSetInt` sets the options that natives
set as well and that decide what is sent and for how long: `CURLOPT_TIMEOUT_MS`,
`CURLOPT_POST` and `CURLOPT_POSTFIELDSIZE`. In the phase `"unloaded"` the other variables
say how things were when the extension went.
`compress2` is told the size of its output by an uninitialised variable: it fails or
succeeds, and as the block has `compressBound` bytes, what it writes always fits.

In `Response` a header line is a sequence over colon, space and one letter in two
cases, and ends with CR LF, as curl delivers it. `array` is the plugin's memory from
the start of its buffer on and beyond its end. `Async_CurlGetDataString` is called with
what the callback gets as size, which is 0 after a transfer that failed, whatever was
received (`CallbackSizes`).

External parts, modelled from their use:

* libuv: an async handle is a flag that `uv_async_send` sets and that the loop
  clears before it calls back; `uv_stop` sets a flag and `uv_run` returns at some
  later point between callbacks. A mutex is not recursive.
* libcurl: the multi handle is the set of transfers in it and the list of unread
  `CURLMSG_DONE` messages. While `curl_multi_socket_action` runs any transfers may
  finish; it may also be called for a kept connection when there is none.
  `curl_multi_add_handle` may refuse a transfer (`AddMayFail`). It calls its timer
  callback only if the earliest time is another one than it told last, and forgets
  what it told when it is called for a time-out. Of the post fields it sends as many
  bytes as `CURLOPT_POSTFIELDSIZE` says; `CURLOPT_COPYPOSTFIELDS` copies as many at once.
  Options stay set until they are set again.
* SourceMod: plugins are loaded and unloaded between frames, not from inside a
  completion callback, and the extension is not unloaded from inside one.
  `GetFunctionById` may fail for a loaded plugin.

`curl_easy_init` returning NULL makes `CurlNew` return 0 with nothing changed, as
`CurlNewFails` does.

## 3. Runs

| Run | Instance | Shows |
|---|---|---|
| `handle_table` | 5 addresses, limit 5 (numbers 1 to 4) | numbers are recycled in every order, run out, become available again; after `CleanHandles` nothing is allocated |
| `safety` | 2 requests, 2 numbers, 1 plugin address loaded twice, curl may refuse | custody of the contexts, mutual exclusion, no circular waiting, what a callback leaves alone, three refinements, the inductive invariant |
| `settings` | 1 request, 2 calls with different values for 1 option, 2 queued | no lost wake-up, order kept, settings arrive, the game thread never hangs |
| `liveness` | 2 requests, no settings | every request is answered, every deferred close done, if curl ends its transfers |
| `event_loop` | 2 transfers, 2 sockets, 2 addresses, time-out 3 | socket contexts are owned by one side, sockets are watched as curl wants, the timer is not late and only socket activity stops it; transfers end, by the timer on a silent network and by socket activity that goes on |
| `easy_handle` | 3 requests on one handle, 3 blocks, bodies of 0 or 1 byte, 1 header line, 6 settings of 3 options | bodies arrive whole, are freed once and lost only by an unload, headers arrive, the first request is the one asked for |
| `response` | 2 header lines of up to 3 characters, 2 bytes, buffers of 0 to 3 | header lookup, the copy of the data, the end of the string, also after a failed transfer |
| `plugin_unload`, `plugin_reload`, `global_int`, `stopped_timer`, `freed_body` | 1 request, setting or transfer, 1 socket, 3 blocks | places where the code does not do what a comment or the include file says (section 6) |

**Bounds.** `MaxInt` is `std::numeric_limits<int>::max()`, taken so small that the
table runs full. `MaxInstances` bounds how often a plugin is loaded at an address:
two is enough to tell the old plugin from the new one. `MaxOptions` bounds the
settings queue; two queued and one in hand include two values for one option.
Two requests are enough for one to be delivered while another is anywhere else,
and for a recycled number to name another request.
`GlobalIntCalls` is a set of calls whose arguments are all numbers of
multi options that curl knows, since the model leaves out that curl refuses others.
`Timeout` is the number of ticks of `CURLOPT_TIMEOUT_MS`; three leave two times in
between, so that the times of two transfers can overlap either way. `stopped_timer` needs
only two ticks. Two addresses let each socket have a context, or one
socket a context that is being closed and a new one. `MaxStarts`
is 3: a request can inherit from the last one and from the one before. `MaxSize` is 1,
because a body is only compared with its own size and with another's; the sizes in `SomeSettings` are none, that of an empty body and
one that is too large. `MaxHeaders` and `MaxPieces` bound the list and the buffer,
which nothing shrinks. `MaxLine` of 3 has empty names and values, two colons,
spaces before and after a value, and names of up to two letters in every spelling,
with longer ones to look for in vain. `MaxReceived` of 2, for lines and bytes together,
has a line that replaces another one; lines and bytes do not influence each other.
`MaxData` and `BufferSizes` include every order of the two sizes, with differences in
both directions. The proofs need none of these bounds.

**Symmetry** is used in `handle_table` and `safety`, where the contexts are
interchangeable, and in `easy_handle`, where the blocks are; not with liveness.

**Deadlock** is checked except in `handle_table`, where nothing happens after
`CleanHandles`, and in `response`, which ends when the bounds on lines and data are
reached and no more calls differ. In `AsyncExtension` the state after the unload stutters explicitly
(`Unloaded`), so any other state without a successor would be reported.

**Fairness** of `AsyncExtension` (`FairSpec`).
A thread in the middle of a native or of a callback goes on (`GameContinues`,
`EventContinues`): threads are scheduled and mutexes are released. The server calls
the frame hook again and again and callbacks return (`FrameCheckJobs`,
`CallbackReturn`; strong, since other things happen in between). An iteration of
the event loop serves every pending async handle (strong fairness for the
three callbacks), and a call of curl returns. Nothing is assumed about when curl is
called. That it ends its transfers is the premise of `RequestsComplete` and
`ClosedIsFreed` (`CurlEndsTransfers`), because the code does not guarantee it:
`stopped_timer` is the counterexample.

**Fairness** of `CurlEventLoop` (`ELFairSpec`). Time passes, the loop serves a
timer that is due, a call of curl ends each transfer whose time is over and returns,
and the loop over the messages goes on. All weak: each stays enabled until it
happens. Nothing is assumed of the network: a socket may stay silent for ever, and
that it does, or does not, is a premise of `SilentTransfersEnd` and `ActiveTransfersEnd`.

## 4. The properties

*Custody.* `NoDanglingContext`, `InOnePlace`, `NativesHaveItAlone`, `NotStranded`,
`HandleNamesItself`: a started request is in exactly one of five places
(`Places`), allocated and claimed; one that is not claimed is in none. `InOnePlace`
and `HandleNamesItself` are conjuncts of `Inv`, and checked as such.
*Mutual exclusion.* `QueuesAreRaceFree`; `NoDeadlock`: the threads do not wait for
each other, although a native called from a completion callback takes a second
mutex and the unload joins the event thread.
*Reentrancy.* `CallbackLeavesRequests`, an action property: nothing that happens
during a completion callback touches the list the frame hook is working through
or lets go of a request in flight.
*Settings.* `SettingsWakeLoop`, `LastSettingWins`, `SettingsReachCurl`.
*Table.* `HandlesPartition`, `TableOwnsHeap`, `ExhaustionIsReal`.
*Refinement.* `ImplementsLifecycle` maps each context to the phase `none`, `idle`,
`busy` or `closing` (`Phase`); `ImplementsHandleManager` says that the whole
system uses the table only as `HMSpec` allows; `ImplementsCurlCalls` that curl is
called as `CurlCalls` says.
*Liveness.* `RequestsComplete`, `ClosedIsFreed`, `GameThreadReturns`,
`SilentTransfersEnd`, `ActiveTransfersEnd`: transfers end if the network is silent
from the start, and if sockets show activity again and again; what is left, activity
that ends, is the finding `stopped_timer`.
*Sockets and timer.* `SocketContextsOwned`, `PollCallbackIsAlive`,
`OnlyWantedIsWatched`, `WatchedAsWanted`, `TimerNotLate`, `SilentTimerRuns`.
`TimerNotLate` is about a timer that runs; that it may be stopped is the finding, and
`SilentTimerRuns` says that socket activity is the only thing that stops it.
*Requests.* `PostBlocksAccounted`, which also says which body an unload leaves behind;
`RawPostsArriveWhole`, whatever the plugin set itself; `HeadersArrive`;
`FirstRequestIsAsAsked`, if the plugin does not set the method or the size itself.
*Responses.* `HeaderIsLastGiven`, which compares lookup with a definition that knows
only the lines received; `DataIsCopied`, `StringIsTerminated`, `OverrunIsByOne`.

Every property of a passing run has a mutant in `PROJECT.json`: a changed
definition, as a plausible bug would change the code, under which TLC finds the
property violated. Mutants stand before the definition they change.

## 5. Proofs

The theorems hold for every number of contexts, plugins, settings, handle
numbers, sockets, transfers, requests on one handle, and header lines and data of any
length, whether or not curl refuses transfers.

* `HandleManagerProofs`: the conjunction of `HMTypeOK`, `HandlesPartition` and
  `TableOwnsHeap` is inductive (`HandleTableCorrect`). Exhaustion follows: the
  freed stack is empty when `NewHandle` fails, so the partition puts every number
  in use (`ExhaustionCorrect`).
* `AsyncExtensionProofs`: `Inv` is inductive (`InvCorrect`). None of the custody
  properties is so alone. `NativesHaveItAlone` is preserved by a push only because
  the context in hand is claimed (`Custody`); that it is in hand only at certain
  places is `InHand`; that the frame hook frees the context it popped needs
  `HandleNamesItself` and the table's invariant; that the unload deletes nothing in
  use needs `UnloadOrder`; mutual exclusion needs to know exactly where each mutex
  is held (`LocksHeld`). The proof has three parts: control (`ControlStep`, a case
  for each action), the table (`TableStep`, which reuses `HandleManagerProofs`),
  and custody (`CustodyStep`, one lemma for each move of a context from one place
  to the next). The safety properties of run `safety`, and two refinements, follow
  from it, and so do two facts about steps and waiting. `NoThreadsDeadlock`: by
  `LocksHeld` a thread that waits holds no mutex, except that the game thread in a
  callback holds that of the done queue, and the event thread, when it waits for
  that one, holds none. `CallbackLeaves`: during a callback only three kinds of step
  touch a context (a creation, which takes an unused address, a close, which frees
  nothing that is claimed, and a start, which claims), and none touches the done
  queue, whose mutex the game thread holds. `SettingsWakeLoop` is inductive by itself
  (`NoLostSetting`).
* `NothingLostProofs`: the converse of `Custody`, that a claimed context is in some
  place, is inductive if curl refuses no transfer (`NoneStranded`). For the settings,
  the value asked for last is, for each option, the one in `ChangeCurlSettings`'
  hands, or else the newest one queued, or else the one that is set
  (`SettingOnItsWay`); this is inductive and gives `LastSettingCorrect`.
* `RefinementProofs`: `LifecycleRefined`, one lemma for each kind of step that the
  abstract specification can see, and `CallsRefined`, where
  `InOnePlace` gives that no transfer is added twice, and `MessagesRead` and
  `UnloadOrder` that none is dropped before the unload.
* `CurlEventLoopProofs`: `SocketInv`, the types together with ownership and two facts:
  a context is watched only while it is not being closed, and the context of a
  running callback is allocated because contexts are only deleted between callbacks.
  The timer has an invariant of its
  own, `TimerInv`: it is stopped while curl is called, and otherwise what curl told last
  is the earliest time it waits for, and the timer, if it runs, ends no later. That the
  earliest time exists, is kept by a tick of the clock and becomes 0 with a new
  transfer (`EarliestFacts`, `EarliestTicks`, `EarliestAfterAdd`) rests on every set of
  natural numbers having a least member (`LeastMember`, from the library's
  well-foundedness of the natural numbers). `SilentTimer` adds that without socket
  activity the timer shows exactly what curl told (`SilentInv`), which is inductive
  because curl tells a time again unless it is the one told last, and forgets that
  one when it is called for a time-out.
* `EasyHandleProofs`: `RawPostsWhole` needs to know what is set on the easy handle
  before anything is sent (`RawReady`: the post fields are those of the last start,
  and their size is the current one), `HeadersArriveAlways` that the header list only
  grows and is set if it is not empty (`HeadersKept`), `FirstRequestCorrect` that a
  handle that was never started has the options of a new one (`FirstInv`).
* `ResponseProofs`: first what the code's text operations do for a line of any length:
  the delimiter is the first colon (`DelimiterFacts`), `trim` drops just the spaces
  after it, because a line ends with CR LF and nothing can be trimmed there
  (`TrimFacts`, `ValueFacts`), and two names are equal in small letters if and only if
  they differ in case at most (`SameNameFacts`). `HeadersInv` says that
  the map holds just the names of the lines, each with the value of the last line
  that has it; a line changes one entry, so it is inductive, and `HeaderLookup` follows.
  `DataInv` says what each place of the plugin's memory holds after a call
  (`AfterGetData`, `AfterGetDataString`); the three theorems about buffers are read
  off it.

Assumptions: `MaxInt` is a positive number, `NoContext` is no context and
`NoPlugin` no plugin, the bounds are natural numbers, the calls of
`Async_CurlSetGlobalInt` are triples of integers, `AddMayFail` is a Boolean;
`NULL` is no address, `Timeout` is positive, `PollActions` are among curl's three;
the settings of `CurlSetInt` are of the three options, with values curl accepts;
a plugin does not itself add the line `Content-Encoding: gzip`.
`LastSettingCorrect` assumes that no option has the number 0, as is so in curl.
The buffers in `Response` have sizes up to one more than `MaxData`, which may be any
number.

Only model-checked: `RequestsComplete`, `ClosedIsFreed`, `SettingsReachCurl`,
`GameThreadReturns`, `SilentTransfersEnd` and `ActiveTransfersEnd`, the liveness
properties, since the
prover has no fairness. Every safety property that a passing run checks is also
proved.

## 6. Where the code and its documentation disagree

Shown by a run:

1. `plugin_unload`: `async.inc` line 19 exempts plugins that are unloaded from
   closing their handles, but `OnPluginUnloaded` frees nothing. Only requests in
   flight are freed, on completion; idle ones stay until the extension goes.
2. `plugin_reload`: whether the plugin of a request still exists is decided by its
   address. Another plugin loaded at that address gets the callback.
3. `global_int`: `async.inc` line 60 declares `Async_CurlSetGlobalInt` with a
   request, an option and a value; the native reads the option from the first and
   the value from the second argument.
4. `stopped_timer`: `CurlSocketActivity` stops the timer, and curl does not ask for
   it again unless its next time has changed. If the network then falls silent the
   request never times out, against `context.h` line 29. The comment in
   `test-async.sp` line 38, on a header without which curl does nothing, fits this:
   curl waits for a time there.
5. `freed_body`: `CURLOPT_POSTFIELDS` keeps pointing to a body that
   `OnCurlCompleted` has freed, and `Async_CurlGet` or `Async_CurlStart` on the
   same handle sends it.

Stated in the modules, each refuted by TLC if it is added to the run of its module:

6. `EasyHandle!RequestIsAsAsked`: a later request on a handle inherits the method, the
   size and the label of an earlier one.
7. `EasyHandle!LabelIsTheFormat`: `compress2` writes a zlib stream, the label and
   `async.inc` line 28 say gzip.
8. `EasyHandle!SizeIsThisResponse`: `buffer` is never emptied, so the size given to a
   callback (`test-async.sp` line 72) counts earlier responses.
9. `EasyHandle!TimeoutIsTheOneSet`: the two raw posts replace a time-out that the plugin set.
10. `Response!SizeIsValueLength`: the size of a header value counts CR LF
    (`async.inc` line 50).
11. `Response!HeaderIsOfThisResponse`: headers of an earlier response, for instance
    of a redirect, are found in a later one.
12. `Response!WritesStayInBuffer`: `CurlGetData` puts its zero one place too far,
    outside of a buffer that is larger than the data by one (`OverrunIsByOne`).

More follow from the models. `CURL_POLL_INOUT` has no case, so a socket on
which curl wants both directions is not registered (`WatchedAsWanted` holds for
one direction only). A transfer refused by `curl_multi_add_handle`
never completes, and a later close never frees it (`ClosedIsFreed` fails with
`AddMayFail`). An unload of the extension while a compressed post is queued or in
curl leaves its body allocated: `CleanHandles` deletes the context, and the destructor
frees no post body (`PostBlocksAccounted` has this case). After an error on a socket libuv
no longer watches it; `CurlSocketActivity` ignores the status, and the socket stays
unwatched until curl asks for it again (`WatchedAsWanted` excepts it).

## 7. Not modelled, and the plan

Not modelled:

* the build files, the enum generator and the test plugin, which are no part of the
  running extension;
* the vendored headers of libuv and libcurl and the binary libraries. The headers
  are by far the larger part of the C files under `src/`, but they only
  declare; the code behind them is not in the repository, so there is nothing in
  them that a definition could translate. Nearly all of the extension's own code
  (about 1100 lines with the includes and declarations) that has behaviour is modelled;
* natives that hand an option or a text over unseen: `CurlSetString`, `CurlGetInt`,
  `CurlGetString`, `CurlErrorString`, `CurlGetErrorMessage`, `CurlVersion`. What an
  arbitrary option does is libcurl's affair. `CurlSetInt` is modelled for the three
  options named in section 2 only; no property depends on others that natives set
  (`CURLOPT_FOLLOWLOCATION`, `CURLOPT_MAXREDIRS`);
* a `curl_multi_setopt` that refuses a setting, whose result the code ignores:
  `LastSettingWins` and `SettingsReachCurl` are about options and values curl knows. Both
  take what `ChangeCurlSettings` is given; that this is not what a plugin asked for
  is the finding `global_int`;
* wording of console messages; memory internal to libuv and libcurl at unload
  (`uv_loop_close`, `curl_multi_cleanup`, `curl_global_cleanup`);
* a `malloc` that fails for a post body, after which the process ends.

Left to do:

1. The safety half of `RequestsComplete`: a request only moves forward among its
   places, as an action property with a proof.
2. `EasyHandle` as an implementation of the lifecycle of one context, which would join
   it to `AsyncExtension` by a theorem rather than by `NativesHaveItAlone`.
