---------------------------- MODULE CurlEventLoop ----------------------------
(***************************************************************************)
(* How the event thread drives curl: the timer g_timeout and the poll      *)
(* handles of the sockets (extension.cpp, CurlSocketContext in             *)
(* context.cpp).  AsyncExtension only says that curl is called; this       *)
(* module is about when.                                                   *)
(*                                                                         *)
(* Times are counted from now, so a tick of the clock brings each of them  *)
(* nearer.  curl is external: for each transfer it keeps the time at which *)
(* it wants to look at it again, at the latest when CURLOPT_TIMEOUT_MS is  *)
(* over; it asks for sockets to be watched with its socket callback, and   *)
(* it calls its timer callback when the earliest of these times is not the *)
(* one it called it for last.                                              *)
(***************************************************************************)
EXTENDS Integers, FiniteSetsExt

CONSTANTS Transfers, Sockets,
          Addresses,     \* that operator new may give to a CurlSocketContext
          NULL,
          PollActions,   \* what curl asks for: CURL_POLL_IN, _OUT, _INOUT
          Timeout        \* CURLOPT_TIMEOUT_MS of every transfer

ASSUME TimeoutAssumption == Timeout \in Nat \ {0}
ASSUME ActionsAssumption == PollActions \subseteq {"IN", "OUT", "INOUT"}
ASSUME NULLAssumption == NULL \notin Addresses

VARIABLES
    \* curl: running transfers, when it looks at each of them again, when each
    \* of them times out, unread CURLMSG_DONE messages, the time its timer
    \* callback was last called for
    multi, expire, limit, msgs, told,
    \* curl: what it asked for on each socket, and its curl_multi_assign pointer
    wanted, socketp,
    \* libuv: when g_timeout fires
    g_timeout,
    \* CurlSocketContexts: allocated, their socket, what their poll handle
    \* watches, those given to uv_close
    socket_heap, curl_socket, poll, closing,
    \* the event thread: where it is, and the context of the poll handle whose
    \* callback is running
    epc, req

timeVars == <<expire, limit, told>>
contextVars == <<socket_heap, curl_socket, poll, closing>>
socketVars == <<wanted, socketp, contextVars>>
elVars == <<multi, msgs, timeVars, g_timeout, socketVars, epc, req>>

Never == Timeout + 1    \* no time at all

ELInit ==
    /\ multi = {} /\ msgs = {}
    /\ expire = [t \in Transfers |-> Never] /\ limit = [t \in Transfers |-> Never]
    /\ told = Never /\ g_timeout = Never
    /\ wanted = [s \in Sockets |-> "nothing"] /\ socketp = [s \in Sockets |-> NULL]
    /\ socket_heap = {} /\ closing = {}
    /\ curl_socket = [x \in {} |-> NULL] /\ poll = [x \in {} |-> NULL]
    /\ epc = "poll" /\ req = NULL

Sooner(time) == IF time \in 1..Timeout THEN time - 1 ELSE time

Tick ==
    /\ expire' = [t \in Transfers |-> Sooner(expire[t])]
    /\ limit' = [t \in Transfers |-> Sooner(limit[t])]
    /\ told' = Sooner(told) /\ g_timeout' = Sooner(g_timeout)
    /\ UNCHANGED <<multi, msgs, socketVars, epc, req>>

(***************************************************************************)
(* The timer.                                                              *)
(***************************************************************************)
\* Mutant: a timer that is running is left as it is.
CurlTimeoutChange_OnlyWhenStopped(timeout_ms) ==
    g_timeout' = IF timeout_ms = -1 \/ g_timeout # Never THEN g_timeout
                 ELSE timeout_ms

\* Mutant: a timeout of 0 is taken for "no timeout".
CurlTimeoutChange_ZeroIsNone(timeout_ms) ==
    g_timeout' = IF timeout_ms \in {-1, 0} THEN g_timeout ELSE timeout_ms

\* curl's timer callback; -1 asks to stop the timer, which it does not do.
CurlTimeoutChange(timeout_ms) ==
    g_timeout' = IF timeout_ms = -1 THEN g_timeout ELSE timeout_ms

Earliest(running, times) == Min({times[t] : t \in running} \cup {Never})

\* curl tells the earliest time unless it is the one it told last.
UpdateTimer(first, last) ==
    /\ told' = first
    /\ IF first = last THEN UNCHANGED g_timeout
       ELSE CurlTimeoutChange(IF first = Never THEN -1 ELSE first)

\* ProcessCurlJob: curl_multi_add_handle wants to be called at once, and says so
\* whatever it said before.
ProcessCurlJob(t) ==
    /\ epc = "poll" /\ t \notin multi \cup msgs
    /\ multi' = multi \cup {t}
    /\ expire' = [expire EXCEPT ![t] = 0]
    /\ limit' = [limit EXCEPT ![t] = Timeout]
    /\ UpdateTimer(Earliest(multi', expire'), Never)
    /\ UNCHANGED <<msgs, socketVars, epc, req>>

\* The timer fires, once, and curl is called.  curl then forgets what it told.
RunCurlJobs ==
    /\ epc = "poll" /\ g_timeout = 0
    /\ g_timeout' = Never /\ told' = Never
    /\ epc' = "curl"
    /\ UNCHANGED <<multi, msgs, expire, limit, socketVars, req>>

(***************************************************************************)
(* Sockets.                                                                *)
(***************************************************************************)
\* A watched socket is ready, or in error: then libuv has stopped its poll handle,
\* which the code does not find out because it ignores the status.  Either way
\* the timer is stopped and curl called.
CurlSocketActivity(x) ==
    /\ epc = "poll" /\ x \in socket_heap /\ poll[x] \notin {"nothing", "failed"}
    /\ poll' \in {poll, [poll EXCEPT ![x] = "failed"]}
    /\ g_timeout' = Never
    /\ epc' = "curl" /\ req' = x
    /\ UNCHANGED <<multi, msgs, timeVars, wanted, socketp, socket_heap, curl_socket, closing>>

\* Mutant: a new context for every call.
CreateSocketContextIfNeeded_Always(s, x) ==
    /\ x \notin socket_heap
    /\ socket_heap' = socket_heap \cup {x}
    /\ curl_socket' = [y \in socket_heap' |-> IF y = x THEN s ELSE curl_socket[y]]
    /\ socketp' = [socketp EXCEPT ![s] = x]

\* x is the context of socket s: the one curl has, or else a new one that curl
\* is given.
CreateSocketContextIfNeeded(s, x) ==
    \/ /\ socketp[s] # NULL /\ x = socketp[s]
       /\ UNCHANGED <<socket_heap, curl_socket, socketp>>
    \/ /\ socketp[s] = NULL /\ x \notin socket_heap
       /\ socket_heap' = socket_heap \cup {x}
       /\ curl_socket' = [y \in socket_heap' |-> IF y = x THEN s ELSE curl_socket[y]]
       /\ socketp' = [socketp EXCEPT ![s] = x]

\* Mutant: the poll handle is started only when it is new.
PollStart_OnlyNew(s, action) ==
    /\ action \in {"IN", "OUT"}
    /\ \E x \in Addresses :
          /\ CreateSocketContextIfNeeded(s, x)
          /\ poll' = [y \in socket_heap' |-> IF y \in socket_heap THEN poll[y] ELSE action]
    /\ wanted' = [wanted EXCEPT ![s] = action]
    /\ UNCHANGED closing

\* CURL_POLL_IN and CURL_POLL_OUT: uv_poll_start replaces what is watched.
PollStart(s, action) ==
    /\ action \in {"IN", "OUT"}
    /\ \E x \in Addresses :
          /\ CreateSocketContextIfNeeded(s, x)
          /\ poll' = [y \in socket_heap' |-> IF y = x THEN action ELSE poll[y]]
    /\ wanted' = [wanted EXCEPT ![s] = action]
    /\ UNCHANGED closing

\* CURL_POLL_INOUT has no case of its own.
PollDefault(s, action) ==
    /\ action = "INOUT"
    /\ wanted' = [wanted EXCEPT ![s] = action]
    /\ UNCHANGED <<socketp, contextVars>>

\* Mutant: the context is deleted at once.
BeginRemoval_Deletes(x) ==
    /\ socket_heap' = socket_heap \ {x}
    /\ poll' = [y \in socket_heap' |-> poll[y]]
    /\ curl_socket' = [y \in socket_heap' |-> curl_socket[y]]
    /\ UNCHANGED closing

\* Stops the poll handle and has libuv close it.
BeginRemoval(x) ==
    /\ poll' = [poll EXCEPT ![x] = "nothing"]
    /\ closing' = closing \cup {x}
    /\ UNCHANGED <<socket_heap, curl_socket>>

\* Mutant: curl loses its pointer, but the poll handle is not closed.
PollRemove_NoClose(s) ==
    /\ wanted[s] # "nothing"
    /\ UNCHANGED contextVars
    /\ socketp' = [socketp EXCEPT ![s] = NULL]
    /\ wanted' = [wanted EXCEPT ![s] = "nothing"]

PollRemove(s) ==
    /\ wanted[s] # "nothing"
    /\ IF socketp[s] # NULL THEN BeginRemoval(socketp[s]) ELSE UNCHANGED contextVars
    /\ socketp' = [socketp EXCEPT ![s] = NULL]
    /\ wanted' = [wanted EXCEPT ![s] = "nothing"]

\* curl calls its socket callback, for a removal also when
\* curl_multi_remove_handle takes out a finished transfer.
CurlSocketCallback(s) ==
    /\ \/ /\ epc = "curl"
          /\ \E action \in PollActions \ {wanted[s]} :
                PollStart(s, action) \/ PollDefault(s, action)
       \/ (epc = "curl" \/ (epc = "check" /\ msgs # {})) /\ PollRemove(s)
    /\ UNCHANGED <<multi, msgs, timeVars, g_timeout, epc, req>>

\* Mutant: libuv still has the handle it reported as closed.
OnPollClosed_StaysClosing(x) ==
    /\ epc = "poll" /\ x \in closing
    /\ socket_heap' = socket_heap \ {x}
    /\ curl_socket' = [y \in socket_heap' |-> curl_socket[y]]
    /\ poll' = [y \in socket_heap' |-> poll[y]]
    /\ UNCHANGED <<multi, msgs, timeVars, wanted, socketp, closing, g_timeout, epc, req>>

\* libuv has closed the poll handle.
OnPollClosed(x) ==
    /\ epc = "poll" /\ x \in closing
    /\ socket_heap' = socket_heap \ {x} /\ closing' = closing \ {x}
    /\ curl_socket' = [y \in socket_heap' |-> curl_socket[y]]
    /\ poll' = [y \in socket_heap' |-> poll[y]]
    /\ UNCHANGED <<multi, msgs, timeVars, wanted, socketp, g_timeout, epc, req>>

(***************************************************************************)
(* Inside curl_multi_socket_action, and after it.                          *)
(***************************************************************************)
\* curl goes on with a transfer and will look at it again later.
TransferGoesOn(t) ==
    /\ epc = "curl" /\ t \in multi
    /\ \E time \in 1..limit[t] : expire' = [expire EXCEPT ![t] = time]
    /\ UNCHANGED <<multi, msgs, limit, told, g_timeout, socketVars, epc, req>>

TransferDone(t) ==
    /\ epc = "curl" /\ t \in multi
    /\ multi' = multi \ {t} /\ msgs' = msgs \cup {t}
    /\ expire' = [expire EXCEPT ![t] = Never] /\ limit' = [limit EXCEPT ![t] = Never]
    /\ UNCHANGED <<told, g_timeout, socketVars, epc, req>>

\* Mutant: after socket activity CheckCompletedCurlJobs is not called.
SocketActionReturns_TimerOnly ==
    /\ epc = "curl" /\ \A t \in multi : expire[t] > 0
    /\ UpdateTimer(Earliest(multi, expire), told)
    /\ epc' = IF req = NULL THEN "check" ELSE "poll"
    /\ req' = NULL
    /\ UNCHANGED <<multi, msgs, expire, limit, socketVars>>

\* curl returns when it has looked at every transfer whose time has come.
SocketActionReturns ==
    /\ epc = "curl" /\ \A t \in multi : expire[t] > 0
    /\ UpdateTimer(Earliest(multi, expire), told)
    /\ epc' = "check"
    /\ UNCHANGED <<multi, msgs, expire, limit, socketVars, req>>

\* One round of the loop, in which curl has no new time to tell, and its end.
CheckCompletedCurlJobs ==
    /\ epc = "check"
    /\ \/ /\ \E t \in msgs : msgs' = msgs \ {t}
          /\ UNCHANGED <<epc, req>>
       \/ msgs = {} /\ epc' = "poll" /\ req' = NULL /\ UNCHANGED msgs
    /\ UNCHANGED <<multi, timeVars, g_timeout, socketVars>>

ELNext ==
    \/ Tick \/ RunCurlJobs \/ SocketActionReturns \/ CheckCompletedCurlJobs
    \/ \E t \in Transfers : ProcessCurlJob(t) \/ TransferGoesOn(t) \/ TransferDone(t)
    \/ \E s \in Sockets : CurlSocketCallback(s)
    \/ \E x \in Addresses : CurlSocketActivity(x) \/ OnPollClosed(x)

ELSpec == ELInit /\ [][ELNext]_elVars

\* Time passes, the event loop serves its timer, a call of curl ends every
\* transfer whose time is over and returns.  Nothing is assumed of the network:
\* a socket may never become ready.
ELFairness ==
    /\ WF_elVars(Tick) /\ WF_elVars(RunCurlJobs)
    /\ WF_elVars(SocketActionReturns) /\ WF_elVars(CheckCompletedCurlJobs)
    /\ \A t \in Transfers : WF_elVars(limit[t] = 0 /\ TransferDone(t))

ELFairSpec == ELSpec /\ ELFairness

(***************************************************************************)
(* Properties.                                                             *)
(***************************************************************************)
Wishes == {"nothing", "IN", "OUT", "INOUT"}
Watches == {"nothing", "IN", "OUT", "failed"}

\* The type of every variable of CurlEventLoop.
ELTypeOK ==
    /\ multi \subseteq Transfers /\ msgs \subseteq Transfers
    /\ expire \in [Transfers -> 0..Never] /\ limit \in [Transfers -> 0..Never]
    /\ told \in 0..Never /\ g_timeout \in 0..Never
    /\ wanted \in [Sockets -> Wishes] /\ socketp \in [Sockets -> Addresses \cup {NULL}]
    /\ socket_heap \subseteq Addresses /\ closing \subseteq socket_heap
    /\ curl_socket \in [socket_heap -> Sockets] /\ poll \in [socket_heap -> Watches]
    /\ epc \in {"poll", "curl", "check"} /\ req \in Addresses \cup {NULL}

\* Every CurlSocketContext belongs to exactly one side: curl has it for the
\* socket it polls, or libuv is closing it.  So none leaks, curl never gets back
\* a deleted one, none is closed twice, and activity is reported to curl for the
\* socket on which it happened.
SocketContextsOwned ==
    /\ \A s \in Sockets : socketp[s] # NULL =>
          socketp[s] \in socket_heap \ closing /\ curl_socket[socketp[s]] = s
    /\ \A x \in socket_heap \ closing : socketp[curl_socket[x]] = x

\* The context whose poll callback is running is not deleted under it, although
\* curl may remove the socket, and even open it again, during that callback
\* (context.cpp: "cannot do this in BeginRemoval or it will crash").
PollCallbackIsAlive == req # NULL => req \in socket_heap

\* After a removal the event loop no longer watches the socket, so that a closed
\* and reused descriptor does not wake curl for the old one.  That the watching
\* failed is forgotten with it.
OnlyWantedIsWatched ==
    \A x \in socket_heap : poll[x] # "nothing" =>
        x \notin closing /\ wanted[curl_socket[x]] # "nothing"

\* Between callbacks the timer, if it runs at all, does not fire after the
\* earliest time at which curl wants to be called.
TimerNotLate ==
    epc = "poll" =>
        /\ told = Earliest(multi, expire)
        /\ g_timeout # Never => g_timeout <= told

\* Only CurlSocketActivity keeps curl waiting: while no socket shows activity, the
\* timer runs exactly when curl asked for a time, and for just that time, although
\* curl asks only when its earliest time is another one and never asks to stop it.
SilentTimerRuns == [](req = NULL) => [](epc # "curl" => g_timeout = told)

\* A socket on which curl wants to read, or wants to write, is watched for just
\* that, also when it comes back to it after it wanted both, or has closed the
\* socket and opened it again; unless libuv has stopped watching it for an error
\* since then, of which CurlSocketActivity takes no notice.
WatchedAsWanted ==
    \A s \in Sockets : wanted[s] \in {"IN", "OUT"} =>
        socketp[s] # NULL /\ poll[socketp[s]] \in {wanted[s], "failed"}

\* context.h: a request ends "when it times out or completes": CURLOPT_TIMEOUT_MS,
\* which CurlNew sets, ends every transfer, even if the network is silent.
TransfersEnd == \A t \in Transfers : t \in multi ~> t \notin multi

TransfersEndAndAreReported == \A t \in Transfers : t \in multi ~> t \notin multi \cup msgs

\* It does if the network is silent from the start: while no socket shows activity,
\* whatever sockets curl opens, closes and waits for, and however the times of
\* several transfers overlap, each of them ends and its message is read.
SilentTransfersEnd == [](req = NULL) => TransfersEndAndAreReported

\* It does too if sockets show activity again and again, be it for other transfers,
\* although CurlSocketActivity stops the timer each time and curl may not start it
\* again: then it is the calls for sockets that end a transfer, and the loop after
\* them that reads its message.  Only activity that ends leaves a transfer waiting
\* (TransfersEnd).
ActiveTransfersEnd == []<>(req # NULL) => TransfersEndAndAreReported
=============================================================================
