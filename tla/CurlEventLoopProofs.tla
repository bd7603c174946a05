------------------------- MODULE CurlEventLoopProofs -------------------------
(***************************************************************************)
(* Proofs about CurlEventLoop: the CurlSocketContexts are owned and alive, *)
(* sockets are watched as curl wants, and the timer is not late.           *)
(***************************************************************************)
EXTENDS CurlEventLoop, QueueLemmas

\* The types of what the socket callbacks work on.
SocketTypes ==
    /\ wanted \in [Sockets -> Wishes] /\ socketp \in [Sockets -> Addresses \cup {NULL}]
    /\ socket_heap \subseteq Addresses /\ closing \subseteq socket_heap
    /\ curl_socket \in [socket_heap -> Sockets] /\ poll \in [socket_heap -> Watches]
    /\ req \in Addresses \cup {NULL}

\* The poll callback's context exists only while curl is called from it.
CallbackStage == req # NULL => epc \in {"curl", "check"} /\ req \in socket_heap

\* What curl has never asked for, or asked for and removed, has no context.
UnwantedHasNone == \A s \in Sockets : wanted[s] = "nothing" => socketp[s] = NULL

SocketInv ==
    /\ SocketTypes /\ SocketContextsOwned /\ CallbackStage /\ UnwantedHasNone
    /\ OnlyWantedIsWatched

\* The socket callback with CURL_POLL_IN or CURL_POLL_OUT.
LEMMA PollStartPreserves ==
    ASSUME SocketInv, NEW s \in Sockets, NEW action, PollStart(s, action),
           UNCHANGED <<epc, req>>
    PROVE  SocketInv'
<1>1. PICK x \in Addresses :
          /\ CreateSocketContextIfNeeded(s, x)
          /\ poll' = [y \in socket_heap' |-> IF y = x THEN action ELSE poll[y]]
  BY DEF PollStart
<1>2. /\ action \in {"IN", "OUT"} /\ wanted' = [wanted EXCEPT ![s] = action]
      /\ closing' = closing
  BY DEF PollStart
<1> USE NULLAssumption DEF SocketInv, Wishes, Watches
<1>3. CASE socketp[s] # NULL
  <2>1. x = socketp[s] /\ x \in socket_heap \ closing /\ curl_socket[x] = s
        /\ UNCHANGED <<socket_heap, curl_socket, socketp>>
    BY <1>1, <1>3 DEF CreateSocketContextIfNeeded, SocketContextsOwned
  <2>2. SocketTypes'
    BY <1>1, <1>2, <2>1 DEF SocketTypes
  <2>3. SocketContextsOwned'
    BY <1>2, <2>1 DEF SocketContextsOwned
  <2>4. CallbackStage' /\ UnwantedHasNone'
    BY <1>2, <2>1 DEF CallbackStage, UnwantedHasNone, SocketTypes
  <2>5. OnlyWantedIsWatched'
    BY <1>1, <1>2, <2>1 DEF OnlyWantedIsWatched, SocketTypes
  <2> QED BY <2>2, <2>3, <2>4, <2>5
<1>4. CASE socketp[s] = NULL
  <2>1. /\ x \notin socket_heap /\ socket_heap' = socket_heap \cup {x}
        /\ curl_socket' = [y \in socket_heap' |-> IF y = x THEN s ELSE curl_socket[y]]
        /\ socketp' = [socketp EXCEPT ![s] = x]
    BY <1>1, <1>4 DEF CreateSocketContextIfNeeded
  <2>2. SocketTypes'
    BY <1>1, <1>2, <2>1 DEF SocketTypes
  <2>3. SocketContextsOwned'
    <3>1. /\ socketp'[s] = x /\ \A r \in Sockets \ {s} : socketp'[r] = socketp[r]
          /\ curl_socket'[x] = s /\ \A y \in socket_heap : curl_socket'[y] = curl_socket[y]
          /\ x \notin closing
      BY <2>1 DEF SocketTypes
    <3>2. \A y \in socket_heap \ closing : curl_socket[y] # s
      BY <1>1, <1>4, <2>1 DEF SocketContextsOwned, SocketTypes
    <3> QED BY <1>2, <2>1, <3>1, <3>2 DEF SocketContextsOwned, SocketTypes
  <2>4. CallbackStage' /\ UnwantedHasNone'
    BY <1>2, <2>1 DEF CallbackStage, UnwantedHasNone, SocketTypes
  <2>5. OnlyWantedIsWatched'
    BY <1>1, <1>2, <2>1 DEF OnlyWantedIsWatched, SocketTypes
  <2> QED BY <2>2, <2>3, <2>4, <2>5
<1> QED BY <1>3, <1>4

\* The socket callback with CURL_POLL_INOUT.
LEMMA PollDefaultPreserves ==
    ASSUME SocketInv, NEW s \in Sockets, NEW action, PollDefault(s, action),
           UNCHANGED <<epc, req>>
    PROVE  SocketInv'
<1>1. /\ action = "INOUT" /\ wanted' = [wanted EXCEPT ![s] = action]
      /\ UNCHANGED <<socketp, socket_heap, curl_socket, poll, closing>>
  BY DEF PollDefault, contextVars
<1> QED BY <1>1
  DEF SocketInv, SocketTypes, SocketContextsOwned, CallbackStage, UnwantedHasNone,
      OnlyWantedIsWatched, Wishes, Watches

\* The socket callback with CURL_POLL_REMOVE.
LEMMA PollRemovePreserves ==
    ASSUME SocketInv, NEW s \in Sockets, PollRemove(s), UNCHANGED <<epc, req>>
    PROVE  SocketInv'
<1> USE NULLAssumption DEF SocketInv, Wishes, Watches
<1>1. /\ wanted[s] # "nothing" /\ wanted' = [wanted EXCEPT ![s] = "nothing"]
      /\ socketp' = [socketp EXCEPT ![s] = NULL]
  BY DEF PollRemove
<1>2. CASE socketp[s] # NULL
  <2>1. PICK x : x = socketp[s]
    OBVIOUS
  <2>2. /\ x \in socket_heap \ closing /\ curl_socket[x] = s
        /\ poll' = [poll EXCEPT ![x] = "nothing"] /\ closing' = closing \cup {x}
        /\ UNCHANGED <<socket_heap, curl_socket>>
    BY <1>2, <2>1 DEF PollRemove, BeginRemoval, SocketContextsOwned
  <2>3. SocketTypes'
    BY <1>1, <2>2 DEF SocketTypes
  <2>4. /\ socketp'[s] = NULL /\ \A r \in Sockets \ {s} : socketp'[r] = socketp[r]
        /\ wanted'[s] = "nothing" /\ \A r \in Sockets \ {s} : wanted'[r] = wanted[r]
        /\ poll'[x] = "nothing" /\ \A y \in socket_heap \ {x} : poll'[y] = poll[y]
    BY <1>1, <2>2 DEF SocketTypes
  <2>5. \A y \in socket_heap \ closing : y # x => curl_socket[y] # s
    BY <2>1 DEF SocketContextsOwned
  <2>6. SocketContextsOwned'
    BY <2>2, <2>4, <2>5 DEF SocketContextsOwned, SocketTypes
  <2>7. CallbackStage' /\ UnwantedHasNone'
    BY <2>2, <2>4 DEF CallbackStage, UnwantedHasNone
  <2>8. OnlyWantedIsWatched'
    BY <2>2, <2>4, <2>5 DEF OnlyWantedIsWatched, SocketTypes
  <2> QED BY <2>3, <2>6, <2>7, <2>8
<1>3. CASE socketp[s] = NULL
  <2>1. UNCHANGED <<contextVars, socketp>>
    BY <1>1, <1>3 DEF PollRemove, SocketTypes
  <2>2. \A y \in socket_heap \ closing : curl_socket[y] # s
    BY <1>3 DEF SocketContextsOwned, SocketTypes
  <2> QED BY <1>1, <1>3, <2>1, <2>2
    DEF contextVars, SocketTypes, SocketContextsOwned, CallbackStage, UnwantedHasNone,
        OnlyWantedIsWatched
<1> QED BY <1>2, <1>3

\* libuv reports a poll handle as closed and its context is deleted.
LEMMA OnPollClosedPreserves ==
    ASSUME SocketInv, NEW x \in Addresses, OnPollClosed(x)
    PROVE  SocketInv'
<1> USE NULLAssumption DEF SocketInv, Wishes, Watches
<1>1. /\ x \in closing /\ epc = "poll" /\ UNCHANGED <<wanted, socketp, epc, req>>
      /\ socket_heap' = socket_heap \ {x} /\ closing' = closing \ {x}
      /\ curl_socket' = [y \in socket_heap' |-> curl_socket[y]]
      /\ poll' = [y \in socket_heap' |-> poll[y]]
  BY DEF OnPollClosed
<1>2. SocketTypes'
  BY <1>1 DEF SocketTypes
<1>3. SocketContextsOwned'
  BY <1>1 DEF SocketContextsOwned, SocketTypes
<1>4. CallbackStage' /\ UnwantedHasNone'
  BY <1>1 DEF CallbackStage, UnwantedHasNone
<1>5. OnlyWantedIsWatched'
  BY <1>1 DEF OnlyWantedIsWatched, SocketTypes
<1> QED BY <1>2, <1>3, <1>4, <1>5

\* Every step of the event thread preserves the invariant of the sockets.
LEMMA SocketStep ==
    ASSUME SocketInv, [ELNext]_elVars
    PROVE  SocketInv'
<1>1. ASSUME UNCHANGED <<socketVars, req>>, req = NULL \/ epc' \in {"curl", "check"}
      PROVE  SocketInv'
  BY <1>1 DEF SocketInv, SocketTypes, SocketContextsOwned, CallbackStage, UnwantedHasNone,
              OnlyWantedIsWatched, socketVars, contextVars
<1>2. ASSUME UNCHANGED <<socketVars, epc, req>> PROVE SocketInv'
  BY <1>1, <1>2 DEF SocketInv, CallbackStage
<1>3. CASE UNCHANGED elVars
  BY <1>2, <1>3 DEF elVars
<1>4. CASE Tick
  BY <1>2, <1>4 DEF Tick
<1>5. CASE RunCurlJobs
  BY <1>1, <1>5 DEF RunCurlJobs
<1>6. CASE SocketActionReturns
  BY <1>1, <1>6 DEF SocketActionReturns
<1>7. CASE CheckCompletedCurlJobs
  <2>1. UNCHANGED socketVars /\ (req' = NULL \/ UNCHANGED <<epc, req>>)
    BY <1>7 DEF CheckCompletedCurlJobs
  <2> QED BY <2>1
    DEF SocketInv, SocketTypes, SocketContextsOwned, CallbackStage, UnwantedHasNone,
        OnlyWantedIsWatched, socketVars, contextVars
<1>8. ASSUME NEW t \in Transfers, ProcessCurlJob(t) \/ TransferGoesOn(t) \/ TransferDone(t)
      PROVE  SocketInv'
  BY <1>2, <1>8 DEF ProcessCurlJob, TransferGoesOn, TransferDone
<1>9. ASSUME NEW s \in Sockets, CurlSocketCallback(s) PROVE SocketInv'
  <2>1. UNCHANGED <<epc, req>>
    BY <1>9 DEF CurlSocketCallback
  <2>2. ASSUME NEW action \in PollActions \ {wanted[s]}, PollStart(s, action)
        PROVE  SocketInv'
    BY <2>1, <2>2, PollStartPreserves
  <2>3. ASSUME NEW action \in PollActions \ {wanted[s]}, PollDefault(s, action)
        PROVE  SocketInv'
    BY <2>1, <2>3, PollDefaultPreserves
  <2>4. ASSUME PollRemove(s) PROVE SocketInv'
    BY <2>1, <2>4, PollRemovePreserves
  <2> QED BY <1>9, <2>2, <2>3, <2>4 DEF CurlSocketCallback
<1>10. ASSUME NEW x \in Addresses, CurlSocketActivity(x) PROVE SocketInv'
  <2>1. /\ UNCHANGED <<wanted, socketp, socket_heap, curl_socket, closing>>
        /\ epc' = "curl" /\ req' = x /\ x \in socket_heap
    BY <1>10 DEF CurlSocketActivity
  <2>2. /\ poll' \in [socket_heap -> Watches]
        /\ \A y \in socket_heap : poll[y] = "nothing" => poll'[y] = "nothing"
    BY <1>10 DEF CurlSocketActivity, SocketInv, SocketTypes, Watches
  <2> QED BY <2>1, <2>2 DEF SocketInv, SocketTypes, SocketContextsOwned, CallbackStage,
      UnwantedHasNone, OnlyWantedIsWatched
<1>11. ASSUME NEW x \in Addresses, OnPollClosed(x) PROVE SocketInv'
  BY <1>11, OnPollClosedPreserves
<1> QED BY <1>3, <1>4, <1>5, <1>6, <1>7, <1>8, <1>9, <1>10, <1>11 DEF ELNext

\* The invariant of the sockets holds at all times.
LEMMA SocketInvCorrect == ELSpec => []SocketInv
<1>1. ELInit => SocketInv
  BY NULLAssumption DEF ELInit, SocketInv, SocketTypes, SocketContextsOwned, CallbackStage,
     UnwantedHasNone, OnlyWantedIsWatched, Wishes, Watches
<1>2. SocketInv /\ [ELNext]_elVars => SocketInv'
  BY SocketStep
<1> QED BY <1>1, <1>2, PTL DEF ELSpec

\* For any number of sockets and contexts: a CurlSocketContext belongs to curl or
\* is being closed, never both, and curl's pointer is that of the right socket.
THEOREM SocketOwnership == ELSpec => []SocketContextsOwned
<1>1. SocketInv => SocketContextsOwned
  BY DEF SocketInv
<1> QED BY <1>1, SocketInvCorrect, PTL

\* A CurlSocketContext is not deleted while its poll callback runs, whatever curl
\* removes and opens in that callback.
THEOREM CallbackSafety == ELSpec => []PollCallbackIsAlive
<1>1. SocketInv => PollCallbackIsAlive
  BY DEF SocketInv, CallbackStage, PollCallbackIsAlive
<1> QED BY <1>1, SocketInvCorrect, PTL

\* Nothing is watched after CURL_POLL_REMOVE.
THEOREM RemovedIsUnwatched == ELSpec => []OnlyWantedIsWatched
<1>1. SocketInv => OnlyWantedIsWatched
  BY DEF SocketInv
<1> QED BY <1>1, SocketInvCorrect, PTL

\* The callback keeps the poll handle of every socket with one direction as curl
\* wants it; an error only makes it a failed one.
LEMMA WatchedStep ==
    ASSUME SocketInv, WatchedAsWanted, [ELNext]_elVars
    PROVE  WatchedAsWanted'
<1> USE NULLAssumption DEF SocketInv
<1>1. ASSUME UNCHANGED <<wanted, socketp, poll>> PROVE WatchedAsWanted'
  BY <1>1 DEF WatchedAsWanted
<1>2. ASSUME NEW s \in Sockets, CurlSocketCallback(s) PROVE WatchedAsWanted'
  <2>1. ASSUME NEW action \in PollActions, PollStart(s, action) PROVE WatchedAsWanted'
    <3>1. PICK x \in Addresses :
              /\ CreateSocketContextIfNeeded(s, x)
              /\ poll' = [y \in socket_heap' |-> IF y = x THEN action ELSE poll[y]]
      BY <2>1 DEF PollStart
    <3>2. /\ wanted' = [wanted EXCEPT ![s] = action]
          /\ x \in socket_heap' /\ socket_heap \subseteq socket_heap'
          /\ socketp'[s] = x /\ \A r \in Sockets \ {s} : socketp'[r] = socketp[r]
          /\ \A r \in Sockets \ {s} : socketp[r] # NULL => socketp[r] # x
      BY <2>1, <3>1 DEF PollStart, CreateSocketContextIfNeeded, SocketTypes,
                        SocketContextsOwned
    <3>3. \A r \in Sockets : wanted'[r] = IF r = s THEN action ELSE wanted[r]
      BY <3>2 DEF SocketTypes
    <3> QED BY <3>1, <3>2, <3>3 DEF WatchedAsWanted, SocketTypes, SocketContextsOwned
  <2>2. ASSUME NEW action \in PollActions, PollDefault(s, action) PROVE WatchedAsWanted'
    <3>1. /\ \A r \in Sockets : wanted'[r] = IF r = s THEN "INOUT" ELSE wanted[r]
          /\ UNCHANGED <<socketp, poll>>
      BY <2>2 DEF PollDefault, contextVars, SocketTypes
    <3> QED BY <3>1 DEF WatchedAsWanted
  <2>3. ASSUME PollRemove(s) PROVE WatchedAsWanted'
    <3>1. /\ \A r \in Sockets : wanted'[r] = IF r = s THEN "nothing" ELSE wanted[r]
          /\ \A r \in Sockets \ {s} : socketp'[r] = socketp[r]
      BY <2>3 DEF PollRemove, SocketTypes
    <3>2. \A y \in socket_heap : y # socketp[s] => poll'[y] = poll[y]
      BY <2>3 DEF PollRemove, BeginRemoval, contextVars, SocketTypes
    <3>3. \A r \in Sockets \ {s} : socketp[r] # NULL =>
              socketp[r] \in socket_heap /\ socketp[r] # socketp[s]
      BY DEF SocketContextsOwned
    <3> QED BY <3>1, <3>2, <3>3 DEF WatchedAsWanted
  <2> QED BY <1>2, <2>1, <2>2, <2>3 DEF CurlSocketCallback
<1>3. ASSUME NEW x \in Addresses, OnPollClosed(x) PROVE WatchedAsWanted'
  BY <1>3 DEF OnPollClosed, WatchedAsWanted, SocketContextsOwned
<1>4. CASE UNCHANGED elVars
  BY <1>1, <1>4 DEF elVars, socketVars, contextVars
<1>5. CASE Tick \/ RunCurlJobs \/ SocketActionReturns \/ CheckCompletedCurlJobs
  BY <1>1, <1>5 DEF Tick, RunCurlJobs, SocketActionReturns, CheckCompletedCurlJobs,
                    socketVars, contextVars
<1>6. ASSUME NEW t \in Transfers, ProcessCurlJob(t) \/ TransferGoesOn(t) \/ TransferDone(t)
      PROVE  WatchedAsWanted'
  BY <1>1, <1>6 DEF ProcessCurlJob, TransferGoesOn, TransferDone, socketVars, contextVars
<1>7. ASSUME NEW x \in Addresses, CurlSocketActivity(x) PROVE WatchedAsWanted'
  <2>1. UNCHANGED <<wanted, socketp>>
    BY <1>7 DEF CurlSocketActivity
  <2>2. \A y \in socket_heap : poll'[y] \in {poll[y], "failed"}
    BY <1>7 DEF CurlSocketActivity, SocketTypes
  <2>3. \A s \in Sockets : socketp[s] # NULL => socketp[s] \in socket_heap
    BY DEF SocketContextsOwned
  <2> QED BY <2>1, <2>2, <2>3 DEF WatchedAsWanted
<1> QED BY <1>2, <1>3, <1>4, <1>5, <1>6, <1>7 DEF ELNext

\* Each socket on which curl wants one direction is watched for just that, through
\* removals, new contexts and changes.
THEOREM OneDirectionIsWatched == ELSpec => []WatchedAsWanted
<1>1. ELInit => WatchedAsWanted
  BY DEF ELInit, WatchedAsWanted
<1>2. SocketInv /\ WatchedAsWanted /\ [ELNext]_elVars => WatchedAsWanted'
  BY WatchedStep
<1> QED BY <1>1, <1>2, SocketInvCorrect, PTL DEF ELSpec

(***************************************************************************)
(* The timer.                                                              *)
(***************************************************************************)
TimerTypes ==
    /\ multi \subseteq Transfers /\ msgs \subseteq Transfers
    /\ expire \in [Transfers -> 0..Never] /\ limit \in [Transfers -> 0..Never]
    /\ told \in 0..Never /\ g_timeout \in 0..Never
    /\ epc \in {"poll", "curl", "check"}

\* While curl runs the timer does not: it has just fired or was stopped.  Whenever
\* curl is not running, it has told its earliest time.
TimerInv ==
    /\ TimerTypes
    /\ epc = "curl" => g_timeout = Never
    /\ epc # "curl" => /\ told = Earliest(multi, expire)
                       /\ g_timeout # Never => g_timeout <= told

\* No more than Never, the earliest time is a lower bound of the times of the running
\* transfers, and the time of one of them if there is one.
LEMMA EarliestFacts ==
    ASSUME NEW running, NEW times, \A t \in running : times[t] \in 0..Never
    PROVE  LET first == Earliest(running, times)
           IN  /\ first \in 0..Never
               /\ \A t \in running : first <= times[t]
               /\ first = Never \/ \E t \in running : first = times[t]
<1> DEFINE S == {times[t] : t \in running} \cup {Never}
<1>1. Never \in Nat
  BY TimeoutAssumption DEF Never
<1>2. S \subseteq 0..Never /\ Never \in S /\ \A t \in running : times[t] \in S
  BY <1>1
<1>3. \A time \in S : time = Never \/ \E t \in running : time = times[t]
  OBVIOUS
<1>4. Earliest(running, times) = Min(S)
  BY DEF Earliest
<1> HIDE DEF S
<1>5. S \subseteq Nat /\ S # {}
  BY <1>1, <1>2
<1>6. Min(S) \in S /\ \A y \in S : Min(S) <= y
  BY <1>5, LeastMember
<1> QED BY <1>2, <1>3, <1>4, <1>6

\* It is the only such number.
LEMMA EarliestUnique ==
    ASSUME NEW running, NEW times, \A t \in running : times[t] \in 0..Never,
           NEW first \in 0..Never, \A t \in running : first <= times[t],
           first = Never \/ \E t \in running : first = times[t]
    PROVE  first = Earliest(running, times)
<1>1. Never \in Nat
  BY TimeoutAssumption DEF Never
<1>2. PICK e : e = Earliest(running, times)
  OBVIOUS
<1>3. /\ e \in 0..Never /\ \A t \in running : e <= times[t]
      /\ e = Never \/ \E t \in running : e = times[t]
  BY <1>2, EarliestFacts
<1> QED BY <1>1, <1>2, <1>3

\* A tick keeps the order of two times, and brings no time nearer than now.
LEMMA SoonerFacts ==
    /\ \A a \in 0..Never : Sooner(a) \in 0..Never
    /\ \A a, b \in 0..Never : a <= b => Sooner(a) <= Sooner(b)
    /\ \A a \in 0..Never : Sooner(a) = Never <=> a = Never
  BY TimeoutAssumption DEF Sooner, Never

\* A tick brings the earliest time one nearer, if there is one that is not over.
LEMMA EarliestTicks ==
    ASSUME TimerTypes, Tick
    PROVE  Earliest(multi', expire') = Sooner(Earliest(multi, expire))
<1>1. /\ multi' = multi /\ multi \subseteq Transfers
      /\ \A t \in Transfers : expire[t] \in 0..Never /\ expire'[t] = Sooner(expire[t])
  BY DEF TimerTypes, Tick
<1>2. PICK first : first = Earliest(multi, expire)
  OBVIOUS
<1>3. /\ first \in 0..Never /\ \A t \in multi : first <= expire[t]
      /\ first = Never \/ \E t \in multi : first = expire[t]
  BY <1>1, <1>2, EarliestFacts
<1>4. PICK second : second = Sooner(first)
  OBVIOUS
<1>5. /\ second \in 0..Never /\ \A t \in multi : second <= expire'[t]
      /\ second = Never \/ \E t \in multi : second = expire'[t]
  BY <1>1, <1>3, <1>4, SoonerFacts
<1>6. \A t \in multi' : expire'[t] \in 0..Never
  BY <1>1, SoonerFacts
<1>7. second = Earliest(multi', expire')
  BY <1>1, <1>5, <1>6, EarliestUnique
<1> QED BY <1>2, <1>4, <1>7

\* When a transfer has been added, curl wants to be called at once.
LEMMA EarliestAfterAdd ==
    ASSUME TimerTypes, NEW t \in Transfers, ProcessCurlJob(t)
    PROVE  Earliest(multi', expire') = 0
<1>1. /\ multi' = multi \cup {t} /\ multi' \subseteq Transfers
      /\ \A u \in multi' : expire'[u] \in 0..Never /\ expire'[t] = 0
  BY TimeoutAssumption DEF TimerTypes, ProcessCurlJob, Never
<1>2. PICK first : first = Earliest(multi', expire')
  OBVIOUS
<1>3. first \in 0..Never /\ \A u \in multi' : first <= expire'[u]
  BY <1>1, <1>2, EarliestFacts
<1> QED BY <1>1, <1>2, <1>3

\* Telling a time: the timer is set to it, or was told it before.
LEMMA UpdateTimerFacts ==
    ASSUME NEW first \in 0..Never, NEW last, UpdateTimer(first, last)
    PROVE  /\ told' = first
           /\ first # last /\ first # Never => g_timeout' = first
           /\ first = last \/ first = Never => g_timeout' = g_timeout
  BY TimeoutAssumption DEF UpdateTimer, CurlTimeoutChange, Never

\* Every step of the event thread preserves the invariant of the timer.
LEMMA TimerStep ==
    ASSUME TimerInv, [ELNext]_elVars
    PROVE  TimerInv'
<1> USE TimeoutAssumption DEF TimerInv, Never
<1>1. ASSUME UNCHANGED <<multi, msgs, expire, limit, told, g_timeout, epc>> PROVE TimerInv'
  BY <1>1 DEF TimerTypes, Earliest
<1>2. CASE UNCHANGED elVars
  BY <1>1, <1>2 DEF elVars, timeVars
<1>3. CASE Tick
  <2>1. PICK now : now = Earliest(multi, expire)
    OBVIOUS
  <2>2. Earliest(multi', expire') = Sooner(now)
    BY <1>3, <2>1, EarliestTicks
  <2>3. /\ told' = Sooner(told) /\ g_timeout' = Sooner(g_timeout)
        /\ UNCHANGED <<multi, msgs, epc>>
    BY <1>3 DEF Tick
  <2>4. TimerTypes'
    BY <1>3, <2>3, SoonerFacts DEF TimerTypes, Tick
  <2> QED BY <2>1, <2>2, <2>3, <2>4, SoonerFacts DEF TimerTypes
<1>4. CASE RunCurlJobs
  BY <1>4 DEF RunCurlJobs, TimerTypes
<1>5. CASE SocketActionReturns
  <2>1. PICK first : first = Earliest(multi, expire)
    OBVIOUS
  <2>2. first \in 0..Never
    BY <2>1, EarliestFacts DEF TimerTypes
  <2>3. /\ UpdateTimer(first, told) /\ epc = "curl" /\ epc' = "check"
        /\ UNCHANGED <<multi, msgs, expire, limit>>
    BY <1>5, <2>1 DEF SocketActionReturns
  <2>4. told' = first /\ g_timeout' \in {first, g_timeout}
    BY <2>2, <2>3, UpdateTimerFacts
  <2>5. TimerTypes'
    BY <2>2, <2>3, <2>4 DEF TimerTypes
  <2> QED BY <2>1, <2>2, <2>3, <2>4, <2>5 DEF TimerTypes
<1>6. CASE CheckCompletedCurlJobs
  <2>1. /\ msgs' \subseteq msgs /\ epc = "check" /\ epc' \in {"poll", "check"}
        /\ UNCHANGED <<multi, expire, limit, told, g_timeout>>
    BY <1>6 DEF CheckCompletedCurlJobs, timeVars
  <2> QED BY <2>1 DEF TimerTypes, Earliest
<1>7. ASSUME NEW t \in Transfers, ProcessCurlJob(t) PROVE TimerInv'
  <2>1. Earliest(multi', expire') = 0
    BY <1>7, EarliestAfterAdd
  <2>2. UpdateTimer(0, Never) /\ epc = "poll" /\ UNCHANGED <<msgs, epc>>
    BY <1>7, <2>1 DEF ProcessCurlJob
  <2>3. told' = 0 /\ g_timeout' = 0
    BY <2>2, UpdateTimerFacts
  <2>4. TimerTypes'
    BY <1>7, <2>2, <2>3 DEF ProcessCurlJob, TimerTypes
  <2> QED BY <2>1, <2>2, <2>3, <2>4
<1>8. ASSUME NEW t \in Transfers, TransferGoesOn(t) PROVE TimerInv'
  <2>1. PICK time \in 1..limit[t] : expire' = [expire EXCEPT ![t] = time]
    BY <1>8 DEF TransferGoesOn
  <2>2. time \in 0..Never
    BY DEF TimerTypes
  <2> QED BY <1>8, <2>1, <2>2 DEF TransferGoesOn, TimerTypes
<1>9. ASSUME NEW t \in Transfers, TransferDone(t) PROVE TimerInv'
  BY <1>9 DEF TransferDone, TimerTypes
<1>10. ASSUME NEW s \in Sockets, CurlSocketCallback(s) PROVE TimerInv'
  BY <1>1, <1>10 DEF CurlSocketCallback, timeVars
<1>11. ASSUME NEW x \in Addresses, CurlSocketActivity(x) PROVE TimerInv'
  BY <1>11 DEF CurlSocketActivity, timeVars, TimerTypes
<1>12. ASSUME NEW x \in Addresses, OnPollClosed(x) PROVE TimerInv'
  BY <1>1, <1>12 DEF OnPollClosed, timeVars
<1> QED BY <1>2, <1>3, <1>4, <1>5, <1>6, <1>7, <1>8, <1>9, <1>10, <1>11, <1>12 DEF ELNext

\* The invariant of the timer holds at all times.
LEMMA TimerInvCorrect == ELSpec => []TimerInv
<1>1. ASSUME ELInit PROVE TimerInv
  <2>1. TimerTypes /\ multi = {} /\ told = Never /\ g_timeout = Never /\ epc = "poll"
    BY <1>1, TimeoutAssumption DEF ELInit, TimerTypes, Never
  <2>2. Never = Earliest(multi, expire)
    BY <2>1, EarliestUnique, TimeoutAssumption DEF Never
  <2> QED BY <2>1, <2>2 DEF TimerInv
<1>2. TimerInv /\ [ELNext]_elVars => TimerInv'
  BY TimerStep
<1> QED BY <1>1, <1>2, PTL DEF ELSpec

\* The types of CurlEventLoop.
THEOREM EventLoopTypes == ELSpec => []ELTypeOK
<1>1. SocketInv /\ TimerInv => ELTypeOK
  BY DEF SocketInv, SocketTypes, TimerInv, TimerTypes, ELTypeOK
<1> QED BY <1>1, SocketInvCorrect, TimerInvCorrect, PTL

\* For any number of transfers and any CURLOPT_TIMEOUT_MS: a timer that runs does not
\* fire after the earliest time at which curl wants to be called, however the times
\* of the transfers overlap.
THEOREM TimerIsNotLate == ELSpec => []TimerNotLate
<1>1. TimerInv => TimerNotLate
  BY DEF TimerInv, TimerNotLate
<1> QED BY <1>1, TimerInvCorrect, PTL

\* The timer of a silent network: stopped while curl runs, as curl has been told, and
\* otherwise set to the time curl told.
SilentInv == g_timeout = told /\ (epc = "curl" => told = Never)

\* Every step without activity on a socket preserves that.
LEMMA SilentStep ==
    ASSUME TimerInv, SilentInv, req' = NULL, [ELNext]_elVars
    PROVE  SilentInv'
<1> USE TimeoutAssumption DEF SilentInv
<1>1. ASSUME UNCHANGED <<told, g_timeout, epc>> PROVE SilentInv'
  BY <1>1
<1>2. CASE UNCHANGED elVars
  BY <1>1, <1>2 DEF elVars, timeVars
<1>3. CASE Tick
  BY <1>3 DEF Tick, Sooner, Never
<1>4. CASE RunCurlJobs
  BY <1>4 DEF RunCurlJobs
<1>5. CASE SocketActionReturns
  <2>1. PICK first : first = Earliest(multi, expire)
    OBVIOUS
  <2>2. first \in 0..Never
    BY <2>1, EarliestFacts DEF TimerInv, TimerTypes
  <2>3. UpdateTimer(first, told) /\ epc = "curl" /\ epc' = "check"
    BY <1>5, <2>1 DEF SocketActionReturns
  <2> QED BY <2>2, <2>3, UpdateTimerFacts
<1>6. CASE CheckCompletedCurlJobs
  BY <1>6 DEF CheckCompletedCurlJobs, timeVars
<1>7. ASSUME NEW t \in Transfers, ProcessCurlJob(t) PROVE SilentInv'
  <2>1. Earliest(multi', expire') = 0
    BY <1>7, EarliestAfterAdd DEF TimerInv
  <2>2. UpdateTimer(0, Never) /\ epc = "poll" /\ epc' = epc
    BY <1>7, <2>1 DEF ProcessCurlJob
  <2>3. told' = 0 /\ g_timeout' = 0
    BY <2>2, UpdateTimerFacts DEF Never
  <2> QED BY <2>2, <2>3
<1>8. ASSUME NEW t \in Transfers, TransferGoesOn(t) \/ TransferDone(t) PROVE SilentInv'
  BY <1>1, <1>8 DEF TransferGoesOn, TransferDone
<1>9. ASSUME NEW s \in Sockets, CurlSocketCallback(s) PROVE SilentInv'
  BY <1>1, <1>9 DEF CurlSocketCallback, timeVars
<1>10. ASSUME NEW x \in Addresses, CurlSocketActivity(x) PROVE FALSE
  BY <1>10, NULLAssumption DEF CurlSocketActivity
<1>11. ASSUME NEW x \in Addresses, OnPollClosed(x) PROVE SilentInv'
  BY <1>1, <1>11 DEF OnPollClosed, timeVars
<1> QED BY <1>2, <1>3, <1>4, <1>5, <1>6, <1>7, <1>8, <1>9, <1>10, <1>11 DEF ELNext

\* While the network is silent the timer is always set to the time curl asked for, so
\* no other code than CurlSocketActivity can make a request miss its time-out.
THEOREM SilentTimer == ELSpec => SilentTimerRuns
<1>1. ELInit => SilentInv
  BY DEF ELInit, SilentInv
<1>2. TimerInv /\ SilentInv /\ (req = NULL)' /\ [ELNext]_elVars => SilentInv'
  BY SilentStep
<1>3. SilentInv => (epc # "curl" => g_timeout = told)
  BY DEF SilentInv
<1> QED BY <1>1, <1>2, <1>3, TimerInvCorrect, PTL DEF ELSpec, SilentTimerRuns
===============================================================================
