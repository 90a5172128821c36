--------------------------- MODULE UiClientProofs ---------------------------
(***************************************************************************)
(* Theorems about the UI client: its buttons, its sockets and the pairing  *)
(* of answers with requests, for any number of connections and requests.   *)
(***************************************************************************)
EXTENDS UiClient, SequenceTheorems, TLAPS

-----------------------------------------------------------------------------
(* The inductive invariant.                                                *)

(* The types that the proofs of the other parts need. *)
Typed ==
  /\ dialog \in {"open", "cancelling", "closed"}
  /\ m_socket \in Sockets \cup {NoSocket}
  /\ m_connected \in BOOLEAN
  /\ worker \in {"none", "ready", "waiting", "leaving", "posted"}
  /\ closing \in [Threads -> {"no", "test", "close", "clear"}]
  /\ opened \subseteq Sockets
  /\ closes \in [Sockets -> Nat]

(* m_connected tells whether there is a socket; only sockets that were     *)
(* opened are used; the worker is in DoDisconnect only to log out; and     *)
(* while the dialog is open its thread is in DoDisconnect only when there  *)
(* is no worker.                                                           *)
Owners ==
  /\ m_connected <=> m_socket # NoSocket
  /\ m_socket # NoSocket => m_socket \in opened
  /\ \A s \in Sockets \ opened : closes[s] = 0
  /\ worker = "leaving" <=> closing["worker"] # "no"
  /\ dialog = "open" /\ closing["ui"] # "no" => worker = "none"

(* While the dialog is open, the socket in m_socket is closed only by a    *)
(* thread that is about to clear it, and by every such thread; a thread    *)
(* about to close it finds it open.                                        *)
Closers ==
  dialog = "open" =>
    /\ m_socket # NoSocket /\ closes[m_socket] # 0 =>
         \E t \in Threads : closing[t] = "clear"
    /\ \A t \in Threads :
         /\ closing[t] \in {"close", "clear"} => m_socket # NoSocket
         /\ closing[t] = "close" => closes[m_socket] = 0
         /\ closing[t] = "clear" => closes[m_socket] # 0

(* On an open connection without a fault, the request the worker waits for *)
(* is the only one that is on its way or answered.                         *)
Quiet(s)   == pending[s] = <<>> /\ inbox[s] = <<>>
Awaited(s) == \/ pending[s] = <<asked>> /\ inbox[s] = <<>>
              \/ pending[s] = <<>> /\ inbox[s] = <<asked>>

Paired ==
  m_socket # NoSocket /\ closes[m_socket] = 0 /\ health[m_socket] = "good" =>
    /\ worker = "waiting" => Awaited(m_socket)
    /\ worker \in {"none", "ready", "posted"} => Quiet(m_socket)

(* A handle that was not returned yet has no traffic. *)
Fresh == \A s \in Sockets \ opened : Quiet(s)

Mailboxes ==
  /\ pending \in [Sockets -> Seq(Nat)]
  /\ inbox \in [Sockets -> Seq(Nat)]
  /\ health \in [Sockets -> {"good", "late", "garbled"}]
  /\ asked \in Nat

(* Buttons and sockets; requests and answers. *)
Windows == Typed /\ Owners /\ Closers /\ ButtonsTellTruth /\ SocketsAccounted

Traffic == Mailboxes /\ Fresh /\ Paired /\ AnswersMatch

-----------------------------------------------------------------------------
(* Buttons and sockets.                                                    *)

LEMMA WindowsInit == Init => Windows
<1> SUFFICES ASSUME Init PROVE Windows
  OBVIOUS
<1>1. Typed
  BY DEF Init, Typed
<1>2. closing["ui"] = "no" /\ closing["worker"] = "no"
  BY DEF Init, Threads
<1>3. Owners /\ Closers
  BY <1>2 DEF Init, Owners, Closers, Threads
<1>4. ButtonsTellTruth /\ SocketsAccounted
  BY DEF Init, ButtonsTellTruth, SocketsAccounted
<1> QED
  BY <1>1, <1>3, <1>4 DEF Windows

LEMMA TestWindows ==
  ASSUME Windows, NEW t \in Threads, TestSocket(t)
  PROVE  Windows'
BY DEF Windows, Typed, Owners, Closers, ButtonsTellTruth, SocketsAccounted,
     UiIdle, Threads, TestSocket, AfterDisconnect, shared, button, thread

LEMMA CloseWindows ==
  ASSUME Windows, NEW t \in Threads, CloseSocket(t)
  PROVE  Windows'
<1> USE DEF Windows, CloseSocket, shared, button, thread
<1>1. /\ closes' \in [Sockets -> Nat]
      /\ \A s \in Sockets :
           closes'[s] = IF s = m_socket THEN closes[s] + 1 ELSE closes[s]
  BY DEF Typed
<1>2. /\ closing' \in [Threads -> {"no", "test", "close", "clear"}]
      /\ closing'[t] = "clear"
      /\ \A u \in Threads \ {t} : closing'[u] = closing[u]
  BY DEF Typed
<1>3. Typed' /\ Owners' /\ ButtonsTellTruth'
  <2>1. Typed'
    BY <1>1, <1>2 DEF Typed
  <2>2. closing'["worker"] # "no" <=> closing["worker"] # "no"
    BY <1>2 DEF Threads
  <2>3. closing'["ui"] # "no" <=> closing["ui"] # "no"
    BY <1>2 DEF Threads
  <2>4. \A s \in Sockets \ opened : closes'[s] = 0
    BY <1>1, UiAssumption DEF Owners
  <2>5. Owners'
    BY <2>2, <2>3, <2>4 DEF Owners
  <2> QED
    BY <2>1, <2>3, <2>5 DEF ButtonsTellTruth, UiIdle
<1>4. ASSUME dialog = "open"
      PROVE  /\ m_socket \in Sockets /\ closes[m_socket] = 0
             /\ \A u \in Threads \ {t} : closing[u] = "no"
  BY <1>4 DEF Typed, Owners, Closers, Threads
<1>5. Closers' /\ SocketsAccounted'
  BY <1>1, <1>2, <1>4 DEF Closers, SocketsAccounted, Typed
<1> QED
  BY <1>3, <1>5

LEMMA ClearWindows ==
  ASSUME Windows, NEW t \in Threads, ClearSocket(t)
  PROVE  Windows'
<1> USE DEF Windows, ClearSocket, button, thread
<1>1. /\ closing' \in [Threads -> {"no", "test", "close", "clear"}]
      /\ closing'[t] = "no"
      /\ \A u \in Threads \ {t} : closing'[u] = closing[u]
  BY DEF Typed
<1>2. t = "worker" => worker' = "posted" /\ UNCHANGED <<dialog, enabled>>
  BY DEF AfterDisconnect
<1>3. t = "ui" => /\ UNCHANGED worker
                  /\ \/ dialog = "cancelling" /\ dialog' = "closed"
                     \/ dialog # "cancelling" /\ dialog' = dialog
                                              /\ enabled' = {"connect"}
  BY DEF AfterDisconnect
<1>4. t = "ui" \/ t = "worker"
  BY DEF Threads
<1>5. dialog' = "open" => dialog = "open"
  BY <1>2, <1>3, <1>4
<1>6. Typed'
  BY <1>1, <1>2, <1>3, <1>4 DEF Typed
<1>7. Owners'
  BY <1>1, <1>2, <1>3, <1>4, <1>5 DEF Owners, Threads, Typed
<1>8. ASSUME dialog = "open"
      PROVE  /\ closes[m_socket] # 0
             /\ \A u \in Threads \ {t} : closing[u] = "no"
  BY <1>8 DEF Typed, Owners, Closers, Threads
<1>9. Closers' /\ SocketsAccounted'
  BY <1>1, <1>5, <1>8 DEF Closers, SocketsAccounted, Typed
<1>10. ButtonsTellTruth'
  BY <1>1, <1>2, <1>3, <1>4, <1>5
     DEF ButtonsTellTruth, UiIdle, Owners, Threads
<1> QED
  BY <1>6, <1>7, <1>9, <1>10

LEMMA ClickWindows ==
  ASSUME Windows, Click
  PROVE  Windows'
<1>1. ASSUME NEW s \in Sockets, OnBnClickedConnect(s)
      PROVE  Windows'
  BY <1>1, UiAssumption DEF Windows, Typed, Owners, Closers, ButtonsTellTruth,
       SocketsAccounted, UiIdle, Threads, OnBnClickedConnect, DoConnect,
       ButtonsWhenConnected, thread
<1>2. ASSUME OnBnClickedDisconnect
      PROVE  Windows'
  BY <1>2 DEF Windows, Typed, Owners, Closers, ButtonsTellTruth,
       SocketsAccounted, UiIdle, Threads, OnBnClickedDisconnect, button,
       shared, thread
<1>3. ASSUME NEW k \in Commands, OnBnClickedRun(k)
      PROVE  Windows'
  BY <1>3 DEF Windows, Typed, Owners, Closers, ButtonsTellTruth,
       SocketsAccounted, UiIdle, Threads, OnBnClickedRun, FurtherRequests, shared
<1>4. ASSUME OnCancel
      PROVE  Windows'
  BY <1>4 DEF Windows, Typed, Owners, Closers, ButtonsTellTruth,
       SocketsAccounted, UiIdle, Threads, OnCancel, shared, thread
<1> QED
  BY <1>1, <1>2, <1>3, <1>4 DEF Click

LEMMA DoneWindows ==
  ASSUME Windows, OnWorkerDone
  PROVE  Windows'
BY DEF Windows, Typed, Owners, Closers, ButtonsTellTruth, SocketsAccounted,
     UiIdle, Threads, OnWorkerDone, ButtonsWhenDone, shared

(* The steps of the worker that exchange messages leave the dialog alone,  *)
(* and the worker goes on or reports.                                      *)
LEMMA ExchangeWindows ==
  ASSUME Windows,
         \/ NotConnected \/ SendRequest \/ SendFails \/ RecvAnswer
         \/ RecvFails \/ RunLogout
  PROVE  Windows'
<1>1. /\ UNCHANGED <<dialog, enabled, m_socket, m_connected, opened, closes>>
      /\ worker \in {"ready", "waiting"}
  BY DEF NotConnected, SendRequest, SendFails, RecvAnswer, RecvFails,
       RunLogout, WorkerFrame, button, shared
<1>2. \/ worker' \in {"ready", "waiting", "posted"} /\ closing' = closing
      \/ worker' = "leaving" /\ closing' = [closing EXCEPT !["worker"] = "test"]
  BY DEF NotConnected, SendRequest, SendFails, RecvAnswer, RecvFails,
       RunLogout, EndCommand, Leave
<1> QED
  BY <1>1, <1>2 DEF Windows, Typed, Owners, Closers, ButtonsTellTruth,
       SocketsAccounted, UiIdle, Threads

LEMMA WindowsKept ==
  ASSUME Windows, UNCHANGED <<button, shared, worker, closing, opened, closes>>
  PROVE  Windows'
BY DEF Windows, Typed, Owners, Closers, ButtonsTellTruth, SocketsAccounted,
     UiIdle, button, shared

LEMMA WindowsStep == Windows /\ [Next]_vars => Windows'
<1> SUFFICES ASSUME Windows, [Next]_vars PROVE Windows'
  OBVIOUS
<1> Threads = {"ui", "worker"}
  BY DEF Threads
<1>1. CASE Click
  BY <1>1, ClickWindows
<1>2. CASE UiStep
  BY <1>2, DoneWindows, TestWindows, CloseWindows, ClearWindows
     DEF UiStep, DoDisconnect
<1>3. CASE WorkerStep
  BY <1>3, ExchangeWindows, TestWindows, CloseWindows, ClearWindows
     DEF WorkerStep, DoDisconnect
<1>4. CASE \E s \in Sockets : Answer(s) \/ PeerCloses(s)
  BY <1>4, WindowsKept DEF Answer, PeerCloses, thread
<1>5. CASE UNCHANGED vars
  BY <1>5, WindowsKept DEF vars, thread
<1> QED
  BY <1>1, <1>2, <1>3, <1>4, <1>5 DEF Next, Closed

LEMMA WindowsAlways == Spec => []Windows
BY WindowsInit, WindowsStep, PTL DEF Spec

(* The buttons always offer what the state of connection and worker allows *)
(* (MainDlg.cpp:244-246, 263-265, 281-282, 349-360).                       *)
THEOREM ButtonsAlwaysTrue == Spec => []ButtonsTellTruth
BY WindowsAlways, PTL DEF Windows

(* While the dialog is open, no socket is lost and none is closed twice    *)
(* (MainDlg.cpp:439-447), for any number of connections.                   *)
THEOREM SocketsAlwaysAccounted == Spec => []SocketsAccounted
BY WindowsAlways, PTL DEF Windows

-----------------------------------------------------------------------------
(* Requests and answers.                                                   *)

LEMMA TrafficInit == Init => Traffic
BY DEF Init, Traffic, Mailboxes, Fresh, Quiet, Paired, AnswersMatch

(* What leaves the traffic alone may drop the socket, or hand the worker   *)
(* on among the states in which it awaits nothing.                         *)
LEMMA TrafficKept ==
  ASSUME Traffic, UNCHANGED <<network, history>>,
         opened \subseteq opened',
         \/ m_socket' = NoSocket
         \/ /\ m_socket' = m_socket
            /\ closes'[m_socket] = 0 => closes[m_socket] = 0
            /\ \/ worker' = worker
               \/ /\ worker \in {"none", "ready", "posted"}
                  /\ worker' \in {"none", "ready", "posted"}
  PROVE  Traffic'
BY DEF Traffic, Mailboxes, Fresh, Quiet, Awaited, Paired, AnswersMatch,
     network, history

LEMMA DisconnectTraffic ==
  ASSUME Windows, Traffic, NEW t \in Threads, DoDisconnect(t)
  PROVE  Traffic'
<1>1. CASE TestSocket(t)
  <2>1. m_socket = NoSocket \/ worker' = worker
    BY <1>1 DEF TestSocket, thread
  <2> QED
    BY <1>1, <2>1, TrafficKept DEF TestSocket, shared
<1>2. CASE CloseSocket(t)
  <2>1. m_socket \in Sockets => closes'[m_socket] = closes[m_socket] + 1
    BY <1>2 DEF CloseSocket
  <2>2. m_socket \in Sockets => closes[m_socket] \in Nat
    BY DEF Windows, Typed
  <2>3. m_socket' = NoSocket \/ (closes'[m_socket] = 0 => closes[m_socket] = 0)
    BY <1>2, <2>1, <2>2 DEF CloseSocket, shared, Windows, Typed
  <2> QED
    BY <1>2, <2>3, TrafficKept DEF CloseSocket, shared, thread
<1>3. CASE ClearSocket(t)
  BY <1>3, TrafficKept DEF ClearSocket
<1> QED
  BY <1>1, <1>2, <1>3 DEF DoDisconnect

LEMMA ClickTraffic ==
  ASSUME Windows, Traffic, Click
  PROVE  Traffic'
<1>1. ASSUME NEW s \in Sockets, OnBnClickedConnect(s)
      PROVE  Traffic'
  <2>1. Quiet(s) /\ Quiet(s)'
    BY <1>1 DEF Traffic, Fresh, Quiet, OnBnClickedConnect, DoConnect, network
  <2>2. worker = "none" /\ worker' = "none"
    BY <1>1 DEF Windows, ButtonsTellTruth, OnBnClickedConnect, DoConnect, thread
  <2>3. Paired'
    BY <1>1, <2>1, <2>2 DEF Paired, OnBnClickedConnect, DoConnect
  <2> QED
    BY <1>1, <2>3 DEF Traffic, Mailboxes, Fresh, Quiet, AnswersMatch,
         OnBnClickedConnect, DoConnect, network, history
<1>2. CASE OnBnClickedDisconnect
  BY <1>2, TrafficKept DEF OnBnClickedDisconnect, shared, thread
<1>3. ASSUME NEW k \in Commands, OnBnClickedRun(k)
      PROVE  Traffic'
  <2>1. worker = "none" /\ worker' = "ready"
    BY <1>3 DEF Windows, ButtonsTellTruth, OnBnClickedRun, FurtherRequests
  <2> QED
    BY <1>3, <2>1, TrafficKept DEF OnBnClickedRun, FurtherRequests, shared
<1>4. CASE OnCancel
  BY <1>4, TrafficKept DEF OnCancel, shared, thread
<1> QED
  BY <1>1, <1>2, <1>3, <1>4 DEF Click

LEMMA SendTraffic ==
  ASSUME Windows, Traffic, SendRequest
  PROVE  Traffic'
<1> USE DEF SendRequest, Deliver, Usable, WorkerFrame, shared
<1>1. m_socket \in Sockets /\ m_socket \in opened
  BY DEF Windows, Typed, Owners
<1>2. /\ asked' \in Nat /\ asked' = asked + 1
      /\ pending' \in [Sockets -> Seq(Nat)]
      /\ pending'[m_socket] = Append(pending[m_socket], asked')
      /\ \A s \in Sockets \ {m_socket} : pending'[s] = pending[s]
  BY <1>1 DEF Traffic, Mailboxes
<1>3. health[m_socket] = "good" => Quiet(m_socket)
  BY DEF Traffic, Paired
<1>4. pending[m_socket] = <<>> => pending'[m_socket] = <<asked'>>
  BY <1>2
<1>5. Paired'
  BY <1>3, <1>4 DEF Paired, Quiet, Awaited
<1> QED
  BY <1>1, <1>2, <1>5 DEF Traffic, Mailboxes, Fresh, Quiet, AnswersMatch

LEMMA EndCommandWorker ==
  ASSUME EndCommand
  PROVE  worker' \in {"ready", "posted"}
BY DEF EndCommand

LEMMA RecvTraffic ==
  ASSUME Windows, Traffic, RecvAnswer
  PROVE  Traffic'
<1> USE DEF RecvAnswer, Usable, WorkerFrame, shared
<1>1. m_socket \in Sockets /\ m_socket \in opened
  BY DEF Windows, Typed, Owners
<1>2. /\ inbox' \in [Sockets -> Seq(Nat)]
      /\ inbox'[m_socket] = Tail(inbox[m_socket])
      /\ \A s \in Sockets \ {m_socket} : inbox'[s] = inbox[s]
  BY <1>1 DEF Traffic, Mailboxes
<1>3. health[m_socket] = "good" =>
        pending[m_socket] = <<>> /\ inbox[m_socket] = <<asked>>
  BY DEF Traffic, Paired, Awaited
<1>4. health[m_socket] = "good" =>
        Head(inbox[m_socket]) = asked /\ inbox'[m_socket] = <<>>
  BY <1>2, <1>3
<1>5. Paired'
  BY <1>3, <1>4, EndCommandWorker DEF Paired, Quiet
<1>6. AnswersMatch'
  <2>1. PICK got : shown' = shown \cup {[to |-> asked, got |-> got,
                                        clean |-> health[m_socket] = "good"]}
                   /\ got \in IF health[m_socket] = "garbled" THEN 1 .. asked
                               ELSE {Head(inbox[m_socket])}
    OBVIOUS
  <2>2. \A a \in shown : a.clean => a.got = a.to
    BY DEF Traffic, AnswersMatch
  <2>3. CASE health[m_socket] = "good"
    <3>1. got = asked
      BY <2>1, <2>3, <1>4
    <3> QED
      BY <2>1, <2>2, <3>1 DEF AnswersMatch
  <2>4. CASE health[m_socket] # "good"
    <3>1. [to |-> asked, got |-> got,
           clean |-> health[m_socket] = "good"].clean = FALSE
      BY <2>4
    <3> QED
      BY <2>1, <2>2, <3>1 DEF AnswersMatch
  <2> QED
    BY <2>3, <2>4
<1> QED
  BY <1>1, <1>2, <1>5, <1>6 DEF Traffic, Mailboxes, Fresh, Quiet

(* After a failure the connection is no longer without a fault. *)
LEMMA SpoiledHealth ==
  ASSUME Traffic, NEW s \in Sockets, NEW how \in {"late", "garbled"},
         Spoil(s, how)
  PROVE  /\ health' \in [Sockets -> {"good", "late", "garbled"}]
         /\ health'[s] # "good"
BY DEF Traffic, Mailboxes, Spoil

LEMMA FailureTraffic ==
  ASSUME Windows, Traffic, SendFails \/ RecvFails
  PROVE  Traffic'
<1>1. /\ UNCHANGED <<pending, inbox, shown, opened, m_socket, closes>>
      /\ asked' \in Nat
  BY DEF SendFails, RecvFails, WorkerFrame, shared, history, Traffic, Mailboxes
<1>2. /\ health' \in [Sockets -> {"good", "late", "garbled"}]
      /\ Usable(m_socket) => health'[m_socket] # "good"
  <2>1. CASE Usable(m_socket)
    <3>1. m_socket \in Sockets
      BY <2>1 DEF Windows, Typed, Usable
    <3>2. \/ Spoil(m_socket, "garbled") \/ Spoil(m_socket, "late")
          \/ health[m_socket] = "garbled" /\ UNCHANGED health
      BY <2>1 DEF SendFails, RecvFails
    <3>3. CASE health[m_socket] = "garbled" /\ UNCHANGED health
      BY <3>3 DEF Traffic, Mailboxes
    <3> QED
      BY <3>1, <3>2, <3>3, SpoiledHealth
  <2>2. CASE ~Usable(m_socket)
    BY <2>2 DEF SendFails, RecvFails, Traffic, Mailboxes
  <2> QED
    BY <2>1, <2>2
<1>3. Paired'
  BY <1>1, <1>2 DEF Paired, Usable
<1> QED
  BY <1>1, <1>2, <1>3 DEF Traffic, Mailboxes, Fresh, Quiet, AnswersMatch

LEMMA LogoutTraffic ==
  ASSUME Windows, Traffic, RunLogout
  PROVE  Traffic'
<1> USE DEF RunLogout, Deliver, Usable, WorkerFrame, shared
<1>1. m_socket \in Sockets /\ m_socket \in opened
  BY DEF Windows, Typed, Owners
<1>2. /\ asked' \in Nat
      /\ pending' \in [Sockets -> Seq(Nat)]
      /\ \A s \in Sockets \ {m_socket} : pending'[s] = pending[s]
  <2>1. asked' \in Nat /\ pending \in [Sockets -> Seq(Nat)]
    BY DEF Traffic, Mailboxes
  <2>2. CASE UNCHANGED pending
    BY <2>1, <2>2
  <2>3. CASE pending' = [pending EXCEPT ![m_socket] = Append(@, asked')]
    BY <1>1, <2>1, <2>3
  <2> QED
    BY <2>2, <2>3
<1>3. worker' = "leaving"
  BY DEF Leave
<1>4. Paired'
  BY <1>3 DEF Paired
<1> QED
  BY <1>1, <1>2, <1>4 DEF Traffic, Mailboxes, Fresh, Quiet, AnswersMatch

LEMMA NotConnectedTraffic ==
  ASSUME Windows, Traffic, NotConnected
  PROVE  Traffic'
BY TrafficKept DEF NotConnected, WorkerFrame, shared, Windows, Owners

LEMMA AnswerTraffic ==
  ASSUME Windows, Traffic, NEW s \in Sockets, Answer(s)
  PROVE  Traffic'
<1> USE DEF Answer, shared, thread, history
<1>1. /\ pending' \in [Sockets -> Seq(Nat)]
      /\ pending'[s] = Tail(pending[s])
      /\ \A r \in Sockets \ {s} : pending'[r] = pending[r]
  BY DEF Traffic, Mailboxes
<1>2. Head(pending[s]) \in Nat
  BY DEF Traffic, Mailboxes
<1>3. /\ inbox' \in [Sockets -> Seq(Nat)]
      /\ inbox'[s] = Append(inbox[s], Head(pending[s]))
      /\ \A r \in Sockets \ {s} : inbox'[r] = inbox[r]
  BY <1>2 DEF Traffic, Mailboxes
<1>4. Awaited(s) => Awaited(s)'
  <2> SUFFICES ASSUME Awaited(s) PROVE Awaited(s)'
    OBVIOUS
  <2>1. pending[s] = <<asked>> /\ inbox[s] = <<>>
    BY DEF Awaited
  <2>2. Tail(pending[s]) = <<>> /\ Head(pending[s]) = asked
    BY <2>1
  <2>3. inbox'[s] = <<asked>>
    BY <1>3, <2>1, <2>2
  <2> QED
    BY <1>1, <2>2, <2>3 DEF Awaited
<1>5. ~Quiet(s)
  BY DEF Quiet
<1>6. Paired'
  <2>1. CASE m_socket = s
    BY <2>1, <1>4, <1>5 DEF Traffic, Paired
  <2>2. CASE m_socket # s
    <3>1. m_socket = NoSocket \/ m_socket \in Sockets \ {s}
      BY <2>2 DEF Windows, Typed
    <3> QED
      BY <1>1, <1>3, <3>1 DEF Traffic, Paired, Quiet, Awaited
  <2> QED
    BY <2>1, <2>2
<1>7. Fresh'
  BY <1>1, <1>3, <1>5 DEF Traffic, Fresh, Quiet
<1> QED
  BY <1>1, <1>3, <1>6, <1>7 DEF Traffic, Mailboxes, AnswersMatch

LEMMA TrafficStep == Windows /\ Traffic /\ [Next]_vars => Traffic'
<1> SUFFICES ASSUME Windows, Traffic, [Next]_vars PROVE Traffic'
  OBVIOUS
<1> "ui" \in Threads /\ "worker" \in Threads
  BY DEF Threads
<1>1. CASE Click
  BY <1>1, ClickTraffic
<1>2. CASE OnWorkerDone
  BY <1>2, TrafficKept DEF OnWorkerDone, shared
<1>3. CASE WorkerStep
  BY <1>3, NotConnectedTraffic, SendTraffic, RecvTraffic, FailureTraffic,
     LogoutTraffic, DisconnectTraffic DEF WorkerStep
<1>4. CASE DoDisconnect("ui")
  BY <1>4, DisconnectTraffic
<1>5. ASSUME NEW s \in Sockets, Answer(s)
      PROVE  Traffic'
  BY <1>5, AnswerTraffic
<1>6. ASSUME NEW s \in Sockets, PeerCloses(s)
      PROVE  Traffic'
  BY <1>6, TrafficKept DEF PeerCloses, shared, thread
<1>7. CASE UNCHANGED vars
  BY <1>7, TrafficKept DEF vars, shared, thread
<1> QED
  BY <1>1, <1>2, <1>3, <1>4, <1>5, <1>6, <1>7 DEF Next, UiStep, Closed

(* As long as no receive timed out and no send failed on a connection, a   *)
(* command shows the answer to its own request (MainDlg.cpp:511-527).      *)
THEOREM AnswersAlwaysMatch == Spec => []AnswersMatch
<1>1. Init => Traffic
  BY TrafficInit
<1>2. Windows /\ Traffic /\ [Next]_vars => Traffic'
  BY TrafficStep
<1>3. Traffic => AnswersMatch
  BY DEF Traffic
<1> QED
  BY <1>1, <1>2, <1>3, WindowsAlways, PTL DEF Spec

-----------------------------------------------------------------------------
(* Types.                                                                  *)

(* The dialog's and the thread's own variables. *)
Controls ==
  /\ enabled \subseteq {"connect", "disconnect", "run"}
  /\ cmd \in Commands
  /\ left \in 0 .. BatchSize - 1
  /\ peerOpen \in [Sockets -> BOOLEAN]

(* Whatever is on its way or was shown belongs to a request that was sent. *)
Numbered ==
  /\ asked \in Nat
  /\ pending \in [Sockets -> Seq(1 .. asked)]
  /\ inbox \in [Sockets -> Seq(1 .. asked)]
  /\ shown \subseteq [to : 1 .. asked, got : 1 .. asked, clean : BOOLEAN]
  /\ worker = "waiting" => asked >= 1

LEMMA ControlsInit == Init => Controls
BY UiAssumption DEF Init, Controls, Commands

LEMMA ControlsStep == Controls /\ [Next]_vars => Controls'
<1> SUFFICES ASSUME Controls, [Next]_vars PROVE Controls'
  OBVIOUS
<1>1. CASE Click
  <2>1. CASE \E s \in Sockets : OnBnClickedConnect(s)
    BY <2>1 DEF OnBnClickedConnect, DoConnect, Controls, ButtonsWhenConnected, thread
  <2>2. ASSUME NEW k \in Commands, OnBnClickedRun(k) PROVE Controls'
    BY <2>2, UiAssumption DEF OnBnClickedRun, FurtherRequests, Controls
  <2>3. CASE OnBnClickedDisconnect \/ OnCancel
    BY <2>3 DEF OnBnClickedDisconnect, OnCancel, Controls, button, thread
  <2> QED
    BY <1>1, <2>1, <2>2, <2>3 DEF Click
<1>2. CASE OnWorkerDone
  BY <1>2 DEF OnWorkerDone, ButtonsWhenDone, Controls
<1>3. ASSUME NEW t \in Threads, DoDisconnect(t)
      PROVE  Controls'
  BY <1>3 DEF DoDisconnect, TestSocket, CloseSocket, ClearSocket,
     AfterDisconnect, Controls, button, thread
<1>4. CASE NotConnected \/ SendRequest \/ SendFails \/ RecvAnswer
           \/ RecvFails \/ RunLogout
  <2>1. UNCHANGED <<enabled, cmd, peerOpen>>
    BY <1>4 DEF NotConnected, SendRequest, SendFails, RecvAnswer, RecvFails,
       RunLogout, WorkerFrame, button
  <2>2. left' = left \/ EndCommand
    BY <1>4 DEF NotConnected, SendRequest, SendFails, RecvAnswer, RecvFails,
       RunLogout
  <2> QED
    BY <2>1, <2>2, UiAssumption DEF EndCommand, Controls
<1>5. CASE \E s \in Sockets : Answer(s) \/ PeerCloses(s)
  BY <1>5 DEF Answer, PeerCloses, Controls, button, thread
<1>6. CASE UNCHANGED vars
  BY <1>6 DEF vars, button, thread, Controls
<1> QED
  BY <1>1, <1>2, <1>3, <1>4, <1>5, <1>6
  DEF Next, UiStep, WorkerStep, Closed, Threads

LEMMA NumberedInit == Init => Numbered
BY DEF Init, Numbered

(* Sending one request more leaves what was numbered so far in its place. *)
LEMMA OneMore ==
  ASSUME Numbered, asked' = asked + 1
  PROVE  /\ asked' \in Nat /\ asked' \in 1 .. asked'
         /\ pending \in [Sockets -> Seq(1 .. asked')]
         /\ inbox \in [Sockets -> Seq(1 .. asked')]
         /\ shown \subseteq [to : 1 .. asked', got : 1 .. asked', clean : BOOLEAN]
<1>1. /\ asked' \in Nat /\ asked' \in 1 .. asked'
      /\ 1 .. asked \subseteq 1 .. asked'
  BY DEF Numbered
<1>2. ASSUME NEW q \in Seq(1 .. asked) PROVE q \in Seq(1 .. asked')
  BY <1>1, SeqMonotonic
<1>3. /\ pending \in [Sockets -> Seq(1 .. asked')]
      /\ inbox \in [Sockets -> Seq(1 .. asked')]
  BY <1>2 DEF Numbered
<1> QED
  BY <1>1, <1>3 DEF Numbered

LEMMA NumberedKept ==
  ASSUME Numbered, UNCHANGED <<asked, pending, inbox, shown>>,
         worker' = "waiting" => worker = "waiting"
  PROVE  Numbered'
BY DEF Numbered

LEMMA NumberedStep == Windows /\ Numbered /\ [Next]_vars => Numbered'
<1> SUFFICES ASSUME Windows, Numbered, [Next]_vars PROVE Numbered'
  OBVIOUS
<1>1. CASE SendRequest \/ SendFails \/ RunLogout
  <2>1. asked' = asked + 1 /\ inbox' = inbox /\ shown' = shown
    BY <1>1 DEF SendRequest, SendFails, RunLogout, Deliver
  <2>2. /\ asked' \in Nat /\ asked' \in 1 .. asked'
        /\ pending \in [Sockets -> Seq(1 .. asked')]
        /\ inbox \in [Sockets -> Seq(1 .. asked')]
        /\ shown \subseteq [to : 1 .. asked', got : 1 .. asked', clean : BOOLEAN]
    BY <2>1, OneMore
  <2>3. \/ pending' = pending
        \/ Usable(m_socket) /\ pending' = [pending EXCEPT ![m_socket] = Append(@, asked')]
    BY <1>1 DEF SendRequest, SendFails, RunLogout, Deliver
  <2>4. pending' \in [Sockets -> Seq(1 .. asked')]
    <3>1. CASE Usable(m_socket) /\ pending' = [pending EXCEPT ![m_socket] = Append(@, asked')]
      <4>1. m_socket \in Sockets
        BY <3>1 DEF Usable, Windows, Typed
      <4>2. Append(pending[m_socket], asked') \in Seq(1 .. asked')
        BY <2>2, <4>1, AppendProperties
      <4> QED
        BY <2>2, <3>1, <4>2
    <3> QED
      BY <2>2, <2>3, <3>1
  <2> QED
    BY <2>1, <2>2, <2>4 DEF Numbered
<1>2. CASE RecvAnswer
  <2>1. m_socket \in Sockets /\ worker = "waiting" /\ inbox[m_socket] # <<>>
    BY <1>2 DEF RecvAnswer, Usable, Windows, Typed
  <2>2. /\ Head(inbox[m_socket]) \in 1 .. asked
        /\ Tail(inbox[m_socket]) \in Seq(1 .. asked)
    BY <2>1 DEF Numbered
  <2>3. asked \in 1 .. asked /\ UNCHANGED <<asked, pending>>
    BY <1>2, <2>1 DEF RecvAnswer, Numbered
  <2>4. PICK got \in 1 .. asked :
          shown' = shown \cup {[to |-> asked, got |-> got,
                                clean |-> health[m_socket] = "good"]}
    BY <1>2, <2>2 DEF RecvAnswer
  <2>5. (health[m_socket] = "good") \in BOOLEAN
    OBVIOUS
  <2> DEFINE A == [to : 1 .. asked, got : 1 .. asked, clean : BOOLEAN]
             a == [to |-> asked, got |-> got, clean |-> health[m_socket] = "good"]
  <2>6. a \in A
    BY <2>3, <2>5
  <2>7. shown \subseteq A
    BY DEF Numbered
  <2>8. shown' \subseteq A
    BY <2>4, <2>6, <2>7
  <2>9. inbox' \in [Sockets -> Seq(1 .. asked)]
    BY <1>2, <2>2 DEF RecvAnswer, Numbered
  <2> QED
    BY <2>1, <2>3, <2>8, <2>9 DEF Numbered
<1>3. ASSUME NEW s \in Sockets, Answer(s)
      PROVE  Numbered'
  <2>1. pending[s] \in Seq(1 .. asked) /\ pending[s] # <<>>
    BY <1>3 DEF Answer, Numbered
  <2>2. /\ Head(pending[s]) \in 1 .. asked
        /\ Tail(pending[s]) \in Seq(1 .. asked)
    BY <2>1, HeadTailProperties
  <2>3. Append(inbox[s], Head(pending[s])) \in Seq(1 .. asked)
    BY <2>2 DEF Numbered
  <2>4. /\ pending' \in [Sockets -> Seq(1 .. asked)]
        /\ inbox' \in [Sockets -> Seq(1 .. asked)]
    BY <1>3, <2>2, <2>3 DEF Answer, Numbered
  <2> QED
    BY <1>3, <2>4 DEF Answer, Numbered, thread, history
<1>4. CASE NotConnected \/ RecvFails
  BY <1>4, NumberedKept, EndCommandWorker
  DEF NotConnected, RecvFails, network, history
<1>5. CASE Click \/ OnWorkerDone
  BY <1>5, NumberedKept
  DEF Click, OnBnClickedConnect, DoConnect, OnBnClickedDisconnect, OnBnClickedRun, FurtherRequests,
      OnCancel, OnWorkerDone, thread, network, history
<1>6. ASSUME NEW t \in Threads, DoDisconnect(t)
      PROVE  Numbered'
  BY <1>6, NumberedKept
  DEF DoDisconnect, TestSocket, CloseSocket, ClearSocket, AfterDisconnect,
      thread, network, history
<1>7. CASE \/ \E s \in Sockets : PeerCloses(s)
           \/ UNCHANGED vars
  BY <1>7, NumberedKept DEF PeerCloses, vars, thread, network, history
<1> QED
  BY <1>1, <1>2, <1>3, <1>4, <1>5, <1>6, <1>7
  DEF Next, UiStep, WorkerStep, Closed, Threads

(* Every variable of the UI client stays in its type: every request and    *)
(* answer is one that was sent, and a batch never counts below zero.       *)
THEOREM TypeAlwaysCorrect == Spec => []TypeOK
<1>1. Init => Traffic /\ Controls /\ Numbered
  BY TrafficInit, ControlsInit, NumberedInit
<1>2. Windows /\ Traffic /\ Controls /\ Numbered /\ [Next]_vars
      => Traffic' /\ Controls' /\ Numbered'
  BY TrafficStep, ControlsStep, NumberedStep
<1>3. Windows /\ Traffic /\ Controls /\ Numbered => TypeOK
  BY DEF Windows, Typed, Traffic, Mailboxes, Controls, Numbered, TypeOK
<1> QED
  BY <1>1, <1>2, <1>3, WindowsAlways, PTL DEF Spec

-----------------------------------------------------------------------------
(* Progress.                                                               *)

(* At the end of a request the command goes on with the next or is over. *)
LEMMA EndIsNearer ==
  ASSUME Controls, EndCommand, worker \in {"ready", "waiting"}
  PROVE  WorkerSteps' < WorkerSteps
<1>1. left \in Nat /\ (left > 0 => left - 1 \in Nat)
  BY UiAssumption DEF Controls
<1>2. CASE left > 0
  <2>1. worker' = "ready" /\ left' = left - 1
    BY <1>2 DEF EndCommand
  <2> QED
    BY <1>1, <2>1 DEF WorkerSteps
<1>3. CASE ~(left > 0)
  <2>1. worker' = "posted"
    BY <1>3 DEF EndCommand
  <2> QED
    BY <1>1, <2>1 DEF WorkerSteps
<1> QED
  BY <1>2, <1>3

LEMMA ExchangeIsNearer ==
  ASSUME Windows, Controls,
         \/ NotConnected \/ SendRequest \/ SendFails \/ RecvAnswer
         \/ RecvFails \/ RunLogout
  PROVE  WorkerSteps' < WorkerSteps
<1>1. left \in Nat
  BY UiAssumption DEF Controls
<1>2. CASE NotConnected \/ SendFails \/ RecvAnswer \/ RecvFails
  BY <1>2, EndIsNearer DEF NotConnected, SendFails, RecvAnswer, RecvFails
<1>3. CASE SendRequest
  <2>1. worker = "ready" /\ worker' = "waiting" /\ left' = left
    BY <1>3 DEF SendRequest
  <2> QED
    BY <1>1, <2>1 DEF WorkerSteps
<1>4. CASE RunLogout
  <2>1. /\ worker = "ready" /\ worker' = "leaving"
        /\ closing'["worker"] = "test"
    BY <1>4 DEF RunLogout, Leave, Windows, Typed, Threads
  <2> QED
    BY <1>1, <2>1 DEF WorkerSteps
<1> QED
  BY <1>2, <1>3, <1>4

LEMMA LogoutIsNearer ==
  ASSUME Windows, DoDisconnect("worker")
  PROVE  WorkerSteps' < WorkerSteps
<1>1. /\ worker = "leaving"
      /\ \/ /\ closing["worker"] = "test"
            /\ \/ closing'["worker"] = "close" /\ worker' = worker
               \/ worker' = "posted"
         \/ /\ closing["worker"] = "close"
            /\ closing'["worker"] = "clear" /\ worker' = worker
         \/ closing["worker"] = "clear" /\ worker' = "posted"
  BY DEF Windows, Typed, Owners, DoDisconnect, TestSocket, CloseSocket,
     ClearSocket, AfterDisconnect, thread, Threads
<1> QED
  BY <1>1 DEF WorkerSteps

(* The dialog's thread, the user and the server leave a command alone that *)
(* runs: the buttons do not let another one start.                         *)
LEMMA OthersWait ==
  ASSUME Windows, worker # "none",
         \/ Click \/ DoDisconnect("ui")
         \/ \E s \in Sockets : Answer(s) \/ PeerCloses(s)
  PROVE  UNCHANGED <<worker, left, closing["worker"]>>
<1>1. CASE Click
  <2>1. ASSUME UiIdle PROVE enabled = {}
    BY <2>1 DEF Windows, ButtonsTellTruth
  <2>2. CASE \/ \E s \in Sockets : OnBnClickedConnect(s)
             \/ OnBnClickedDisconnect \/ \E k \in Commands : OnBnClickedRun(k)
    BY <2>1, <2>2 DEF OnBnClickedConnect, DoConnect, OnBnClickedDisconnect, OnBnClickedRun, FurtherRequests
  <2>3. CASE OnCancel
    BY <2>3 DEF OnCancel, thread, Windows, Typed, Threads
  <2> QED
    BY <1>1, <2>2, <2>3 DEF Click
<1>2. CASE DoDisconnect("ui")
  BY <1>2 DEF DoDisconnect, TestSocket, CloseSocket, ClearSocket,
     AfterDisconnect, thread, Windows, Typed, Threads
<1>3. CASE \E s \in Sockets : Answer(s) \/ PeerCloses(s)
  BY <1>3 DEF Answer, PeerCloses, thread
<1> QED
  BY <1>1, <1>2, <1>3

(* A command ends after a number of steps that its batch alone bounds, as  *)
(* far as the worker makes steps: nothing restarts it or sets it back      *)
(* (MainDlg.cpp:279-362).                                                  *)
THEOREM CommandAlwaysDrains == Spec => CommandDrains
<1> DEFINE Nearer == worker # "none" =>
             \/ UNCHANGED <<worker, left, closing["worker"]>>
             \/ WorkerSteps' < WorkerSteps
<1>1. ASSUME Windows, Controls, [Next]_vars PROVE Nearer
  <2>1. CASE Click \/ \E s \in Sockets : Answer(s) \/ PeerCloses(s)
    BY <1>1, <2>1, OthersWait
  <2>2. CASE UiStep
    <3>1. CASE OnWorkerDone
      BY <3>1 DEF OnWorkerDone, WorkerSteps
    <3> QED
      BY <1>1, <2>2, <3>1, OthersWait DEF UiStep
  <2>3. CASE WorkerStep
    BY <1>1, <2>3, ExchangeIsNearer, LogoutIsNearer DEF WorkerStep
  <2>4. CASE UNCHANGED vars
    BY <2>4 DEF vars, thread
  <2> QED
    BY <1>1, <2>1, <2>2, <2>3, <2>4 DEF Next, Closed
<1>2. Windows /\ Controls /\ [Next]_vars => [Nearer]_vars
  BY <1>1
<1>3. Spec => []Controls
  BY ControlsInit, ControlsStep, PTL DEF Spec
<1> QED
  BY <1>2, <1>3, WindowsAlways, PTL DEF Spec, CommandDrains

=============================================================================
