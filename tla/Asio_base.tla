------------------------------ MODULE Asio_base ------------------------------
(***************************************************************************)
(* Net::Asio_base (Asio_base.h): the Asio thread, which Client and Server  *)
(* start and stop while asynchronous operations are outstanding.           *)
(*                                                                         *)
(* stop_asio_thread is three steps of the user's thread, between which the *)
(* Asio thread runs; io_context itself is external.  What the modules that *)
(* extend this one leave alone they say themselves.                        *)
(***************************************************************************)
VARIABLES
    stopped,                    \* m_asio_context.stopped()
    thread,                     \* where m_asio_thread_handle's thread is
    m_asio_thread_stop_flag

threadVars == <<stopped, thread, m_asio_thread_stop_flag>>

ThreadTypeOK ==
    /\ stopped \in BOOLEAN
    /\ thread \in {"none", "loop", "run", "exited"}
    /\ m_asio_thread_stop_flag \in BOOLEAN

ThreadInit == stopped = FALSE /\ thread = "none" /\ m_asio_thread_stop_flag = TRUE

joinable == thread # "none"

\* Variants of StartThread: the stop flag is not cleared, and a context that is stopped
\* is not restarted.
StartKeepsFlag ==
    ~joinable /\ stopped' = FALSE /\ thread' = "loop" /\ UNCHANGED m_asio_thread_stop_flag

StartWithoutRestart ==
    ~joinable /\ UNCHANGED stopped /\ thread' = "loop" /\ m_asio_thread_stop_flag' = FALSE

\* start_asio_thread, when there is no thread: restart() only clears stopped.
StartThread ==
    ~joinable /\ stopped' = FALSE /\ thread' = "loop" /\ m_asio_thread_stop_flag' = FALSE

\* start_asio_thread throws, when there is one.
StartThrows == joinable /\ UNCHANGED threadVars

\* The first step of stop_asio_thread, which does nothing if the flag is set already.
SetStopFlag == m_asio_thread_stop_flag' = TRUE /\ UNCHANGED <<stopped, thread>>

\* Variant of StopContext that only relies on the flag.
StopForgotten == UNCHANGED threadVars

\* m_asio_context.stop()
StopContext == stopped' = TRUE /\ UNCHANGED <<thread, m_asio_thread_stop_flag>>

\* The last step, which waits for the thread to exit.
JoinThread ==
    /\ thread \in {"none", "exited"} /\ thread' = "none"
    /\ UNCHANGED <<stopped, m_asio_thread_stop_flag>>

\* The loop tests the flag; run() returns at once when the context is stopped.
asio_thread ==
    /\ thread = "loop"
    /\ thread' = CASE m_asio_thread_stop_flag -> "exited"
                   [] ~m_asio_thread_stop_flag /\ stopped -> "loop"
                   [] ~m_asio_thread_stop_flag /\ ~stopped -> "run"
    /\ UNCHANGED <<stopped, m_asio_thread_stop_flag>>

\* run() returns when the context is stopped, and stops it when it is out of work.
RunReturns(work) ==
    /\ thread = "run" /\ (stopped \/ ~work)
    /\ thread' = "loop"
    /\ stopped' = TRUE
    /\ UNCHANGED m_asio_thread_stop_flag

\* The Asio thread may take a handler that is queued.
InRun == thread = "run" /\ ~stopped
===============================================================================
