------------------------------ MODULE Shutdown ------------------------------
(***************************************************************************)
(* The main goroutine of a daemon, from `go daemon.Run()` in main.go to    *)
(* the end of the process, and the signals that are sent to it.  The other *)
(* goroutines go on until the process ends.                                *)
(***************************************************************************)
EXTENDS Naturals

CONSTANTS
    MaxSignals  \* bound: signals sent to the process

ASSUME ShutdownAssumption == MaxSignals \in Nat

VARIABLES
    main,       \* where the main goroutine is
    pending,    \* daemon.CloseSignal, of capacity 1, holds a signal
    signals,    \* history: signals sent since signal.Notify
    locked,     \* cache.lock is held
    closed,     \* history: cache.Close has returned
    ended       \* how the process ended

shutdownVars == <<main, pending, signals, locked, closed, ended>>

Alive == ended = "no"

\* Before signal.Notify, signals have their default action.
Trapped == main \notin {"launch", "notify"}

\* The lock is given up before the map is saved, and the channel is closed last.
ShutdownTypeOK ==
    /\ main \in {"launch", "notify", "receive", "unlock", "persist", "close", "exit"}
    /\ pending \in BOOLEAN
    /\ signals \in 0 .. MaxSignals
    /\ locked \in BOOLEAN
    /\ closed \in BOOLEAN
    /\ ended \in {"no", "exit 0", "killed", "panic in signal delivery", "panic"}
    /\ locked <=> main \in {"launch", "notify", "receive", "unlock"}
    /\ closed <=> main \in {"close", "exit"}
    /\ pending => signals > 0

\* cache.Setup has taken the lock.
ShutdownInit ==
    /\ main = "launch"
    /\ pending = FALSE
    /\ signals = 0
    /\ locked = TRUE
    /\ closed = FALSE
    /\ ended = "no"

-----------------------------------------------------------------------------
(* The main goroutine *)

GoRun ==
    /\ main = "launch"
    /\ main' = "notify"
    /\ UNCHANGED <<pending, signals, locked, closed, ended>>

\* CloseSignal is made and registered; nothing ever unregisters it.
Notify ==
    /\ main = "notify"
    /\ main' = "receive"
    /\ UNCHANGED <<pending, signals, locked, closed, ended>>

\* Bug: the channel is closed before the cache is, not after.
CloseAtOnce ==
    /\ main = "receive"
    /\ pending
    /\ pending' = FALSE
    /\ main' = "close"
    /\ UNCHANGED <<signals, locked, closed, ended>>

\* The deferred function of main.
ReceiveSignal ==
    /\ main = "receive"
    /\ pending
    /\ pending' = FALSE
    /\ main' = "unlock"
    /\ UNCHANGED <<signals, locked, closed, ended>>

\* Both calls of cache.Close, whose insides are CacheLock's and CacheGuard's.
Unlock ==
    /\ main = "unlock"
    /\ main' = "persist"
    /\ locked' = FALSE
    /\ UNCHANGED <<pending, signals, closed, ended>>

\* Close drops its error, so that hashes.json may or may not be written here, and
\* nobody learns which.  Its RLock waits for a goroutine that updates the hash map,
\* which is one assignment under a deferred unlock: the lock is free between any
\* two steps of this model.
PersistHashMap ==
    /\ main = "persist"
    /\ main' = "close"
    /\ closed' = TRUE
    /\ UNCHANGED <<pending, signals, locked, ended>>

CloseChannel ==
    /\ main = "close"
    /\ main' = "exit"
    /\ UNCHANGED <<pending, signals, locked, closed, ended>>

Exit ==
    /\ main = "exit"
    /\ ended' = "exit 0"
    /\ UNCHANGED <<main, pending, signals, locked, closed>>

-----------------------------------------------------------------------------
(* Signals, and other ends *)

\* Bug: the send to the channel is not there.
DropSignal ==
    /\ Trapped
    /\ signals < MaxSignals
    /\ signals' = signals + 1
    /\ UNCHANGED <<main, pending, locked, closed, ended>>

\* os/signal sends to the registered channel without blocking: a signal that
\* does not fit is dropped, and one sent after the close is a send on a closed
\* channel.
Signal ==
    /\ Trapped
    /\ signals < MaxSignals
    /\ signals' = signals + 1
    /\ pending' = (main # "exit" \/ pending)
    /\ ended' = IF main = "exit" THEN "panic in signal delivery" ELSE ended
    /\ UNCHANGED <<main, locked, closed>>

\* A signal before signal.Notify has its default action.  (So has SIGKILL at any
\* time, after which there is nothing to say of this process.)
Kill ==
    /\ ~Trapped
    /\ ended' = "killed"
    /\ UNCHANGED <<main, pending, signals, locked, closed>>

\* A goroutine of daemon.Run panics, and nothing recovers it.
Panic ==
    /\ ended' = "panic"
    /\ UNCHANGED <<main, pending, signals, locked, closed>>

MainStep ==
    Alive /\ (GoRun \/ Notify \/ ReceiveSignal \/ Unlock \/ PersistHashMap
                 \/ CloseChannel \/ Exit)

ShutdownNext == MainStep \/ (Alive /\ (Signal \/ Kill \/ Panic))

ShutdownSpec == ShutdownInit /\ [][ShutdownNext]_shutdownVars

-----------------------------------------------------------------------------
(* Properties *)

\* README, "Application features": trapped signals release the cache lock
\* cleanly.  Even a signal that comes when the channel is closed already, and
\* makes its delivery panic, finds that the lock is released and that cache.Close has
\* returned, if perhaps with an error that it drops; and it takes more than one
\* signal for that.
GracefulStop ==
    ended \in {"exit 0", "panic in signal delivery"} =>
        /\ ~locked
        /\ closed
        /\ ended = "panic in signal delivery" => signals > 1

\* Whatever the other goroutines are doing, a trapped signal ends the process.
SignalEndsProcess == signals > 0 ~> ended # "no"

=============================================================================
