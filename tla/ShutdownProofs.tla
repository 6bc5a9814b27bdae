--------------------------- MODULE ShutdownProofs ---------------------------
(***************************************************************************)
(* That a daemon which ends by a signal has run its cache.Close, for any   *)
(* number of signals.  The main goroutine comes past its receive only with *)
(* a signal, closes the cache before it closes the channel, and only then  *)
(* can the delivery of another signal panic.                               *)
(***************************************************************************)
EXTENDS Shutdown, TLAPS

ReceivedBeforeClose ==
    main \in {"unlock", "persist", "close", "exit"} => signals > 0

EndsAtExit == ended \in {"exit 0", "panic in signal delivery"} => main = "exit"

SecondSignalPanics == ended = "panic in signal delivery" => signals > 1

ShutdownInv ==
    /\ ShutdownTypeOK
    /\ ReceivedBeforeClose
    /\ EndsAtExit
    /\ SecondSignalPanics

LEMMA ShutdownInvInit == ShutdownInit => ShutdownInv
  <1> SUFFICES ASSUME ShutdownInit PROVE ShutdownInv
    OBVIOUS
  <1> USE DEF ShutdownInit
  <1>1. signals \in 0 .. MaxSignals
    BY ShutdownAssumption
  <1>2. ShutdownTypeOK
    BY <1>1 DEF ShutdownTypeOK
  <1> QED
    BY <1>2 DEF ShutdownInv, ReceivedBeforeClose, EndsAtExit, SecondSignalPanics

\* Every step of the main goroutine is taken by a live process, from the place
\* before it.
LEMMA ShutdownInvMain == ShutdownInv /\ MainStep => ShutdownInv'
  <1> SUFFICES ASSUME ShutdownInv, MainStep PROVE ShutdownInv'
    OBVIOUS
  <1> USE ShutdownAssumption
       DEF ShutdownInv, ShutdownTypeOK, ReceivedBeforeClose, EndsAtExit, SecondSignalPanics,
           Alive
  <1>1. CASE GoRun
    BY <1>1 DEF MainStep, GoRun
  <1>2. CASE Notify
    BY <1>2 DEF MainStep, Notify
  <1>3. CASE ReceiveSignal
    BY <1>3 DEF MainStep, ReceiveSignal
  <1>4. CASE Unlock
    BY <1>4 DEF MainStep, Unlock
  <1>5. CASE PersistHashMap
    BY <1>5 DEF MainStep, PersistHashMap
  <1>6. CASE CloseChannel
    BY <1>6 DEF MainStep, CloseChannel
  <1>7. CASE Exit
    BY <1>7 DEF MainStep, Exit
  <1> QED
    BY <1>1, <1>2, <1>3, <1>4, <1>5, <1>6, <1>7 DEF MainStep

LEMMA ShutdownInvNext == ShutdownInv /\ [ShutdownNext]_shutdownVars => ShutdownInv'
  <1> SUFFICES ASSUME ShutdownInv, [ShutdownNext]_shutdownVars PROVE ShutdownInv'
    OBVIOUS
  <1>1. CASE MainStep
    BY <1>1, ShutdownInvMain
  \* At "exit", one signal has been received already.
  <1>2. CASE Alive /\ Signal
    <2>1. /\ signals < MaxSignals
          /\ signals' = signals + 1
          /\ UNCHANGED <<main, locked, closed>>
      BY <1>2, Zenon DEF Signal
    <2>2. signals \in 0 .. MaxSignals
      BY DEF ShutdownInv, ShutdownTypeOK
    <2>3. main \in {"unlock", "persist", "close", "exit"} => signals > 0
      BY DEF ShutdownInv, ReceivedBeforeClose
    <2>4. signals' \in 0 .. MaxSignals /\ signals' > 0
      BY ShutdownAssumption, <2>1, <2>2
    <2>5. main = "exit" => signals' > 1
      BY <2>1, <2>2, <2>3
    <2>6. /\ pending' \in BOOLEAN
          /\ ended' = IF main = "exit" THEN "panic in signal delivery" ELSE "no"
      BY <1>2, Zenon DEF Signal, Alive
    <2>7. ShutdownTypeOK'
      BY <2>1, <2>4, <2>6 DEF ShutdownInv, ShutdownTypeOK
    <2> QED
      BY <2>1, <2>4, <2>5, <2>6, <2>7
         DEF ShutdownInv, ReceivedBeforeClose, EndsAtExit, SecondSignalPanics
  <1> USE ShutdownAssumption
       DEF ShutdownInv, ShutdownTypeOK, ReceivedBeforeClose, EndsAtExit, SecondSignalPanics
  <1>3. CASE Alive /\ Kill
    BY <1>3 DEF Kill, Alive
  <1>4. CASE Alive /\ Panic
    BY <1>4 DEF Panic, Alive
  <1>5. CASE UNCHANGED shutdownVars
    BY <1>5 DEF shutdownVars
  <1> QED
    BY <1>1, <1>2, <1>3, <1>4, <1>5 DEF ShutdownNext

\* The places of the main goroutine, and what it has done to the cache at each.
THEOREM ShutdownTypeCorrect == ShutdownSpec => []ShutdownTypeOK
  <1>1. ShutdownInv => ShutdownTypeOK
    BY DEF ShutdownInv
  <1> QED
    BY <1>1, ShutdownInvInit, ShutdownInvNext, PTL DEF ShutdownSpec

\* README, "Application features": however many signals come, and even if the
\* delivery of the last one panics, the lock is released and cache.Close has
\* returned.
THEOREM StopsGracefully == ShutdownSpec => []GracefulStop
  <1>1. ShutdownInv => GracefulStop
    BY DEF ShutdownInv, ShutdownTypeOK, EndsAtExit, SecondSignalPanics, GracefulStop
  <1> QED
    BY <1>1, ShutdownInvInit, ShutdownInvNext, PTL DEF ShutdownSpec

-----------------------------------------------------------------------------
(* That no signal is lost *)

\* os/signal drops a signal that does not fit, but then another is in the channel:
\* once a signal has been trapped, the main goroutine never waits in vain.
NoSignalLost == signals > 0 /\ main = "receive" /\ Alive => pending

ReceivesNext == signals > 0 /\ main \in {"launch", "notify", "receive"} => pending

LEMMA ReceivesNextStep ==
  ShutdownInv /\ ReceivesNext /\ [ShutdownNext]_shutdownVars => ReceivesNext'
  <1> SUFFICES ASSUME ShutdownInv, ReceivesNext, [ShutdownNext]_shutdownVars
               PROVE  ReceivesNext'
    OBVIOUS
  <1>1. CASE Alive /\ Signal
    <2>1. /\ main' = main
          /\ main # "exit" => pending'
      BY <1>1 DEF Signal
    <2> QED
      BY <2>1 DEF ReceivesNext
  \* All others send nothing, and only the receive takes a signal out.
  <1>2. CASE ReceiveSignal \/ Unlock \/ PersistHashMap \/ CloseChannel
    BY <1>2 DEF ReceiveSignal, Unlock, PersistHashMap, CloseChannel, ReceivesNext
  <1>3. CASE \/ GoRun \/ Notify \/ Exit
             \/ (Alive /\ (Kill \/ Panic))
             \/ UNCHANGED shutdownVars
    BY <1>3 DEF GoRun, Notify, Exit, Kill, Panic, shutdownVars, ReceivesNext
  <1> QED
    BY <1>1, <1>2, <1>3 DEF ShutdownNext, MainStep

THEOREM SignalsKept == ShutdownSpec => []NoSignalLost
  <1>1. ShutdownInit => ReceivesNext
    BY DEF ShutdownInit, ReceivesNext
  <1>2. ReceivesNext => NoSignalLost
    BY DEF ReceivesNext, NoSignalLost
  <1> QED
    BY <1>1, <1>2, ShutdownInvInit, ShutdownInvNext, ReceivesNextStep, PTL DEF ShutdownSpec

=============================================================================
