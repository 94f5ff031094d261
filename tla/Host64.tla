------------------------------- MODULE Host64 -------------------------------
(***************************************************************************)
(* What the guest threads of the 64-bit build and the runtime's own        *)
(* threads do side by side: a guest thread opens files, asks the cabinet   *)
(* library for its board, shows frames; the board's ticker and the stall   *)
(* watchdog run beside it.  The file table is kept only under              *)
(* --trace-files and the board only under --io-board; no code joins the    *)
(* two, so a run here is given one of them.                                *)
(***************************************************************************)
EXTENDS FileTable64, IoBoard64, StallWatch64

ASSUME HostAssumption == Asker \subseteq Thread /\ Ticker \notin Thread

VARIABLE option    \* what main() found on the command line

vars == <<option, ftVars, ioVars, stallVars>>

Init == /\ option \in {"--trace-files", "--io-board"}
        /\ FtInit /\ IoInit /\ StallInit

Files == /\ option = "--trace-files"
         /\ (\E t \in Thread : FtNext(t)) \/ (\E h \in Handle : NativeClose(h))
         /\ UNCHANGED <<option, ioVars, stallVars>>
Board(A) == option = "--io-board" /\ A /\ UNCHANGED <<option, ftVars, stallVars>>
Watch(A) == A /\ UNCHANGED <<option, ftVars, ioVars>>

Next == Files \/ Board(IoNext) \/ Watch(StallNext)

\* The kernel runs the two threads of the runtime's own.
Spec == Init /\ [][Next]_vars /\ WF_vars(Board(Prime(Ticker) \/ PrimeStep(Ticker)))
             /\ WF_vars(Watch(Tick))

\* Types and bounds of the three parts' state.
TypeOK ==
    /\ option \in {"--trace-files", "--io-board"}
    /\ FtTyped /\ IoTyped /\ StallTyped
=============================================================================
