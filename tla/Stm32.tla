------------------------------- MODULE Stm32 -------------------------------
(***************************************************************************)
(* The program of src/stm32l431: the boot path with the firmware update,   *)
(* and, once it has started the operating system, the task that talks to   *)
(* the modem; with the power failing at any time.                          *)
(***************************************************************************)
EXTENDS Ota, Modem

vars == <<otaVars, modemVars>>

Init == OtaInit /\ ModemInit

\* LOS_Start runs the tasks only when main() comes to its end.
Task(A) == pc = "tasks" /\ A /\ UNCHANGED otaVars
BootStep == OtaStep /\ UNCHANGED modemVars
TaskStep == Task(ModemStep)

\* The modem has the same supply, so its answers are lost with it.
PowerCut ==
    /\ PowerLoss
    /\ cmd' = "reboot"
    /\ reading' = FALSE
    /\ owed' = <<>>
    /\ uart' = <<>>
    /\ rbuf' = <<>>
    /\ ret' = "none"

Next == BootStep \/ TaskStep \/ PowerCut \/ (Publish /\ UNCHANGED modemVars)

Spec == Init /\ [][Next]_vars

\* The processor goes on; a read ends by its timeout; a modem that is asked
\* again and again hears a command, and an answer that comes again and again
\* is read in time.
Fairness ==
    /\ WF_vars(BootStep)
    /\ WF_vars(Task(Timeout))
    /\ WF_vars(Task(Write(TRUE) \/ Write(FALSE)))
    /\ SF_vars(Task(Write(TRUE)))
    /\ WF_vars(Task(Receive))
    /\ SF_vars(Task(Take))

FairSpec == Spec /\ Fairness

-----------------------------------------------------------------------------
(* Properties *)

\* The three states no step of the code leaves.  The store page was torn
\* (ota.c:91, 131): without lengths the chip faults at every start, without a
\* hash the same image is moved and written for ever.
Torn == Erased \in {page.len_normal, page.len_ota, page.hash}
\* The power failed, or a write did, while ota_move rewrote the normal area
\* (ota.c:117-119): the chip does not start any more, whatever the page says.
Bricked == pc = "dead" /\ normal \notin Image
\* The random number generator failed: main() has returned.
Halted == pc = "halt"

\* Wherever power failures hit the update (ota.c:58-152), the image the server
\* keeps offering is installed in the end, but for three things: a power
\* failure or a failed write that tore the store page, or one that hit the
\* normal area during ota_move, and a random number generator that failed.
UpdateArrives ==
    \A i \in Image : <>[](remote = i) =>
        \/ []<>(normal = i)
        \/ <>[](cuts + faults > 0 /\ Torn)
        \/ <>[](cuts + faults > 0 /\ Bricked)
        \/ <>[](faults > 0 /\ Halted)

\* Late and lost answers alone cannot hold the transfer task in at_get_connect
\* (stm32l431.c:132) for ever: if the modem reports no error from some time
\* on, the task sends again and again once the tasks run.
NoErrors == \A k \in DOMAIN owed : owed[k].text # "ERROR"
SendsAgain == <>[]NoErrors => []<>(pc # "tasks" \/ cmd = "send")
=============================================================================
