------------------------------- MODULE Modem -------------------------------
(***************************************************************************)
(* data_transfer_task of src/stm32l431 and the AT command layer under it   *)
(* (at.c): every command is written to the UART and its answer is read     *)
(* until a timeout.  Nothing ties an answer to its command: one that comes *)
(* after the timeout waits in the driver for the next read.                *)
(***************************************************************************)
EXTENDS Naturals, Sequences, SequencesExt

CONSTANTS
    MaxOwed         \* bound on the commands the modem is busy with

ASSUME ModemAssumption == MaxOwed \in Nat \ {0}

VARIABLES
    cmd,        \* the command data_transfer_task sends next or waits for
    reading,    \* whether los_dev_uart_read is in progress
    owed,       \* the answers the modem still has to give, oldest first
    uart,       \* the unread answer in the driver's buffer, if any
    rbuf,       \* the answers at_unit has read into at_rbuf
    ret         \* the last result of at_unit

modemVars == <<cmd, reading, owed, uart, rbuf, ret>>

Command == {"reboot", "attach", "cdp", "send", "recv"}
\* An answer says OK or not, and may carry the value of +CGATT.  late marks
\* those whose command is over.
Text == {"OK", "ERROR", "ATTACHED", "DETACHED"}
Answer == [text : Text, late : BOOLEAN]
AnswersOf(c) == [text : IF c = "attach" THEN {"ATTACHED", "DETACHED", "ERROR"}
                        ELSE {"OK", "ERROR"},
                 late : {FALSE}]
Late(s) == [k \in DOMAIN s |-> [s[k] EXCEPT !.late = TRUE]]

ModemInit ==
    /\ cmd = "reboot"
    /\ reading = FALSE
    /\ owed = <<>>
    /\ uart = <<>>
    /\ rbuf = <<>>
    /\ ret = "none"

\* at_unit writes the command, clears at_rbuf and starts to read; what lies
\* unread in the driver is read at once.  The modem answers, or, busy or
\* rebooting, misses the command.
Write(heard) ==
    /\ ~reading
    /\ reading' = TRUE
    /\ rbuf' = Late(uart)
    /\ uart' = <<>>
    /\ IF heard
       THEN /\ Len(owed) < MaxOwed
            /\ \E a \in AnswersOf(cmd) : owed' = Append(Late(owed), a)
       ELSE owed' = Late(owed)
    /\ UNCHANGED <<cmd, ret>>

\* The modem gives its next answer.  At the end of the burst the interrupt
\* handler turns its two buffers: an answer still unread there is lost.
Receive ==
    /\ owed # <<>>
    /\ uart' = <<Head(owed)>>
    /\ owed' = Tail(owed)
    /\ UNCHANGED <<cmd, reading, rbuf, ret>>

\* los_dev_uart_read is woken and copies the burst, then waits for more.  A
\* burst that fills at_rbuf ends the read at once (los_dev_st_uart.c:339-347,
\* 388-396): here Take and then Timeout, which may come as soon.  That the rest
\* of such a burst stays in the driver is left out: an answer is read whole.
Take ==
    /\ reading
    /\ uart # <<>>
    /\ rbuf' = rbuf \o uart
    /\ uart' = <<>>
    /\ UNCHANGED <<cmd, reading, owed, ret>>

\* at_get_connect reads the number after "+CGATT:" at the start of at_rbuf;
\* when another answer stands there the variable stays uninitialised.
\* A mutant of it waits for 0, as the comment "0-connected" has it.
WaitsForZero == {Head(rbuf).text = "ATTACHED"}
Negative == IF Head(rbuf).text \in {"ATTACHED", "DETACHED"} THEN {FALSE}
            ELSE BOOLEAN
Says(s) == \E k \in DOMAIN s : s[k].text # "ERROR"

\* at_unit returns r.  data_transfer_task repeats "attach" while the result
\* is negative and looks at no other result.
Return(r) ==
    /\ ret' = r
    /\ reading' = FALSE
    /\ \E again \in IF cmd # "attach" THEN {FALSE}
                    ELSE IF r = "ok" THEN Negative ELSE {TRUE} :
          cmd' = CASE cmd = "reboot" -> "attach"
                   [] cmd = "attach" -> IF again THEN "attach" ELSE "cdp"
                   [] cmd = "cdp" -> "send"
                   [] cmd = "send" -> "recv"
                   [] cmd = "recv" -> "send"

\* The read ends when nothing comes for its timeout, however soon the answer
\* came; at_unit looks for an OK in all it has read.
Timeout ==
    /\ reading
    /\ Return(IF rbuf = <<>> THEN "read_failed"
              ELSE IF Says(rbuf) THEN "ok" ELSE "parse_ok")
    /\ UNCHANGED <<owed, uart, rbuf>>

\* Woken as the time is up, los_dev_uart_read copies the burst and returns 0,
\* also for what it had read before.
TakeLate ==
    /\ reading
    /\ uart # <<>>
    /\ rbuf' = rbuf \o uart
    /\ uart' = <<>>
    /\ Return("read_failed")
    /\ UNCHANGED owed

ModemStep == Write(TRUE) \/ Write(FALSE) \/ Receive \/ Take \/ Timeout \/ TakeLate

-----------------------------------------------------------------------------
(* Properties *)

\* at.c:102 and the comments like it, "0-ok,!0=err": when at_unit returns 0
\* the modem has said OK to this command.
OkIsMine ==
    ret = "ok" /\ ~reading =>
        \E k \in DOMAIN rbuf : rbuf[k].text # "ERROR" /\ ~rbuf[k].late
=============================================================================
