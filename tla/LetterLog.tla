----------------------------- MODULE LetterLog -----------------------------
(***************************************************************************)
(* What the mailslot of lab7 promises: a log that any number of writers    *)
(* append to while it is open, each its numbered letters and at last a     *)
(* Stop, and that one reader reads in order, each letter once, up to the   *)
(* first Stop, with which the log is closed.                               *)
(***************************************************************************)
EXTENDS Naturals, Sequences

CONSTANTS
    Writers,
    Stop,     \* what closes a log
    MaxCount  \* the largest number of a letter

VARIABLES
    open,  \* the log has its reader
    log,   \* what has been written since it was opened
    read   \* how many of these letters the reader has taken

logVars == <<open, log, read>>

LogInit == open = FALSE /\ log = <<>> /\ read = 0

Start == ~open /\ open' = TRUE /\ log' = <<>> /\ read' = 0

Numbers(w) == {log[m].what : m \in {l \in DOMAIN log : log[l].from = w}}

(* A writer's next letter has the next number, and nothing follows a Stop. *)
Write(w) ==
    /\ open
    /\ \E n \in 0..MaxCount :
          /\ Numbers(w) = 1..n
          /\ \E what \in {Stop} \cup ({n + 1} \cap 1..MaxCount) :
                log' = Append(log, [from |-> w, what |-> what])
    /\ UNCHANGED <<open, read>>

ReadOne ==
    /\ open /\ read < Len(log)
    /\ log[read + 1].what # Stop
    /\ read' = read + 1
    /\ UNCHANGED <<open, log>>

(* What has not been read is dropped.                                      *)
Drop == open' = FALSE /\ log' = SubSeq(log, 1, read) /\ UNCHANGED read

Obey ==
    /\ open /\ read < Len(log)
    /\ log[read + 1].what = Stop
    /\ Drop

(* The reader is killed.                                                   *)
Lose == open /\ Drop

LogNext ==
    \/ Start \/ ReadOne \/ Obey \/ Lose
    \/ \E w \in Writers : Write(w)

LogSafety == LogInit /\ [][LogNext]_logVars

(* What is in an open log is read; nobody owes it a letter.                *)
LogSpec ==
    /\ LogSafety
    /\ WF_logVars(ReadOne \/ Obey)

=============================================================================
