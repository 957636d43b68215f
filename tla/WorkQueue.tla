------------------------------ MODULE WorkQueue ------------------------------
(***************************************************************************)
(* What the job stream and the worker pools promise together: a message    *)
(* that was added may be transcoded, more than once if need be, and it is  *)
(* acknowledged only after some transcode of it has returned, or when it   *)
(* names no job at all.                                                    *)
(* WorkerPool.tla, the program, is shown to implement this specification.  *)
(***************************************************************************)
EXTENDS Naturals

CONSTANTS NumMsgs,      \* how many messages are ever added
          Malformed     \* the messages whose payload names no job

VARIABLES added,        \* messages 1..added have been added
          processed,    \* messages one transcode of which has returned
          acked         \* messages acknowledged

wqVars == <<added, processed, acked>>

WQInit == added = 0 /\ processed = {} /\ acked = {}

WQAdd == /\ added < NumMsgs
         /\ added' = added + 1
         /\ UNCHANGED <<processed, acked>>

WQProcess(m) == /\ m \in 1..added
                /\ processed' = processed \cup {m}
                /\ UNCHANGED <<added, acked>>

WQAck(m) == /\ m \in processed \cup (Malformed \cap 1..added)
            /\ acked' = acked \cup {m}
            /\ UNCHANGED <<added, processed>>

WQNext == WQAdd \/ \E m \in 1..NumMsgs : WQProcess(m) \/ WQAck(m)

WQSpec == WQInit /\ [][WQNext]_wqVars
==============================================================================
