-------------------------- MODULE MCResumeAttempt --------------------------
(* Small instances of ResumeAttempt: two attempts, of two Clients.           *)
EXTENDS ResumeAttempt

CONSTANTS ClientA, ClientB, First, Second

TwoClients == {ClientA, ClientB}
TwoAttempts == {First, Second}
OtherClient == [a \in TwoAttempts |-> IF a = First THEN ClientA ELSE ClientB]

\* A second instance over the same variables: here Ctrl-C may be pressed, no
\* attempt crashes and no claim is lost.
Nervous == INSTANCE ResumeAttempt WITH Fault <- {"disk", "interrupt"}

VARIABLE play    \* of which instance the behaviour is: "crash" or "interrupt"

CrashOrInterrupt ==
    /\ \/ play = "crash" /\ Init
       \/ play = "interrupt" /\ Nervous!Init
    /\ [][/\ play' = play
          /\ \/ play = "crash" /\ Next
             \/ play = "interrupt" /\ Nervous!Next]_<<vars, play>>

\* MemoryOnDisk and ReportMatchesRecord, where no Ctrl-C separates the record
\* from the machine.
MemoryKept == play = "crash" => MemoryOnDisk
ReportTrue == play = "crash" => ReportMatchesRecord
=============================================================================
