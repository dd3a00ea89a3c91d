------------------------------ MODULE MCNative ------------------------------
(***************************************************************************)
(* The two halves of a native run for TLC, each on its own: one check from *)
(* the interpreter to the verdict (NativeRun, where writing and spawning   *)
(* the image is one step), and many threads writing and spawning images    *)
(* through kills and reused pids (ImageWrite, where a run ends once its    *)
(* image has started).  A behaviour is a behaviour of one of them, with    *)
(* the other at rest.                                                      *)
(***************************************************************************)
EXTENDS NativeRun, ImageWrite

VARIABLE half

\* Threads of one process, which may be killed and started again with its pid:
\* another process would differ in every name.
OnePid == [t \in Threads |-> 1]

HalfOfCheck == half = "check" /\ Init /\ ImageInit

\* A check that has returned: its interpreter refused the program.
HalfOfImages ==
    /\ half = "images"
    /\ ImageInit
    /\ interp = (CHOOSE r \in Records : TRUE) /\ prog = (CHOOSE b \in Behaviours : TRUE)
    /\ pc = "returned" /\ verdict = "oracle-fail"
    /\ child = "none" /\ status = "none" /\ clock = 0
    /\ wrote = [s \in Streams |-> 0]
    /\ pipe = [s \in Streams |-> <<>>] /\ read = [s \in Streams |-> <<>>]
    /\ eof = [s \in Streams |-> FALSE]

CheckStep == half = "check" /\ Next /\ UNCHANGED <<half, imageVars>>
ImageStep == half = "images" /\ ImageNext /\ UNCHANGED <<half, vars>>

HarnessSpec ==
    /\ HalfOfCheck \/ HalfOfImages
    /\ [][CheckStep \/ ImageStep]_<<half, vars, imageVars>>
    /\ Fairness

=============================================================================
