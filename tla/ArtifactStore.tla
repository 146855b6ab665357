---------------------------- MODULE ArtifactStore ----------------------------
(***************************************************************************)
(* What the OCI artifact fetcher of the agent promises its callers about   *)
(* one artifact: callers ask for it, at most one of them installs it, and  *)
(* it is installed once.  A caller is told that the artifact is there only *)
(* when it is, and it then stays there for ever, whatever callers do, fail *)
(* at or die of afterwards.                                                *)
(***************************************************************************)
CONSTANT Caller

VARIABLES
    valid,       \* whether the artifact is one that may be installed
    available,   \* whether it is installed, complete
    call,        \* what each caller is doing
    answer       \* what each caller was told last

vars == <<valid, available, call, answer>>

Init ==
    /\ valid \in BOOLEAN
    /\ available = FALSE
    /\ call = [p \in Caller |-> "idle"]
    /\ answer = [p \in Caller |-> "none"]

Ask(p) ==
    /\ call[p] = "idle"
    /\ call' = [call EXCEPT ![p] = "asking"]
    /\ UNCHANGED <<valid, available, answer>>

StartInstall(p) ==
    /\ call[p] = "asking"
    /\ ~available
    /\ \A q \in Caller : call[q] # "installing"
    /\ call' = [call EXCEPT ![p] = "installing"]
    /\ UNCHANGED <<valid, available, answer>>

Install(p) ==
    /\ call[p] = "installing"
    /\ valid
    /\ available' = TRUE
    /\ UNCHANGED <<valid, call, answer>>

Return(p, told) ==
    /\ call[p] # "idle"
    /\ call' = [call EXCEPT ![p] = "idle"]
    /\ answer' = [answer EXCEPT ![p] = told]
    /\ UNCHANGED valid

Succeed(p) == available /\ Return(p, "ok") /\ UNCHANGED available

\* A call that fails may have come as far as installing the artifact.
Fail(p) ==
    /\ Return(p, "error")
    /\ \/ UNCHANGED available
       \/ call[p] = "installing" /\ valid /\ available' = TRUE

Die(p) == Return(p, "none") /\ UNCHANGED available

Next == \E p \in Caller :
    Ask(p) \/ StartInstall(p) \/ Install(p) \/ Succeed(p) \/ Fail(p) \/ Die(p)

Spec == Init /\ [][Next]_vars
==============================================================================
