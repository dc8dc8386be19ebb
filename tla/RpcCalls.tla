------------------------------ MODULE RpcCalls ------------------------------
(***************************************************************************)
(* What the RPC client promises a program that uses it, without locks,     *)
(* sequence numbers or the goroutine of receive(): a call that was issued  *)
(* ends at most once and its outcome is final; it may end without an       *)
(* answer and without an error, but only when the connection is gone; and  *)
(* the program gets this outcome, or, for a call with a context, an expiry *)
(* instead.                                                                *)
(***************************************************************************)
CONSTANTS Calls,   \* the calls a program makes
          Timed    \* those with a context

Outcomes == {"answer", "error", "nothing"}

VARIABLES call,    \* "idle", "open", or the outcome
          result,  \* what the program got: "none", an outcome or "timeout"
          up       \* the connection is up

vars == <<call, result, up>>

Init ==
    /\ call = [c \in Calls |-> "idle"]
    /\ result = [c \in Calls |-> "none"]
    /\ up = TRUE

Issue(c) ==
    /\ call[c] = "idle"
    /\ call' = [call EXCEPT ![c] = "open"]
    /\ UNCHANGED <<result, up>>

End(c, outcome) ==
    /\ call[c] = "open"
    /\ outcome = "nothing" => ~up
    /\ call' = [call EXCEPT ![c] = outcome]
    /\ UNCHANGED <<result, up>>

Return(c) ==
    /\ call[c] \in Outcomes /\ result[c] = "none"
    /\ result' = [result EXCEPT ![c] = call[c]]
    /\ UNCHANGED <<call, up>>

GiveUp(c) ==
    /\ c \in Timed
    /\ call[c] # "idle" /\ result[c] = "none"
    /\ result' = [result EXCEPT ![c] = "timeout"]
    /\ UNCHANGED <<call, up>>

Disconnect ==
    /\ up
    /\ up' = FALSE
    /\ UNCHANGED <<call, result>>

Next ==
    \/ \E c \in Calls :
        \/ Issue(c) \/ Return(c) \/ GiveUp(c)
        \/ \E outcome \in Outcomes : End(c, outcome)
    \/ Disconnect

Spec == Init /\ [][Next]_vars
==============================================================================
