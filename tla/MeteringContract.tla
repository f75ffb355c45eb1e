-------------------------- MODULE MeteringContract --------------------------
(***************************************************************************)
(* What app/usage promises about one metered provider request, without the *)
(* tasks, semaphores, retries and lost messages that TokenMetering adds:   *)
(* a request is reserved before it is sent to the provider, and its entry  *)
(* in the ledger is closed by the usage the provider reported, released    *)
(* when nobody knows that usage, or expired together with the job's lease. *)
(***************************************************************************)
CONSTANT Requests       \* one id per attempt (uuid4 in the code)

VARIABLES
    ledger,             \* Spring's entry of each request
    provider            \* what the worker learned from the provider about it

Reports == {"successUsage", "successNoUsage", "failureUsage", "failureNoUsage",
            "abandoned"}

\* The close that each report justifies (app/usage/README.md, "call results").
CloseOf == [successUsage   |-> "SETTLED_SUCCESS",
            successNoUsage |-> "RELEASED",
            failureUsage   |-> "SETTLED_FAILURE",
            failureNoUsage |-> "RELEASED",
            abandoned      |-> "RELEASED"]

Init == /\ ledger = [r \in Requests |-> "absent"]
        /\ provider = [r \in Requests |-> "notCalled"]

Reserve(r) == /\ ledger[r] = "absent"
              /\ provider[r] # "running"
              /\ ledger' = [ledger EXCEPT ![r] = "RESERVED"]
              /\ UNCHANGED provider

Call(r) == /\ provider[r] = "notCalled"
           /\ ledger[r] \in {"RESERVED", "LEASE_EXPIRED"}
           /\ provider' = [provider EXCEPT ![r] = "running"]
           /\ UNCHANGED ledger

\* A request may be abandoned before the provider ever saw it.
Report(r, report) ==
    /\ IF report = "abandoned" THEN provider[r] \in {"notCalled", "running"}
                               ELSE provider[r] = "running"
    /\ provider' = [provider EXCEPT ![r] = report]
    /\ UNCHANGED ledger

Close(r) == /\ ledger[r] = "RESERVED"
            /\ provider[r] \in Reports
            /\ ledger' = [ledger EXCEPT ![r] = CloseOf[provider[r]]]
            /\ UNCHANGED provider

\* The end of a lease closes any set of entries that were still open.
Expire(S) == /\ \A r \in S : ledger[r] = "RESERVED"
             /\ ledger' = [r \in Requests |->
                             IF r \in S THEN "LEASE_EXPIRED" ELSE ledger[r]]
             /\ UNCHANGED provider

\* A process that dies abandons every request it was working on.
Die(S) == /\ \A r \in S : provider[r] \in {"notCalled", "running"}
          /\ provider' = [r \in Requests |->
                            IF r \in S THEN "abandoned" ELSE provider[r]]
          /\ UNCHANGED ledger

Next == \/ \E r \in Requests : \/ Reserve(r) \/ Call(r) \/ Close(r)
                               \/ \E report \in Reports : Report(r, report)
        \/ \E S \in SUBSET Requests : Expire(S) \/ Die(S)

Spec == Init /\ [][Next]_<<ledger, provider>>
=============================================================================
